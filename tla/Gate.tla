-------------------------------- MODULE Gate --------------------------------
(***************************************************************************)
(* What a scan promises to the pipeline that runs it, whatever happens     *)
(* inside: it shows at most one report, it never fails once the report has *)
(* been shown, and a verdict is always the verdict of the report that was  *)
(* shown, "open" when it holds a finding that must block, else "clear".    *)
(*                                                                         *)
(* The exit codes are those of docs/usage.md: 0 passes, 1 blocks, 2 is a   *)
(* scan failure.  A scan that only records a baseline shows no report.     *)
(* A process that dies of an exception has the exit code of a block; it is *)
(* kept apart here, which the pipeline cannot do.                          *)
(***************************************************************************)
VARIABLES phase,    \* "idle", "running" or "over"
          shown,    \* the report on standard output
          outcome   \* how the scan ended

vars == <<phase, shown, outcome>>

Init == phase = "idle" /\ shown = "nothing" /\ outcome = "none"

Begin ==
    /\ phase = "idle"
    /\ phase' = "running"
    /\ UNCHANGED <<shown, outcome>>

Show ==
    /\ phase = "running" /\ shown = "nothing"
    /\ shown' \in {"open", "clear"}
    /\ UNCHANGED <<phase, outcome>>

Conclude ==
    /\ phase = "running" /\ shown # "nothing"
    /\ outcome' = IF shown = "open" THEN "block" ELSE "pass"
    /\ phase' = "over"
    /\ UNCHANGED shown

\* A failure, or a baseline recorded instead of a verdict, precedes any report.
ConcludeUnseen ==
    /\ phase = "running" /\ shown = "nothing"
    /\ outcome' \in {"error", "recorded"}
    /\ phase' = "over"
    /\ UNCHANGED shown

\* The process may be killed, or die of an exception nobody catches.
Die ==
    /\ phase = "running"
    /\ outcome' = "dead"
    /\ phase' = "over"
    /\ UNCHANGED shown

\* The caller has taken the outcome.
Leave ==
    /\ phase = "over"
    /\ phase' = "idle" /\ shown' = "nothing" /\ outcome' = "none"

Next == Begin \/ Show \/ Conclude \/ ConcludeUnseen \/ Die \/ Leave

Spec == Init /\ [][Next]_vars
=============================================================================
