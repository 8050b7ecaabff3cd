-------------------------------- MODULE Scan --------------------------------
(***************************************************************************)
(* One repository under repeated scans of the command line tool:           *)
(* cli/main.py, cli/pipeline.py, cli/orgpolicy.py, cli/terraformscan.py,   *)
(* and the parts of rules/engine.py, ignore.py, baseline.py and            *)
(* rules/plan.py they drive.  `pc' names the step the scan is about to     *)
(* take; every step that can fail in the code can fail here, and the       *)
(* process can be killed between any two steps.  The baseline file         *)
(* outlives a scan, the code changes between scans.                        *)
(***************************************************************************)
EXTENDS Findings, FiniteSets

CONSTANTS
    Risks,       \* every risk some rule could raise (see IsRisk)
    Trees,       \* the states the source can be in: sets of risks
    Plans,       \* what a plan file can hold: sets of risks
    Configs,     \* the configurations a repository can have
    Jobs,        \* the command lines a scan can have: sets of Options
    Hosted,      \* the legacy keys of the waivers the hosted service holds
    Legacy       \* the legacy keys in a baseline an older release left behind

Options == {"local", "plan", "cloud", "license", "repo", "write_baseline",
            "baseline", "autofix", "post", "sarif", "codequality"}

Channels == {"stdout", "comment", "sarif", "codequality"}

ASSUME RisksAssumption == \A r \in Risks : IsRisk(r)

ASSUME WorldAssumption ==
    /\ Trees \subseteq SUBSET {r \in Risks : r.origin # "plan"}
    /\ Plans \subseteq SUBSET {r \in Risks : r.origin = "plan"}
    /\ Jobs \subseteq SUBSET Options

\* How a process can end; ExitCode says what its caller sees of it.
Ok        == "ok"
Blocked   == "blocked"
Error     == "error"
Traceback == "traceback"   \* an exception main does not catch
Killed    == "killed"
Unended   == "unended"

VARIABLES
    (* what outlives a scan *)
    tree,        \* the risks in the source now
    plan,        \* the risks in the plan file beside it
    config,      \* the configuration in force
    baseline,    \* [state, entries]: the baseline file
    written,     \* history: the risks that went into it
    (* one run of execute_scan *)
    pc, job,
    scanned,     \* the contents of the source the scan has read
    extended,    \* whether a licensed schema pack was loaded
    findings,    \* the list the pipeline carries
    waivers,     \* the waivers that were fetched
    blocked,     \* the verdict
    exit,        \* how the process ended
    (* what others have seen of it *)
    recorded,    \* what the usage service recorded: "nothing" or the verdict
    delivered,   \* the channels a report reached
    reports      \* what each of them was given

world == <<tree, plan, config>>
file  == <<baseline, written>>
local == <<job, scanned, extended, findings, waivers, blocked>>
outer == <<recorded, delivered, reports>>
vars  == <<world, file, pc, local, exit, outer>>

NoBaseline == [state |-> "absent", entries |-> {}]
Torn       == [state |-> "torn", entries |-> {}]

-----------------------------------------------------------------------------
(* What the rules find *)

\* A file whose head revision does not parse raises that and nothing else.
Unparsable(R) == {u.file : u \in {r \in R : r.rule = "unparsable_file"}}

\* Mutant: a file that does not parse is skipped.
RaisedSkippingBroken(R, licensed) ==
    {r \in R : (r.extended => licensed) /\ r.file \notin Unparsable(R)}

Raised(R, licensed) ==
    {r \in R : /\ r.extended => licensed
               /\ r.file \in Unparsable(R) => r.rule = "unparsable_file"}

From(origin, R) == {r \in R : r.origin = origin}

\* What the cloud account may answer about the named risks of R; without
\* access nothing is looked up, which leaves a severity as "unknown" does.
Named(R) == {r \in R : r.named}

Sightings(R, access) ==
    {s \in [Named(R) -> Contents] :
        \A r \in Named(R) : s[r] \in IF access THEN Answers(r.type) ELSE {"unknown"}}

\* run: cloud ratings, then the pinned provider, then the suppressions.
Inspected(R, cfg, seen) ==
    DropIgnoredInline(
        DropContradicted(AdjustSeverity({Fresh(r) : r \in R}, seen), cfg.contradicted),
        cfg.ignored)

\* run_plan_rules: only the category list applies to a finding of the plan.
PlanFindings(R, cfg, seen) ==
    AdjustSeverity(DropIgnored({Fresh(r) : r \in R}, cfg.ignored), seen)

MergePlan(F, P) == DropSuperseded(F, P) \cup P

\* The tail of collect_findings: the variable files, then the path rules,
\* which reach every finding, then the maturity of the rules.
Collected(F, R, cfg) ==
    MarkUnenforced(
        DropExcludedPaths(F \cup DropIgnored({Fresh(r) : r \in R}, cfg.ignored), cfg.excluded),
        cfg.maturity, cfg.enforced)

BaselineAccepts(b, r) ==
    \/ b.state = "v2" /\ Key(r) \in b.entries
    \/ b.state = "v1" /\ LegacyKey(r) \in b.entries

\* Mutant: the security tab is spared the lesser severities.
RenderedAtHigh(channel, F) ==
    IF channel \in {"sarif", "codequality"}
    THEN {f \in F : ~f.waived /\ AtLeast(f.severity, "high")} ELSE F

\* SARIF and the code quality report hold the open findings only.
Rendered(channel, F) ==
    IF channel \in {"sarif", "codequality"} THEN {f \in F : ~f.waived} ELSE F

-----------------------------------------------------------------------------
NoReports == [c \in Channels |-> {}]

Init ==
    /\ tree \in Trees /\ plan \in Plans /\ config \in Configs
    /\ baseline \in {NoBaseline, [state |-> "v1", entries |-> Legacy]}
    /\ written = {}
    /\ pc = "idle" /\ exit = Unended
    /\ job = {} /\ scanned = {} /\ extended = FALSE
    /\ findings = {} /\ waivers = {} /\ blocked = FALSE
    /\ recorded = "nothing" /\ delivered = {} /\ reports = NoReports

(***************************************************************************)
(* Between scans.  A change of the source during a scan matters only to    *)
(* the step that reads the source next, so it is enough to allow one just  *)
(* before those steps: the first read finds the process idle, the second   *)
(* is that of the variable files.                                          *)
(***************************************************************************)
EditSource(t) ==
    /\ pc \in {"idle", "variables"}
    /\ tree' = t
    /\ UNCHANGED <<plan, config, file, pc, local, exit, outer>>

NewPlan(p) ==
    /\ pc = "idle"
    /\ plan' = p
    /\ UNCHANGED <<tree, config, file, pc, local, exit, outer>>

Reconfigure(c) ==
    /\ pc = "idle"
    /\ config' = c
    /\ UNCHANGED <<tree, plan, file, pc, local, exit, outer>>

DropBaseline ==
    /\ pc = "idle"
    /\ baseline' = NoBaseline
    /\ written' = {}
    /\ UNCHANGED <<world, pc, local, exit, outer>>

-----------------------------------------------------------------------------
(* main and execute_scan *)

\* The interpreter ends with 1 on an exception main does not catch, as main
\* does on a scan that blocks; a shell reports a kill as 128 and the signal.
ExitCode ==
    CASE exit = Ok -> 0
      [] exit \in {Blocked, Traceback} -> 1
      [] exit = Error -> 2
      [] OTHER -> 137

End(code) == exit' = code /\ pc' = "ended"

Goto(step) == pc' = step /\ UNCHANGED exit

StartScan(j) ==
    /\ pc = "idle"
    /\ job' = j
    /\ Goto("configure")
    /\ UNCHANGED <<world, file, scanned, extended, findings, waivers, blocked, outer>>

\* Exclusive scan modes, or a configuration load_config rejects; a threshold
\* that is no number raises a ValueError nobody catches.
Configure ==
    /\ pc = "configure"
    /\ Goto("collect") \/ End(Error) \/ End(Traceback)
    /\ UNCHANGED <<world, file, local, outer>>

\* changed_terraform: git answers, or fails.
Collect ==
    /\ pc = "collect"
    /\ \/ scanned' = From("terraform", tree) /\ Goto("coverage")
       \/ UNCHANGED scanned /\ End(Error)
    /\ UNCHANGED <<world, file, job, extended, findings, waivers, blocked, outer>>

\* load_knowledge_base: without a pack the scan goes on with what is embedded,
\* but a damaged one can raise what parse_pack does not catch (zlib.error).
Coverage ==
    /\ pc = "coverage"
    /\ \/ /\ extended' \in IF "license" \in job THEN BOOLEAN ELSE {FALSE}
          /\ Goto("rules")
       \/ "license" \in job /\ UNCHANGED extended /\ End(Traceback)
    /\ UNCHANGED <<world, file, job, scanned, findings, waivers, blocked, outer>>

\* load_rule_pack and load_custom_rules.
LoadRules ==
    /\ pc = "rules"
    /\ Goto("inspect") \/ End(Error)
    /\ UNCHANGED <<world, file, local, outer>>

\* rules.run.
Inspect ==
    /\ pc = "inspect"
    /\ \E seen \in Sightings(Raised(scanned, extended), "cloud" \in job) :
           findings' = Inspected(Raised(scanned, extended), config, seen)
    /\ Goto(IF "plan" \in job THEN "plan" ELSE "variables")
    /\ UNCHANGED <<world, file, job, scanned, extended, waivers, blocked, outer>>

\* _merge_plan_findings: a plan that cannot be read ends the scan.
ReadPlan ==
    /\ pc = "plan"
    /\ \/ /\ \E seen \in Sightings(plan, "cloud" \in job) :
                 findings' = MergePlan(findings, PlanFindings(plan, config, seen))
          /\ Goto("variables")
       \/ UNCHANGED findings /\ End(Error)
    /\ UNCHANGED <<world, file, job, scanned, extended, waivers, blocked, outer>>

AfterCollecting ==
    IF "write_baseline" \in job THEN "write"
    ELSE IF "baseline" \in job THEN "baseline" ELSE "waivers"

Variables ==
    /\ pc = "variables"
    /\ \/ /\ scanned' = scanned \cup From("variables", tree)
          /\ findings' = Collected(findings, Raised(From("variables", tree), extended), config)
          /\ Goto(AfterCollecting)
       \/ UNCHANGED <<scanned, findings>> /\ End(Error)
    /\ UNCHANGED <<world, file, job, extended, waivers, blocked, outer>>

\* _write_baseline: write_text truncates the file and then fills it, so an
\* error may leave the old file, or the beginning of the new one.
WriteBaseline ==
    /\ pc = "write"
    /\ \/ /\ baseline' = [state |-> "v2", entries |-> {Key(f.risk) : f \in findings}]
          /\ written' = {f.risk : f \in findings}
          /\ End(Ok)
       \/ UNCHANGED file /\ End(Error)
       \/ baseline' = Torn /\ written' = {} /\ End(Error)
    /\ UNCHANGED <<world, local, outer>>

ApplyBaseline ==
    /\ pc = "baseline"
    /\ \/ /\ baseline.state # "torn"
          /\ findings' = Waive(findings, {r \in Risks : BaselineAccepts(baseline, r)})
          /\ Goto("waivers")
       \/ baseline.state = "torn" /\ UNCHANGED findings /\ End(Error)
    /\ UNCHANGED <<world, file, job, scanned, extended, waivers, blocked, outer>>

\* apply_waivers: no answer waives nothing.
FetchWaivers ==
    /\ pc = "waivers"
    /\ waivers' \in IF {"license", "repo"} \subseteq job THEN {{}, Hosted} ELSE {{}}
    /\ findings' = Waive(findings, {r \in Risks : LegacyKey(r) \in waivers'})
    /\ Goto("decide")
    /\ UNCHANGED <<world, file, job, scanned, extended, blocked, outer>>

Decide ==
    /\ pc = "decide"
    /\ blocked' = Blocks(findings, config.threshold)
    /\ Goto("usage")
    /\ UNCHANGED <<world, file, job, scanned, extended, findings, waivers, outer>>

\* Mutant: any finding counts as a blocked scan.
ReportAnyFinding ==
    /\ pc = "usage"
    /\ recorded' \in IF {"license", "repo"} \subseteq job
                     THEN {"nothing", IF findings # {} THEN "blocked" ELSE "passed"}
                     ELSE {"nothing"}
    /\ Goto(IF "autofix" \in job THEN "autofix" ELSE "print")
    /\ UNCHANGED <<world, file, local, delivered, reports>>

\* report_usage: allowed, refused by the quota, or lost on the way there or
\* back.  None of them touches the findings or the verdict.
ReportUsage ==
    /\ pc = "usage"
    /\ recorded' \in IF {"license", "repo"} \subseteq job
                     THEN {"nothing", IF blocked THEN "blocked" ELSE "passed"}
                     ELSE {"nothing"}
    /\ Goto(IF "autofix" \in job THEN "autofix" ELSE "print")
    /\ UNCHANGED <<world, file, local, delivered, reports>>

\* The files propose sends away: those of the open findings in Terraform files.
Fixable == {f.risk.file : f \in {g \in findings : ~g.waived /\ g.risk.origin = "terraform"}}

(***************************************************************************)
(* autofix.propose.  It collects the source a second time, outside its own *)
(* except clause: a git failure there ends the scan.  An answer that is    *)
(* cut short raises http.client.IncompleteRead, which neither that clause  *)
(* nor main names.  A correction is written only by a scan that does not   *)
(* post, when the user accepts it.                                         *)
(***************************************************************************)
Corrected ==
    IF "post" \in job /\ "local" \notin job THEN {tree}
    ELSE {t \in Trees : \A r \in (t \ tree) \cup (tree \ t) : r.file \in Fixable}

Autofix ==
    /\ pc = "autofix"
    /\ \/ UNCHANGED tree /\ Goto("print")
       \/ "license" \in job /\ UNCHANGED tree /\ End(Error)
       \/ /\ "license" \in job /\ Fixable # {}
          /\ tree' \in Corrected
          /\ Goto("print") \/ End(Traceback)
    /\ UNCHANGED <<plan, config, file, local, outer>>

Requested ==
    (job \cap {"sarif", "codequality"})
        \cup IF "post" \in job /\ "local" \notin job THEN {"comment"} ELSE {}

AfterSarif   == IF "codequality" \in Requested THEN "codequality" ELSE "done"
AfterComment == IF "sarif" \in Requested THEN "sarif" ELSE AfterSarif
AfterPrint   == IF "comment" \in Requested THEN "comment" ELSE AfterComment

Deliver(channel) ==
    /\ delivered' = delivered \cup {channel}
    /\ reports' = [reports EXCEPT ![channel] = Rendered(channel, findings)]
    /\ UNCHANGED recorded

PrintReport ==
    /\ pc = "print"
    /\ Deliver("stdout")
    /\ Goto(AfterPrint)
    /\ UNCHANGED <<world, file, local>>

\* Mutant: a channel that fails is a scan that fails.
PublishOrFail(channel, next) ==
    /\ pc = channel
    /\ \/ Deliver(channel) /\ Goto(next)
       \/ UNCHANGED outer /\ End(Error)
    /\ UNCHANGED <<world, file, local>>

\* A channel that fails is a warning.
Publish(channel, next) ==
    /\ pc = channel
    /\ Deliver(channel) \/ UNCHANGED outer
    /\ Goto(next)
    /\ UNCHANGED <<world, file, local>>

Conclude ==
    /\ pc = "done"
    /\ End(IF blocked THEN Blocked ELSE Ok)
    /\ UNCHANGED <<world, file, local, outer>>

\* The process can be killed at any point, also in the middle of a write.
Kill ==
    /\ pc \notin {"idle", "ended"}
    /\ \/ UNCHANGED file
       \/ pc = "write" /\ baseline' = Torn /\ written' = {}
    /\ End(Killed)
    /\ UNCHANGED <<world, local, outer>>

\* The caller has seen the exit code and the next scan starts from nothing.
Return ==
    /\ pc = "ended"
    /\ pc' = "idle" /\ exit' = Unended
    /\ job' = {} /\ scanned' = {} /\ extended' = FALSE
    /\ findings' = {} /\ waivers' = {} /\ blocked' = FALSE
    /\ recorded' = "nothing" /\ delivered' = {} /\ reports' = NoReports
    /\ UNCHANGED <<world, file>>

Step ==
    \/ Configure \/ Collect \/ Coverage \/ LoadRules \/ Inspect \/ ReadPlan
    \/ Variables \/ WriteBaseline \/ ApplyBaseline \/ FetchWaivers \/ Decide
    \/ ReportUsage \/ Autofix \/ PrintReport \/ Publish("comment", AfterComment)
    \/ Publish("sarif", AfterSarif) \/ Publish("codequality", "done")
    \/ Conclude

Between ==
    \/ \E t \in Trees : EditSource(t)
    \/ \E p \in Plans : NewPlan(p)
    \/ \E c \in Configs : Reconfigure(c)
    \/ DropBaseline

Next == (\E j \in Jobs : StartScan(j)) \/ Step \/ Kill \/ Return \/ Between

Spec == Init /\ [][Next]_vars

-----------------------------------------------------------------------------
(* Properties *)

TypeOK ==
    /\ tree \in Trees /\ plan \in Plans /\ config \in Configs
    /\ baseline.state \in {"absent", "v1", "v2", "torn"}
    /\ written \subseteq Risks
    /\ job \in Jobs \cup {{}}
    /\ scanned \subseteq Risks
    /\ extended \in BOOLEAN /\ blocked \in BOOLEAN
    /\ findings \subseteq FindingsOf(Risks)
    /\ waivers \subseteq Hosted
    /\ exit \in {Ok, Blocked, Error, Traceback, Killed, Unended}
    /\ recorded \in {"nothing", "blocked", "passed"}
    /\ delivered \subseteq Channels
    /\ reports \in [Channels -> SUBSET FindingsOf(Risks)]

\* The reasons docs/usage.md gives for a risk not to be reported.
Excused(r) ==
    \/ r.category \in config.ignored
    \/ r.directive /\ r.origin = "terraform"
    \/ <<r.file, r.category>> \in config.excluded
    \/ r.rule \in SchemaDerivedRules /\ r.file \in config.contradicted
    \/ r.extended /\ ~extended

\* A file that did not parse stands in the report for what is in it.
Hidden(r, R) == \E u \in R : u.rule = "unparsable_file" /\ u.file = r.file /\ u # r

\* The plan confirms a replacement the source only suggests.
Superseded(r) ==
    /\ r.category = "force_new_change"
    /\ "plan" \in job
    /\ \E p \in plan : /\ p.category = "confirmed_replace" /\ p.address = r.address
                       /\ p.category \notin config.ignored

(***************************************************************************)
(* Nothing is lost on the way: when a scan ends with a verdict, every risk *)
(* in what it read is in the printed report, unless the configuration      *)
(* excuses it, its file could not be parsed and is reported as such, or    *)
(* the plan reports it instead ("A file the scanner could not analyse is a *)
(* finding, not a silent pass", docs/usage.md).  Waivers, the baseline,    *)
(* maturity and the hosted services never remove one.                      *)
(***************************************************************************)
NoSilentLoss ==
    "stdout" \in delivered =>
        \A r \in scanned \cup (IF "plan" \in job THEN plan ELSE {}) :
            \/ \E f \in reports["stdout"] : f.risk = r
            \/ Excused(r) \/ Superseded(r)
            \/ Hidden(r, From(r.origin, scanned))

\* Why a reported finding does not block, told from the finding itself.
Tolerated(f) ==
    \/ ~MayBlock(f.risk.rule, config.maturity, config.enforced)
    \/ ~AtLeast(f.severity, config.threshold)
    \/ "baseline" \in job /\ BaselineAccepts(baseline, f.risk)
    \/ LegacyKey(f.risk) \in waivers

(***************************************************************************)
(* A scan that printed its report ends with the verdict of that report and *)
(* of nothing else: 1 exactly when it holds a finding at the threshold, of *)
(* an enforceable rule, that neither the baseline nor a hosted waiver      *)
(* accepts, and else 0.  Quota, failed uploads and comments do not move    *)
(* it.  A scan that printed nothing never ends with 0: it ends with 2, or  *)
(* with 1 for an exception nobody catches, which its caller cannot tell    *)
(* from a scan that blocks (cli/main.py:1 gives 1 to that one alone).      *)
(***************************************************************************)
ExitIsVerdict ==
    exit \notin {Unended, Killed} /\ "write_baseline" \notin job =>
        IF "stdout" \in delivered
        THEN ExitCode = IF \E f \in reports["stdout"] : ~Tolerated(f) THEN 1 ELSE 0
        ELSE ExitCode = 2 \/ (ExitCode = 1 /\ exit = Traceback)

(***************************************************************************)
(* Every report that was asked for and arrived shows why the scan blocked: *)
(* the channels that leave findings out never leave that one out.          *)
(***************************************************************************)
EveryChannelShowsTheCause ==
    exit = Blocked =>
        \A c \in delivered : \E f \in reports[c] : ~Tolerated(f)

SameAcceptance(r, w) ==
    /\ r.rule = w.rule /\ r.category = w.category
    /\ r.resource = w.resource /\ r.file = w.file

(***************************************************************************)
(* A baseline this release wrote accepts what was in the report when it    *)
(* was written and nothing a later scan turns up: a finding passes for it  *)
(* only if it agrees with a recorded one in rule, category, resource and   *)
(* file, and it does even when its severity has risen since.               *)
(***************************************************************************)
BaselineIsExact ==
    "stdout" \in delivered /\ "baseline" \in job /\ baseline.state = "v2" =>
        \A f \in reports["stdout"] :
            f.waived <=> \/ \E w \in written : SameAcceptance(f.risk, w)
                         \/ LegacyKey(f.risk) \in waivers

(***************************************************************************)
(* What the usage service recorded of a scan that ended with a verdict is  *)
(* that verdict (cli/orgpolicy.py sends `blocked', main returns it later). *)
(* A scan that fails in between, in autofix, has no verdict to compare.    *)
(***************************************************************************)
RecordedIsVerdict ==
    /\ recorded = "blocked" => exit # Ok
    /\ recorded = "passed"  => exit # Blocked

\* "Network failures in optional services do not discard the local report."
\* (docs/architecture.md): a scan that has findings to report, and ends by an
\* exception nobody catches, has printed them.
ReportNotDiscarded == exit = Traceback /\ findings # {} => "stdout" \in delivered

\* "Write findings atomically" (baseline.py, write): whatever interrupts the
\* writing, the file holds the old entries or the new ones.
BaselineIsWhole == baseline.state # "torn"

-----------------------------------------------------------------------------
(* The scan implements the abstract gate. *)

Outcome ==
    CASE exit = Unended                            -> "none"
      [] exit = Error                              -> "error"
      [] exit \in {Traceback, Killed}              -> "dead"
      [] exit = Blocked                            -> "block"
      [] exit = Ok /\ "write_baseline" \notin job  -> "pass"
      [] OTHER                                     -> "recorded"

Phase == IF pc = "idle" THEN "idle" ELSE IF pc = "ended" THEN "over" ELSE "running"

Shown ==
    IF "stdout" \notin delivered THEN "nothing"
    ELSE IF Blocks(reports["stdout"], config.threshold) THEN "open" ELSE "clear"

TheGate == INSTANCE Gate WITH phase <- Phase, shown <- Shown, outcome <- Outcome

\* The specification Gate, under the mapping above: at most one report, no
\* failure after it, and a verdict that agrees with it.
ImplementsGate == TheGate!Spec
=============================================================================
