------------------------------ MODULE Findings ------------------------------
(***************************************************************************)
(* Findings and the pure operators the scan pipeline applies to them:      *)
(* severities (report/finding.py), suppression (ignore.py), acceptance     *)
(* (baseline.py, cli/orgpolicy.py), maturity (cli/pipeline.py), the cloud  *)
(* ratings (ruledef/severitycheck.py) and the superseding of static        *)
(* ForceNew guesses by the plan (rules/plan.py).                           *)
(*                                                                         *)
(* A risk is what a rule says about one revision of the code: its          *)
(* identity, its static severity and what decides whether it can be        *)
(* suppressed.  A finding is a risk on its way through the pipeline.       *)
(***************************************************************************)
EXTENDS Naturals

Severities == {"low", "medium", "high", "critical"}

SeverityRank == [s \in Severities |-> CASE s = "low"    -> 0
                                        [] s = "medium" -> 1
                                        [] s = "high"   -> 2
                                        [] OTHER        -> 3]

\* Severity.at_least: a threshold that names no severity has the lowest rank.
AtLeast(severity, threshold) ==
    SeverityRank[severity] >=
        IF threshold \in Severities THEN SeverityRank[threshold] ELSE 0

(***************************************************************************)
(* Where a finding comes from decides which suppressions reach it: the     *)
(* rule engine reads .tf files, the others are added after it has run.     *)
(***************************************************************************)
Origins == {"terraform", "plan", "variables"}

\* "named" is Finding.cloud_name # "", "directive" an inline ignore comment
\* that covers the line, "extended" a rule that needs a licensed schema pack.
IsRisk(r) ==
    /\ r.origin \in Origins
    /\ r.severity \in Severities
    /\ {r.named, r.directive, r.extended} \subseteq BOOLEAN

Fresh(r) == [risk |-> r, severity |-> r.severity, waived |-> FALSE, advisory |-> FALSE]

FindingsOf(R) ==
    [risk : R, severity : Severities, waived : BOOLEAN, advisory : BOOLEAN]

-----------------------------------------------------------------------------
(* Suppression: these remove a finding from the report. *)

SchemaDerivedRules == {"unknown_attribute", "force_new_change"}

\* ignore.apply with no inline map: the category list of the configuration.
DropIgnored(F, ignored) == {f \in F : f.risk.category \notin ignored}

\* ignore.apply as the engine calls it: inline directives as well.
DropIgnoredInline(F, ignored) ==
    {f \in DropIgnored(F, ignored) : ~f.risk.directive}

\* apply_path_rules: `excluded' holds the <<file, category>> pairs some path
\* rule matches and covers.
DropExcludedPaths(F, excluded) ==
    {f \in F : <<f.risk.file, f.risk.category>> \notin excluded}

\* `contradicted' holds the files whose directory pins a provider version
\* that the schema at hand does not describe.
DropContradicted(F, contradicted) ==
    {f \in F : f.risk.rule \in SchemaDerivedRules => f.risk.file \notin contradicted}

\* deduplicate_force_new_against_plan: `address' is bare_resource_address, the
\* "type.name" that is left of a plan address.
ConfirmedAddresses(P) ==
    {p.risk.address : p \in {q \in P : q.risk.category = "confirmed_replace"}}

DropSuperseded(F, P) ==
    {f \in F : f.risk.category = "force_new_change"
                  => f.risk.address \notin ConfirmedAddresses(P)}

-----------------------------------------------------------------------------
(* Acceptance and maturity: these mark a finding and leave it in the report. *)

\* Mutant: the version 1 key written as version 2.
KeyWithoutRule(r) == <<r.category, r.resource, r.file>>

Key(r)       == <<r.category, r.resource, r.file, r.rule>>
LegacyKey(r) == <<r.category, r.resource, r.file>>

Waive(F, accepted) ==
    {IF f.risk \in accepted THEN [f EXCEPT !.waived = TRUE] ELSE f : f \in F}

\* mark_findings_of_unenforced_rules: `maturity' is a function on the ids of
\* the rules in the active pack; a rule that is not in it keeps blocking.
MayBlock(rule, maturity, enforced) ==
    \/ rule \notin DOMAIN maturity
    \/ maturity[rule] = "stable"
    \/ maturity[rule] = "validated" /\ rule \in enforced

MarkUnenforced(F, maturity, enforced) ==
    {IF MayBlock(f.risk.rule, maturity, enforced) THEN f ELSE [f EXCEPT !.advisory = TRUE] : f \in F}

\* Mutant: maturity is forgotten.
BlocksWhateverTheMaturity(F, threshold) ==
    \E f \in F : ~f.waived /\ AtLeast(f.severity, threshold)

\* blocked_by.
Blocks(F, threshold) ==
    \E f \in F : ~f.waived /\ ~f.advisory /\ AtLeast(f.severity, threshold)

-----------------------------------------------------------------------------
(* What AWS says about a named resource, and the severity that follows. *)

Contents == {"absent", "empty", "holds_data", "exists", "unknown"}

DatabaseTypes == {"aws_db_instance", "aws_rds_cluster", "aws_docdb_cluster",
                  "aws_neptune_cluster", "aws_redshift_cluster"}

ObservableTypes ==
    DatabaseTypes \cup {"aws_s3_bucket", "aws_dynamodb_table", "aws_ecr_repository"}

\* The answers observe_contents can give: a failed lookup is "unknown".
Answers(type) ==
    CASE type \in {"aws_s3_bucket", "aws_ecr_repository"} ->
            {"absent", "empty", "holds_data", "unknown"}
      [] type = "aws_dynamodb_table" -> {"absent", "holds_data", "exists", "unknown"}
      [] type \in DatabaseTypes      -> {"absent", "exists", "unknown"}
      [] OTHER                       -> {"unknown"}

\* Mutant: a rating that is no severity.
ForceDestroyInfo(severity, contents) ==
    CASE contents \in {"absent", "empty"} -> "info"
      [] contents = "holds_data"          -> "critical"
      [] OTHER                            -> severity

ForceDestroySeverity(severity, contents) ==
    CASE contents \in {"absent", "empty"} -> "low"
      [] contents = "holds_data"          -> "critical"
      [] OTHER                            -> severity

SkipSnapshotSeverity(severity, type, contents) ==
    CASE type \in DatabaseTypes /\ contents = "absent"                    -> "low"
      [] type \in DatabaseTypes /\ contents \in {"exists", "holds_data"} -> "high"
      [] OTHER                                                           -> severity

\* Only a bucket's absence proves there is nothing to lose: other names are
\* looked up in one account and region.
HoldsNothing(type, contents) ==
    contents = "empty" \/ (contents = "absent" /\ type = "aws_s3_bucket")

DestructionSeverity(severity, type, contents) ==
    IF type \notin ObservableTypes THEN severity
    ELSE CASE contents = "holds_data"        -> "critical"
           [] HoldsNothing(type, contents)   -> "low"
           [] OTHER                          -> severity

CloudAdjustedRules ==
    {"s3_force_destroy", "skip_final_snapshot", "force_new_change", "confirmed_replace"}

\* adjust_severity_against_the_cloud: `seen' maps a named risk to the answer
\* about its resource; each finding is looked up on its own.
RatedSeverity(f, seen) ==
    LET r == f.risk
    IN  IF ~r.named \/ r.rule \notin CloudAdjustedRules THEN f.severity
        ELSE CASE r.rule = "s3_force_destroy" -> ForceDestroySeverity(f.severity, seen[r])
               [] r.rule = "skip_final_snapshot" ->
                      SkipSnapshotSeverity(f.severity, r.type, seen[r])
               [] OTHER -> DestructionSeverity(f.severity, r.type, seen[r])

AdjustSeverity(F, seen) == {[f EXCEPT !.severity = RatedSeverity(f, seen)] : f \in F}
=============================================================================
