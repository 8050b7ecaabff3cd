----------------------------- MODULE ScanProofs -----------------------------
(***************************************************************************)
(* Theorems about Scan, for every repository, plan, configuration and      *)
(* command line.                                                           *)
(***************************************************************************)
EXTENDS Scan, TLAPS

(***************************************************************************)
(* The operators of the pipeline map findings to findings.                 *)
(***************************************************************************)

\* A rating, whatever the cloud answers, is a severity.
LEMMA RatedSeverityType ==
    ASSUME NEW f \in FindingsOf(Risks), NEW seen
    PROVE  RatedSeverity(f, seen) \in Severities
  <1>1. f.severity \in Severities
    BY DEF FindingsOf
  <1>2. ForceDestroySeverity(f.severity, seen[f.risk]) \in Severities
    BY <1>1 DEF ForceDestroySeverity, Severities
  <1>3. SkipSnapshotSeverity(f.severity, f.risk.type, seen[f.risk]) \in Severities
    BY <1>1 DEF SkipSnapshotSeverity, Severities
  <1>4. DestructionSeverity(f.severity, f.risk.type, seen[f.risk]) \in Severities
    BY <1>1 DEF DestructionSeverity, Severities
  <1> QED
    BY <1>1, <1>2, <1>3, <1>4 DEF RatedSeverity

\* The cloud ratings change nothing but severities.
LEMMA AdjustSeverityType ==
    ASSUME NEW F \in SUBSET FindingsOf(Risks), NEW seen
    PROVE  AdjustSeverity(F, seen) \subseteq FindingsOf(Risks)
  BY RatedSeverityType DEF AdjustSeverity, FindingsOf

\* What the rules raise starts as a finding nobody has accepted.
LEMMA FreshType ==
    ASSUME NEW R \in SUBSET Risks
    PROVE  {Fresh(r) : r \in R} \subseteq FindingsOf(Risks)
  <1> SUFFICES ASSUME NEW r \in R PROVE Fresh(r) \in FindingsOf(Risks)
    OBVIOUS
  <1>1. r \in Risks /\ r.severity \in Severities
    BY RisksAssumption DEF IsRisk
  <1> QED
    BY <1>1 DEF Fresh, FindingsOf

\* rules.run, run_plan_rules and the tail of collect_findings yield findings.
LEMMA CollectingType ==
    ASSUME NEW R \in SUBSET Risks, NEW cfg, NEW seen,
           NEW F \in SUBSET FindingsOf(Risks)
    PROVE  /\ Inspected(R, cfg, seen) \subseteq FindingsOf(Risks)
           /\ PlanFindings(R, cfg, seen) \subseteq FindingsOf(Risks)
           /\ Collected(F, R, cfg) \subseteq FindingsOf(Risks)
  <1>1. {Fresh(r) : r \in R} \subseteq FindingsOf(Risks)
    BY FreshType
  <1>2. AdjustSeverity({Fresh(r) : r \in R}, seen) \subseteq FindingsOf(Risks)
    BY <1>1, AdjustSeverityType
  <1>3. Inspected(R, cfg, seen) \subseteq FindingsOf(Risks)
    BY <1>2 DEF Inspected, DropIgnoredInline, DropIgnored, DropContradicted
  <1>4. DropIgnored({Fresh(r) : r \in R}, cfg.ignored) \subseteq FindingsOf(Risks)
    BY <1>1 DEF DropIgnored
  <1>5. PlanFindings(R, cfg, seen) \subseteq FindingsOf(Risks)
    BY <1>4, AdjustSeverityType DEF PlanFindings
  <1>6. DropExcludedPaths(F \cup DropIgnored({Fresh(r) : r \in R}, cfg.ignored),
                          cfg.excluded) \subseteq FindingsOf(Risks)
    BY <1>4 DEF DropExcludedPaths
  <1>7. ASSUME NEW G \in SUBSET FindingsOf(Risks)
        PROVE  MarkUnenforced(G, cfg.maturity, cfg.enforced) \subseteq FindingsOf(Risks)
    BY DEF MarkUnenforced, FindingsOf
  <1> QED
    BY <1>3, <1>5, <1>6, <1>7 DEF Collected

\* Accepting a finding leaves it a finding.
LEMMA WaiveType ==
    ASSUME NEW F \in SUBSET FindingsOf(Risks), NEW A
    PROVE  Waive(F, A) \subseteq FindingsOf(Risks)
  BY DEF Waive, FindingsOf

\* What is raised from the source, or read from the plan, are known risks.
LEMMA WorldType ==
    ASSUME tree \in Trees, plan \in Plans
    PROVE  /\ \A o : From(o, tree) \subseteq Risks
           /\ \A o, l : Raised(From(o, tree), l) \subseteq Risks
           /\ plan \subseteq Risks
  BY WorldAssumption DEF From, Raised

\* A plan only removes findings of the source and adds its own.
LEMMA MergePlanType ==
    ASSUME NEW F \in SUBSET FindingsOf(Risks), NEW P \in SUBSET FindingsOf(Risks)
    PROVE  MergePlan(F, P) \subseteq FindingsOf(Risks)
  BY DEF MergePlan, DropSuperseded

-----------------------------------------------------------------------------
(***************************************************************************)
(* Type correctness.                                                       *)
(***************************************************************************)

\* A repository nobody has scanned yet is well typed.
LEMMA TypeInit == Init => TypeOK
  <1> SUFFICES ASSUME Init PROVE TypeOK
    OBVIOUS
  <1>1. baseline.state \in {"absent", "v1", "v2", "torn"}
    BY DEF Init, NoBaseline
  <1>2. reports \in [Channels -> SUBSET FindingsOf(Risks)]
    BY DEF Init, NoReports
  <1>3. /\ tree \in Trees /\ plan \in Plans /\ config \in Configs
        /\ job = {} /\ exit = "unended" /\ recorded = "nothing"
        /\ extended = FALSE /\ blocked = FALSE
        /\ written = {} /\ scanned = {} /\ findings = {} /\ waivers = {} /\ delivered = {}
    BY DEF Init, Unended
  <1> QED
    BY <1>1, <1>2, <1>3 DEF TypeOK, Unended

\* The steps of execute_scan, one by one.
LEMMA TypeStep ==
    ASSUME TypeOK, Step
    PROVE  TypeOK'
  <1> USE DEF End, Goto, world, file, local, outer, Ok, Blocked, Error, Traceback, Killed,
              Unended
  <1>1. CASE Configure
    BY <1>1 DEF Configure, TypeOK
  <1>2. CASE Collect
    <2>1. scanned' \subseteq Risks
      BY <1>2, WorldType DEF Collect, TypeOK
    <2> QED
      BY <1>2, <2>1 DEF Collect, TypeOK
  <1>3. CASE Coverage
    <2>1. extended' \in BOOLEAN
      BY <1>3 DEF Coverage, TypeOK
    <2> QED
      BY <1>3, <2>1 DEF Coverage, TypeOK
  <1>4. CASE LoadRules
    BY <1>4 DEF LoadRules, TypeOK
  <1>5. CASE Inspect
    <2>1. Raised(scanned, extended) \in SUBSET Risks
      BY DEF TypeOK, Raised
    <2>2. findings' \subseteq FindingsOf(Risks)
      BY <1>5, <2>1, CollectingType DEF Inspect
    <2> QED
      BY <1>5, <2>2 DEF Inspect, TypeOK
  <1>6. CASE ReadPlan
    <2>1. findings' \subseteq FindingsOf(Risks)
      <3>1. plan \in SUBSET Risks /\ findings \in SUBSET FindingsOf(Risks)
        BY WorldType DEF TypeOK
      <3>2. CASE UNCHANGED findings
        BY <3>1, <3>2
      <3>3. ASSUME NEW seen, findings' = MergePlan(findings, PlanFindings(plan, config, seen))
            PROVE  findings' \subseteq FindingsOf(Risks)
        <4>1. PlanFindings(plan, config, seen) \in SUBSET FindingsOf(Risks)
          BY <3>1, CollectingType
        <4> QED
          BY <3>1, <3>3, <4>1, MergePlanType
      <3> QED
        BY <1>6, <3>2, <3>3 DEF ReadPlan
    <2> QED
      BY <1>6, <2>1 DEF ReadPlan, TypeOK
  <1>7. CASE Variables
    <2>1. findings' \subseteq FindingsOf(Risks)
      BY <1>7, WorldType, CollectingType DEF Variables, TypeOK
    <2>2. scanned' \subseteq Risks
      BY <1>7, WorldType DEF Variables, TypeOK
    <2> QED
      BY <1>7, <2>1, <2>2 DEF Variables, TypeOK
  <1>8. CASE WriteBaseline
    <2>1. {f.risk : f \in findings} \subseteq Risks
      BY DEF TypeOK, FindingsOf
    <2> QED
      BY <1>8, <2>1 DEF WriteBaseline, TypeOK, Torn
  <1>9. CASE ApplyBaseline
    <2>1. findings' \subseteq FindingsOf(Risks)
      BY <1>9, WaiveType DEF ApplyBaseline, TypeOK
    <2> QED
      BY <1>9, <2>1 DEF ApplyBaseline, TypeOK
  <1>10. CASE FetchWaivers
    <2>1. findings' \subseteq FindingsOf(Risks)
      BY <1>10, WaiveType DEF FetchWaivers, TypeOK
    <2> QED
      BY <1>10, <2>1 DEF FetchWaivers, TypeOK
  <1>11. CASE Decide
    <2>1. blocked' \in BOOLEAN
      BY <1>11 DEF Decide, Blocks
    <2> QED
      BY <1>11, <2>1 DEF Decide, TypeOK
  <1>12. CASE ReportUsage
    BY <1>12 DEF ReportUsage, TypeOK
  <1>13. CASE Autofix
    <2>1. tree' \in Trees
      BY <1>13 DEF Autofix, Corrected, TypeOK
    <2> QED
      BY <1>13, <2>1 DEF Autofix, TypeOK
  <1>14. ASSUME NEW c \in Channels, Deliver(c) \/ UNCHANGED outer,
                UNCHANGED <<world, file, local>>,
                exit' \in {Ok, Blocked, Error, Traceback, Killed, Unended}
         PROVE  TypeOK'
    <2>1. Rendered(c, findings) \subseteq FindingsOf(Risks)
      BY DEF Rendered, TypeOK
    <2>2. /\ reports' \in [Channels -> SUBSET FindingsOf(Risks)]
          /\ delivered' \subseteq Channels
          /\ recorded' = recorded
      BY <1>14, <2>1 DEF Deliver, TypeOK
    <2> QED
      BY <1>14, <2>2 DEF TypeOK
  <1>15. CASE PrintReport
    BY <1>14, <1>15 DEF PrintReport, Channels, TypeOK
  <1>16. CASE Publish("comment", AfterComment)
    BY <1>14, <1>16 DEF Publish, Channels, TypeOK
  <1>17. CASE Publish("sarif", AfterSarif)
    BY <1>14, <1>17 DEF Publish, Channels, TypeOK
  <1>18. CASE Publish("codequality", "done")
    BY <1>14, <1>18 DEF Publish, Channels, TypeOK
  <1>19. CASE Conclude
    BY <1>19 DEF Conclude, TypeOK
  <1> QED
    BY <1>1, <1>2, <1>3, <1>4, <1>5, <1>6, <1>7, <1>8, <1>9, <1>10, <1>11, <1>12, <1>13,
       <1>15, <1>16, <1>17, <1>18, <1>19 DEF Step

\* Every step, those of the user and of chance included.
LEMMA TypeNext ==
    ASSUME TypeOK, [Next]_vars
    PROVE  TypeOK'
  <1> USE DEF world, file, local, outer
  <1>1. CASE \E j \in Jobs : StartScan(j)
    BY <1>1 DEF StartScan, Goto, TypeOK
  <1>2. CASE Step
    BY <1>2, TypeStep
  <1>3. CASE Kill
    BY <1>3 DEF Kill, End, Killed, Torn, TypeOK
  <1>4. CASE Return
    BY <1>4 DEF Return, NoReports, Unended, TypeOK
  <1>5. CASE Between
    BY <1>5 DEF Between, EditSource, NewPlan, Reconfigure, DropBaseline, NoBaseline, TypeOK
  <1>6. CASE UNCHANGED vars
    BY <1>6 DEF vars, TypeOK
  <1> QED
    BY <1>1, <1>2, <1>3, <1>4, <1>5, <1>6 DEF Next

(***************************************************************************)
(* The pipeline keeps its types, however scans, edits, failures and kills  *)
(* follow one another.                                                     *)
(***************************************************************************)
THEOREM TypeCorrect == Spec => []TypeOK
  BY TypeInit, TypeNext, PTL DEF Spec

-----------------------------------------------------------------------------
(***************************************************************************)
(* The inductive invariant behind the other theorems.  It says, step by    *)
(* step, what the marks on the findings mean, that the verdict is taken    *)
(* from findings that do not change afterwards, and that a scan which got  *)
(* past the printing can end in one way only.                              *)
(***************************************************************************)

Publishing == {"comment", "sarif", "codequality", "done"}   \* the report is out
Decided    == {"usage", "autofix", "print"} \cup Publishing \* the verdict is taken
Accepting  == {"baseline", "waivers", "decide"}             \* no baseline is written

Verdict ==
    /\ pc \in Decided \/ delivered # {} => blocked = Blocks(findings, config.threshold)
    /\ pc \in Publishing => "stdout" \in delivered
    /\ delivered # {} => "stdout" \in delivered /\ pc \in Publishing \cup {"ended"}
    /\ \A c \in delivered : reports[c] = Rendered(c, findings)
    /\ pc \in Accepting \cup Decided \/ delivered # {} => "write_baseline" \notin job
    /\ pc = "write" => "write_baseline" \in job

Ending ==
    /\ pc # "ended" => exit = Unended
    /\ exit \in {Ok, Blocked} /\ "write_baseline" \notin job =>
           /\ "stdout" \in delivered
           /\ exit = IF blocked THEN Blocked ELSE Ok
    /\ exit = Blocked => "write_baseline" \notin job
    /\ exit \in {Error, Traceback} => delivered = {}

\* What the usage service was told is what was decided.
Ledger ==
    recorded # "nothing" =>
        /\ pc \in Decided \cup {"ended"}
        /\ recorded = IF blocked THEN "blocked" ELSE "passed"
        /\ "write_baseline" \notin job

\* A finding is advisory for its rule alone, and waived for these reasons alone.
Advised(f) == ~MayBlock(f.risk.rule, config.maturity, config.enforced)
Known(f)   == "baseline" \in job /\ BaselineAccepts(baseline, f.risk)

Marks ==
    /\ pc \in {"plan", "variables"} => \A f \in findings : ~f.advisory /\ ~f.waived
    /\ pc \in Accepting \cup Decided \/ delivered # {} =>
           \A f \in findings : f.advisory <=> Advised(f)
    /\ pc = "baseline" => \A f \in findings : ~f.waived
    /\ pc = "baseline" => "baseline" \in job
    /\ pc = "waivers" => \A f \in findings : f.waived <=> Known(f)
    /\ pc \in {"decide"} \cup Decided \/ delivered # {} =>
           \A f \in findings : f.waived <=> Known(f) \/ LegacyKey(f.risk) \in waivers

\* A version 2 baseline holds the keys of what was written and nothing else.
Faithful == baseline.state = "v2" => baseline.entries = {Key(w) : w \in written}

Inv == TypeOK /\ Verdict /\ Ending /\ Ledger /\ Marks /\ Faithful

\* Before the first scan nothing is marked, decided, recorded or shown.
LEMMA InvInit == Init => Inv
  <1> SUFFICES ASSUME Init PROVE Inv
    OBVIOUS
  <1>1. pc = "idle" /\ exit = Unended /\ delivered = {} /\ recorded = "nothing"
    BY DEF Init
  <1>2. Verdict /\ Ending /\ Ledger /\ Marks
    BY <1>1 DEF Verdict, Ending, Ledger, Marks, Publishing, Decided, Accepting, Unended, Ok,
                Blocked, Error
  <1>3. Faithful
    BY DEF Init, Faithful, NoBaseline
  <1> QED
    BY <1>2, <1>3, TypeInit DEF Inv

(***************************************************************************)
(* What the operators of the pipeline do to the marks.                     *)
(***************************************************************************)
Unmarked(F) == \A f \in F : ~f.advisory /\ ~f.waived

\* Nothing the rules or the plan raise is marked when it is raised.
LEMMA RaisedUnmarked ==
    ASSUME NEW R, NEW cfg, NEW seen
    PROVE  /\ Unmarked(Inspected(R, cfg, seen))
           /\ Unmarked(PlanFindings(R, cfg, seen))
  <1>1. \A r : Fresh(r) = [risk |-> r, severity |-> r.severity,
                           waived |-> FALSE, advisory |-> FALSE]
    BY DEF Fresh
  <1>2. ASSUME NEW F, F \subseteq {Fresh(r) : r \in R}
        PROVE  Unmarked(AdjustSeverity(F, seen))
    BY <1>1, <1>2 DEF Unmarked, AdjustSeverity
  <1>3. Unmarked(Inspected(R, cfg, seen))
    BY <1>2 DEF Inspected, DropIgnoredInline, DropIgnored, DropContradicted, Unmarked
  <1>4. Unmarked(PlanFindings(R, cfg, seen))
    BY <1>2 DEF PlanFindings, DropIgnored
  <1> QED
    BY <1>3, <1>4

\* Once collected, a finding is advisory exactly for its rule, and not waived.
LEMMA CollectedMarks ==
    ASSUME NEW F \in SUBSET FindingsOf(Risks), Unmarked(F),
           NEW R \in SUBSET Risks, NEW cfg,
           NEW g \in Collected(F, R, cfg)
    PROVE  /\ ~g.waived
           /\ g.advisory <=> ~MayBlock(g.risk.rule, cfg.maturity, cfg.enforced)
  <1> DEFINE G == DropExcludedPaths(F \cup DropIgnored({Fresh(r) : r \in R}, cfg.ignored),
                                    cfg.excluded)
  <1>1. G \subseteq FindingsOf(Risks)
    BY FreshType DEF DropExcludedPaths, DropIgnored
  <1>2. Unmarked(G)
    BY DEF Unmarked, DropExcludedPaths, DropIgnored, Fresh
  <1>3. PICK f \in G : g = IF MayBlock(f.risk.rule, cfg.maturity, cfg.enforced)
                           THEN f ELSE [f EXCEPT !.advisory = TRUE]
    BY DEF Collected, MarkUnenforced
  <1>4. f \in FindingsOf(Risks) /\ ~f.advisory /\ ~f.waived
    BY <1>1, <1>2 DEF Unmarked
  <1>5. CASE MayBlock(f.risk.rule, cfg.maturity, cfg.enforced)
    BY <1>3, <1>4, <1>5
  <1>6. CASE ~MayBlock(f.risk.rule, cfg.maturity, cfg.enforced)
    <2>1. g.risk = f.risk /\ g.advisory /\ ~g.waived
      BY <1>3, <1>4, <1>6 DEF FindingsOf
    <2> QED
      BY <1>6, <2>1
  <1> QED
    BY <1>5, <1>6

\* Accepting adds the accepted to the waived and touches nothing else.
LEMMA WaiveMarks ==
    ASSUME NEW F \in SUBSET FindingsOf(Risks), NEW A, NEW g \in Waive(F, A)
    PROVE  \E f \in F : /\ g.risk = f.risk
                        /\ g.advisory <=> f.advisory
                        /\ g.waived <=> f.waived \/ f.risk \in A
  <1>1. PICK f \in F : g = IF f.risk \in A THEN [f EXCEPT !.waived = TRUE] ELSE f
    BY DEF Waive
  <1>2. CASE f.risk \in A
    <2>1. g.risk = f.risk /\ g.waived /\ g.advisory = f.advisory
      BY <1>1, <1>2 DEF FindingsOf
    <2> QED
      BY <1>2, <2>1
  <1>3. CASE f.risk \notin A
    BY <1>1, <1>3
  <1> QED
    BY <1>2, <1>3

(***************************************************************************)
(* The steps that come before the verdict leave the part of the invariant  *)
(* about what follows it vacuous.                                          *)
(***************************************************************************)
Early == {"configure", "collect", "coverage", "rules", "inspect", "plan", "variables",
          "write", "baseline", "waivers", "decide"}

\* A scan that has collected writes a baseline, applies one, or goes on.
LEMMA AfterCollectingRange == AfterCollecting \in {"write", "baseline", "waivers"}
  BY DEF AfterCollecting

\* A scan that has not decided has shown and recorded nothing.
LEMMA EarlyQuiet ==
    ASSUME Verdict, Ledger, pc \in Early
    PROVE  delivered = {} /\ recorded = "nothing"
  BY DEF Verdict, Ledger, Early, Decided, Publishing

\* The findings stand still between the verdict and the last report: each
\* channel is given the list the verdict was taken from.
LEMMA VerdictStep ==
    ASSUME Inv, Step
    PROVE  Verdict'
  <1> USE DEF Inv, End, Goto, world, file, local, outer
  <1>1. CASE Configure \/ Collect \/ Coverage \/ LoadRules \/ Inspect \/ ReadPlan
    <2>1. /\ pc' \in {"collect", "coverage", "rules", "inspect", "plan", "variables", "ended"}
          /\ delivered' = {}
      BY <1>1, EarlyQuiet DEF Configure, Collect, Coverage, LoadRules, Inspect, ReadPlan,
                              Early
    <2> QED
      BY <2>1 DEF Verdict, Decided, Publishing, Accepting
  <1>2. CASE Variables
    <2>1. /\ pc' \in {"write", "baseline", "waivers", "ended"}
          /\ pc' \in {"baseline", "waivers"} => "write_baseline" \notin job'
          /\ pc' = "write" => "write_baseline" \in job'
          /\ delivered' = {}
      <3>1. delivered' = {} /\ job' = job
        BY <1>2, EarlyQuiet DEF Variables, Early
      <3>2. CASE pc' = "ended"
        BY <3>1, <3>2
      <3>3. CASE pc' = AfterCollecting
        BY <3>1, <3>3 DEF AfterCollecting
      <3> QED
        BY <1>2, <3>2, <3>3 DEF Variables
    <2> QED
      BY <2>1 DEF Verdict, Decided, Publishing, Accepting
  <1>3. CASE WriteBaseline
    <2>1. pc' = "ended" /\ delivered' = {}
      BY <1>3, EarlyQuiet DEF WriteBaseline, Early
    <2> QED
      BY <2>1 DEF Verdict, Decided, Publishing, Accepting
  <1>4. CASE ApplyBaseline \/ FetchWaivers
    <2>1. /\ pc' \in {"waivers", "decide", "ended"}
          /\ delivered' = {} /\ "write_baseline" \notin job'
      BY <1>4, EarlyQuiet DEF ApplyBaseline, FetchWaivers, Early, Verdict, Accepting
    <2> QED
      BY <2>1 DEF Verdict, Decided, Publishing, Accepting
  <1>5. CASE Decide
    <2>1. /\ pc' = "usage" /\ delivered' = {} /\ "write_baseline" \notin job'
          /\ blocked' = Blocks(findings', config'.threshold)
      BY <1>5, EarlyQuiet DEF Decide, Early, Verdict, Accepting
    <2> QED
      BY <2>1 DEF Verdict, Decided, Publishing, Accepting
  <1>6. CASE ReportUsage \/ Autofix
    <2>1. /\ pc' \in {"autofix", "print", "ended"}
          /\ delivered' = {} /\ "write_baseline" \notin job'
          /\ blocked' = Blocks(findings', config'.threshold)
      BY <1>6 DEF ReportUsage, Autofix, Verdict, Decided, Publishing
    <2> QED
      BY <2>1 DEF Verdict, Decided, Publishing, Accepting
  <1>7. ASSUME NEW c \in Channels, Deliver(c) \/ UNCHANGED outer,
               UNCHANGED <<world, file, local>>,
               (c = "stdout" /\ Deliver(c)) \/ "stdout" \in delivered,
               pc \in Decided, pc' \in Publishing
        PROVE  Verdict'
    <2>1. /\ blocked' = Blocks(findings', config'.threshold)
          /\ "write_baseline" \notin job'
      BY <1>7 DEF Verdict
    <2>2. "stdout" \in delivered'
      BY <1>7 DEF Deliver
    <2>3. ASSUME NEW d \in delivered'
          PROVE  reports'[d] = Rendered(d, findings')
      <3>1. findings' = findings
        BY <1>7
      <3>2. CASE UNCHANGED outer
        BY <1>7, <2>3, <3>1, <3>2 DEF Verdict
      <3>3. CASE Deliver(c) /\ d = c
        BY <3>1, <3>3 DEF Deliver, TypeOK
      <3>4. CASE Deliver(c) /\ d # c
        BY <2>3, <3>1, <3>4 DEF Deliver, TypeOK, Verdict
      <3> QED
        BY <1>7, <3>2, <3>3, <3>4
    <2>4. pc' \notin {"ended", "write"} /\ pc' \in Publishing
      BY <1>7 DEF Publishing
    <2> QED
      BY <2>1, <2>2, <2>3, <2>4 DEF Verdict
  <1>8. CASE PrintReport
    <2>1. pc' \in Publishing /\ pc \in Decided
      BY <1>8 DEF PrintReport, AfterPrint, AfterComment, AfterSarif, Publishing, Decided
    <2> QED
      BY <1>7, <1>8, <2>1 DEF PrintReport, Channels
  <1>9. CASE \/ Publish("comment", AfterComment) \/ Publish("sarif", AfterSarif)
             \/ Publish("codequality", "done")
    <2>1. pc \in Publishing /\ pc \in Decided /\ "stdout" \in delivered
      BY <1>9 DEF Publish, Publishing, Decided, Verdict
    <2>2. AfterComment \in Publishing /\ AfterSarif \in Publishing /\ "done" \in Publishing
      BY DEF AfterComment, AfterSarif, Publishing
    <2>3. PICK c \in Channels : \E n \in Publishing : Publish(c, n)
      BY <1>9, <2>2 DEF Channels
    <2> QED
      BY <1>7, <2>1, <2>3 DEF Publish
  <1>10. CASE Conclude
    BY <1>10 DEF Conclude, Verdict, Decided, Publishing, Accepting
  <1> QED
    BY <1>1, <1>2, <1>3, <1>4, <1>5, <1>6, <1>8, <1>9, <1>10 DEF Step

\* A step that ends the scan ends it with the verdict, or before any report.
LEMMA EndingStep ==
    ASSUME Inv, Step
    PROVE  Ending'
  <1> USE DEF Inv, End, Goto, world, file, local, outer, Ok, Blocked, Error, Traceback,
              Unended
  <1>1. CASE pc' # "ended"
    <2>1. exit = Unended /\ exit' = exit
      BY <1>1 DEF Ending, Step, Configure, Collect, Coverage, LoadRules, Inspect, ReadPlan,
           Variables, WriteBaseline, ApplyBaseline, FetchWaivers, Decide, ReportUsage,
           Autofix, PrintReport, Publish, Conclude
    <2> QED
      BY <1>1, <2>1 DEF Ending
  <1>2. CASE /\ pc' = "ended"
             /\ \/ Configure \/ Collect \/ Coverage \/ LoadRules \/ ReadPlan \/ Variables
                \/ WriteBaseline \/ ApplyBaseline \/ Autofix
    <2>1. delivered' = {}
      BY <1>2, EarlyQuiet DEF Configure, Collect, Coverage, LoadRules, ReadPlan, Variables,
                  WriteBaseline, ApplyBaseline, Autofix, Early, Verdict, Publishing
    <2>2. CASE WriteBaseline
      <3>1. "write_baseline" \in job'
        BY <2>2 DEF WriteBaseline, Verdict
      <3> QED
        BY <1>2, <2>1, <2>2, <3>1 DEF Ending, WriteBaseline
    <2>3. CASE ~WriteBaseline
      <3>1. exit' \in {Error, Traceback}
        BY <1>2, <2>3, AfterCollectingRange DEF Configure, Collect, Coverage, LoadRules, ReadPlan,
                  Variables, ApplyBaseline, Autofix
      <3> QED
        BY <1>2, <2>1, <3>1 DEF Ending
    <2> QED
      BY <2>2, <2>3
  <1>3. CASE Conclude
    <2>1. /\ "stdout" \in delivered' /\ "write_baseline" \notin job' /\ pc' = "ended"
          /\ exit' = IF blocked' THEN Blocked ELSE Ok
      BY <1>3 DEF Conclude, Verdict, Publishing
    <2> QED
      BY <2>1 DEF Ending
  <1>4. CASE /\ pc' = "ended"
             /\ \/ Inspect \/ FetchWaivers \/ Decide \/ ReportUsage
                \/ PrintReport \/ Publish("comment", AfterComment)
                \/ Publish("sarif", AfterSarif) \/ Publish("codequality", "done")
    BY <1>4 DEF Inspect, FetchWaivers, Decide, ReportUsage, PrintReport, Publish,
                AfterPrint, AfterComment, AfterSarif
  <1> QED
    BY <1>1, <1>2, <1>3, <1>4 DEF Step

\* The usage service is told the verdict, and no later step changes it.
LEMMA LedgerStep ==
    ASSUME Inv, Step
    PROVE  Ledger'
  <1> USE DEF Inv, End, Goto, world, file, local, outer
  <1>1. CASE pc \in Early
    <2>1. recorded' = "nothing"
      BY <1>1, EarlyQuiet DEF Step, Early, Configure, Collect, Coverage, LoadRules, Inspect,
           ReadPlan, Variables, WriteBaseline, ApplyBaseline, FetchWaivers, Decide,
           ReportUsage, Autofix, PrintReport, Publish, Conclude
    <2> QED
      BY <2>1 DEF Ledger
  <1>2. CASE ReportUsage
    <2>1. /\ recorded' \in {"nothing", IF blocked THEN "blocked" ELSE "passed"}
          /\ blocked' = blocked /\ job' = job /\ pc' \in Decided
          /\ "write_baseline" \notin job
      BY <1>2 DEF ReportUsage, Decided, Verdict
    <2> QED
      BY <2>1 DEF Ledger
  <1>3. CASE Autofix \/ PrintReport \/ Publish("comment", AfterComment)
             \/ Publish("sarif", AfterSarif) \/ Publish("codequality", "done") \/ Conclude
    <2>1. /\ UNCHANGED <<recorded, blocked, job>>
          /\ pc' \in Decided \cup {"ended"}
      BY <1>3 DEF Autofix, PrintReport, Publish, Conclude, Deliver, AfterPrint, AfterComment,
                  AfterSarif, Decided, Publishing
    <2> QED
      BY <2>1 DEF Ledger
  <1>4. pc \in Early \/ ReportUsage \/ Autofix \/ PrintReport \/ Conclude
        \/ Publish("comment", AfterComment) \/ Publish("sarif", AfterSarif)
        \/ Publish("codequality", "done")
    BY DEF Step, Early, Configure, Collect, Coverage, LoadRules, Inspect, ReadPlan, Variables,
           WriteBaseline, ApplyBaseline, FetchWaivers, Decide
  <1> QED
    BY <1>1, <1>2, <1>3, <1>4

\* Each mark on a finding goes on meaning what it says, up to the report.
LEMMA MarksStep ==
    ASSUME Inv, Step
    PROVE  Marks'
  <1> USE DEF Inv, End, Goto, world, file, local, outer
  <1>1. CASE Configure \/ Collect \/ Coverage \/ LoadRules
    <2>1. /\ pc' \in {"collect", "coverage", "rules", "inspect", "ended"}
          /\ delivered' = {}
      BY <1>1, EarlyQuiet DEF Configure, Collect, Coverage, LoadRules, Early
    <2> QED
      BY <2>1 DEF Marks, Decided, Publishing, Accepting
  <1>2. CASE Inspect
    <2>1. /\ pc' \in {"plan", "variables"} /\ delivered' = {}
          /\ Unmarked(findings')
      BY <1>2, EarlyQuiet, RaisedUnmarked DEF Inspect, Early
    <2> QED
      BY <2>1 DEF Marks, Decided, Publishing, Accepting, Unmarked
  <1>3. CASE ReadPlan
    <2>1. pc' \in {"variables", "ended"} /\ delivered' = {}
      BY <1>3, EarlyQuiet DEF ReadPlan, Early
    <2>2. Unmarked(findings)
      BY <1>3 DEF ReadPlan, Marks, Unmarked
    <2>3. Unmarked(findings')
      BY <1>3, <2>2, RaisedUnmarked DEF ReadPlan, MergePlan, DropSuperseded, Unmarked
    <2> QED
      BY <2>1, <2>3 DEF Marks, Decided, Publishing, Accepting, Unmarked
  <1>4. CASE Variables
    <2>1. delivered' = {} /\ UNCHANGED <<job, config, baseline>>
      BY <1>4, EarlyQuiet DEF Variables, Early
    <2>2. CASE pc' = "ended"
      BY <2>1, <2>2 DEF Marks, Decided, Publishing, Accepting
    <2>3. CASE pc' = AfterCollecting
      <3>1. pc' # "ended"
        BY <2>3 DEF AfterCollecting
      <3>2. findings' = Collected(findings, Raised(From("variables", tree), extended), config)
        BY <1>4, <3>1 DEF Variables
      <3>3. Unmarked(findings) /\ findings \in SUBSET FindingsOf(Risks)
        BY <1>4 DEF Variables, Marks, Unmarked, TypeOK
      <3>4. Raised(From("variables", tree), extended) \in SUBSET Risks
        BY WorldType DEF TypeOK
      <3>5. \A f \in findings' : ~f.waived /\ (f.advisory <=> Advised(f))
        BY <3>2, <3>3, <3>4, CollectedMarks DEF Advised
      <3>6. /\ pc' \in {"write", "baseline", "waivers"}
            /\ pc' = "baseline" => "baseline" \in job
            /\ pc' = "waivers" => "baseline" \notin job
        BY <2>3 DEF AfterCollecting
      <3>7. \A f \in findings' : ~f.waived /\ (f.advisory <=> Advised(f)')
        BY <2>1, <3>5 DEF Advised
      <3> QED
        BY <2>1, <3>6, <3>7 DEF Marks, Known, Decided, Publishing, Accepting
    <2> QED
      BY <1>4, <2>2, <2>3 DEF Variables
  <1>5. CASE WriteBaseline
    <2>1. pc' = "ended" /\ delivered' = {}
      BY <1>5, EarlyQuiet DEF WriteBaseline, Early
    <2> QED
      BY <2>1 DEF Marks, Decided, Publishing, Accepting
  <1>6. CASE ApplyBaseline
    <2>1. delivered' = {} /\ UNCHANGED <<job, config, baseline>>
      BY <1>6, EarlyQuiet DEF ApplyBaseline, Early
    <2>2. CASE pc' = "ended"
      BY <2>1, <2>2 DEF Marks, Decided, Publishing, Accepting
    <2>3. CASE pc' # "ended"
      <3> DEFINE A == {r \in Risks : BaselineAccepts(baseline, r)}
      <3>1. pc' = "waivers" /\ findings' = Waive(findings, A)
        BY <1>6, <2>3 DEF ApplyBaseline
      <3>2. /\ findings \in SUBSET FindingsOf(Risks) /\ "baseline" \in job
            /\ \A f \in findings : ~f.waived /\ (f.advisory <=> Advised(f)) /\ f.risk \in Risks
        BY <1>6 DEF ApplyBaseline, Marks, Accepting, TypeOK, FindingsOf
      <3>3. ASSUME NEW g \in findings'
            PROVE  (g.advisory <=> Advised(g)') /\ (g.waived <=> Known(g)')
        <4>1. PICK f \in findings : /\ g.risk = f.risk
                                    /\ g.advisory <=> f.advisory
                                    /\ g.waived <=> f.waived \/ f.risk \in A
          BY <3>1, <3>2, <3>3, WaiveMarks
        <4> QED
          BY <2>1, <3>2, <4>1 DEF Advised, Known
      <3> QED
        BY <2>1, <3>1, <3>3 DEF Marks, Decided, Publishing, Accepting
    <2> QED
      BY <2>2, <2>3
  <1>7. CASE FetchWaivers
    <2> DEFINE A == {r \in Risks : LegacyKey(r) \in waivers'}
    <2>1. /\ delivered' = {} /\ UNCHANGED <<job, config, baseline>>
          /\ pc' = "decide" /\ findings' = Waive(findings, A)
      BY <1>7, EarlyQuiet DEF FetchWaivers, Early
    <2>2. /\ findings \in SUBSET FindingsOf(Risks)
          /\ \A f \in findings : /\ f.waived <=> Known(f)
                                 /\ f.advisory <=> Advised(f)
                                 /\ f.risk \in Risks
      BY <1>7 DEF FetchWaivers, Marks, Accepting, TypeOK, FindingsOf
    <2>3. ASSUME NEW g \in findings'
          PROVE  /\ g.advisory <=> Advised(g)'
                 /\ g.waived <=> Known(g)' \/ LegacyKey(g.risk) \in waivers'
      <3>1. PICK f \in findings : /\ g.risk = f.risk
                                  /\ g.advisory <=> f.advisory
                                  /\ g.waived <=> f.waived \/ f.risk \in A
        BY <2>1, <2>2, <2>3, WaiveMarks
      <3> QED
        BY <2>1, <2>2, <3>1 DEF Advised, Known
    <2> QED
      BY <2>1, <2>3 DEF Marks, Decided, Publishing, Accepting
  <1>8. ASSUME UNCHANGED <<findings, waivers, job, config, baseline>>,
               pc \in {"decide"} \cup Decided, pc' \in Decided \cup {"ended"}
        PROVE  Marks'
    BY <1>8 DEF Marks, Advised, Known, Decided, Publishing, Accepting
  <1>9. CASE Decide \/ ReportUsage
    BY <1>8, <1>9 DEF Decide, ReportUsage, Decided
  <1>10. CASE Autofix \/ PrintReport \/ Conclude
    BY <1>8, <1>10 DEF Autofix, PrintReport, Conclude, AfterPrint, AfterComment, AfterSarif,
                       Decided, Publishing
  <1>11. CASE Publish("comment", AfterComment) \/ Publish("sarif", AfterSarif)
              \/ Publish("codequality", "done")
    BY <1>8, <1>11 DEF Publish, AfterComment, AfterSarif, Decided, Publishing
  <1> QED
    BY <1>1, <1>2, <1>3, <1>4, <1>5, <1>6, <1>7, <1>9, <1>10, <1>11 DEF Step

\* Only the scan that records a baseline decides what is in it.
LEMMA FaithfulStep ==
    ASSUME Inv, Step
    PROVE  Faithful'
  <1> USE DEF Inv, file
  <1>1. CASE WriteBaseline
    <2>1. {Key(f.risk) : f \in findings} = {Key(w) : w \in {f.risk : f \in findings}}
      OBVIOUS
    <2> QED
      BY <1>1, <2>1 DEF WriteBaseline, Faithful, Torn
  <1>2. CASE ~WriteBaseline
    <2>1. UNCHANGED <<baseline, written>>
      BY <1>2 DEF Step, Configure, Collect, Coverage, LoadRules, Inspect, ReadPlan, Variables,
           ApplyBaseline, FetchWaivers, Decide, ReportUsage, Autofix, PrintReport, Publish,
           Conclude
    <2> QED
      BY <2>1 DEF Faithful
  <1> QED
    BY <1>1, <1>2

\* Scans, crashes and what people do between scans keep the invariant.
LEMMA InvNext ==
    ASSUME Inv, [Next]_vars
    PROVE  Inv'
  <1> USE DEF world, file, local, outer
  <1>1. CASE Step
    BY <1>1, TypeStep, VerdictStep, EndingStep, LedgerStep, MarksStep, FaithfulStep DEF Inv
  <1>2. TypeOK'
    BY TypeNext DEF Inv
  <1> DEFINE Rest == Verdict /\ Ending /\ Ledger /\ Marks /\ Faithful
  <1> SUFFICES Rest'
    BY <1>2 DEF Inv
  <1> DEFINE Idle == delivered = {} /\ recorded = "nothing" /\ exit = Unended
  <1>3. ASSUME pc' \in {"idle", "configure"}, Idle', Faithful'
        PROVE  Rest'
    BY <1>3 DEF Verdict, Ending, Ledger, Marks, Decided, Publishing, Accepting, Unended, Ok,
                Blocked, Error
  <1>4. pc = "idle" => Idle
    BY DEF Inv, Verdict, Ending, Ledger, Decided, Publishing
  <1>5. CASE \E j \in Jobs : StartScan(j)
    <2>1. Idle' /\ Faithful'
      BY <1>4, <1>5 DEF StartScan, Goto, Faithful, Inv
    <2> QED
      BY <1>3, <1>5, <2>1 DEF StartScan, Goto
  <1>6. CASE Return
    <2>1. Idle' /\ Faithful'
      BY <1>6 DEF Return, Faithful, Inv
    <2> QED
      BY <1>3, <1>6, <2>1 DEF Return
  <1>7. CASE Between /\ pc = "idle"
    <2>1. Idle'
      BY <1>4, <1>7 DEF Between, EditSource, NewPlan, Reconfigure, DropBaseline
    <2>2. Faithful'
      BY <1>7 DEF Between, EditSource, NewPlan, Reconfigure, DropBaseline, NoBaseline, Faithful,
                  Inv
    <2> QED
      BY <1>3, <1>7, <2>1, <2>2 DEF Between, EditSource, NewPlan, Reconfigure, DropBaseline
  <1>8. CASE Between /\ pc # "idle"
    <2>1. UNCHANGED <<config, file, pc, local, exit, outer>>
      BY <1>8 DEF Between, EditSource, NewPlan, Reconfigure, DropBaseline
    <2>2. Verdict'
      BY <2>1 DEF Inv, Verdict
    <2>3. Ending' /\ Ledger' /\ Faithful'
      BY <2>1 DEF Inv, Ending, Ledger, Faithful
    <2>4. Marks'
      BY <2>1 DEF Inv, Marks, Advised, Known
    <2> QED
      BY <2>2, <2>3, <2>4
  <1>9. CASE Kill
    <2>1. /\ UNCHANGED <<config, local, outer>>
          /\ pc' = "ended" /\ exit' = Killed
      BY <1>9 DEF Kill, End
    <2>0. UNCHANGED file \/ (pc = "write" /\ baseline' = Torn)
      BY <1>9 DEF Kill
    <2>2. Faithful'
      BY <2>0 DEF Faithful, Torn, Inv
    <2>v. Verdict'
      BY <2>1 DEF Inv, Verdict, Decided, Publishing, Accepting
    <2>e. Ending'
      BY <2>1 DEF Inv, Ending, Killed, Ok, Blocked, Error, Traceback, Unended
    <2>l. Ledger'
      BY <2>1 DEF Inv, Ledger, Decided, Publishing
    <2>3. Verdict' /\ Ending' /\ Ledger'
      BY <2>v, <2>e, <2>l
    <2>4. ASSUME pc = "write" PROVE Marks'
      <3>1. delivered' = {}
        BY <2>1, <2>4, EarlyQuiet DEF Early, Inv
      <3> QED
        BY <2>1, <3>1 DEF Marks, Decided, Publishing, Accepting
    <2>5. ASSUME UNCHANGED file PROVE Marks'
      BY <2>1, <2>5 DEF Inv, Marks, Advised, Known, Decided, Publishing, Accepting
    <2> QED
      BY <2>0, <2>2, <2>3, <2>4, <2>5
  <1>10. CASE UNCHANGED vars
    <2>1. UNCHANGED <<config, file, pc, local, exit, outer>>
      BY <1>10 DEF vars
    <2>2. Verdict'
      BY <2>1 DEF Inv, Verdict
    <2>3. Ending' /\ Ledger' /\ Faithful'
      BY <2>1 DEF Inv, Ending, Ledger, Faithful
    <2>4. Marks'
      BY <2>1 DEF Inv, Marks, Advised, Known
    <2> QED
      BY <2>2, <2>3, <2>4
  <1> QED
    BY <1>1, <1>2, <1>5, <1>6, <1>7, <1>8, <1>9, <1>10 DEF Next, Inv

\* The invariant holds in every state of every sequence of scans.
THEOREM Invariance == Spec => []Inv
  BY InvInit, InvNext, PTL DEF Spec

-----------------------------------------------------------------------------
(* The properties the runs check follow from the invariant. *)

\* Of the printed findings, those that block are those nothing tolerates.
LEMMA BlockingMeaning ==
    ASSUME Inv, "stdout" \in delivered
    PROVE  /\ reports["stdout"] = findings
           /\ \A f \in findings :
                  (~f.waived /\ ~f.advisory /\ AtLeast(f.severity, config.threshold))
                      <=> ~Tolerated(f)
           /\ blocked <=> \E f \in findings : ~Tolerated(f)
  <1>1. reports["stdout"] = findings
    BY DEF Inv, Verdict, Rendered
  <1>2. \A f \in findings : /\ f.advisory <=> Advised(f)
                            /\ f.waived <=> Known(f) \/ LegacyKey(f.risk) \in waivers
    BY DEF Inv, Marks
  <1>3. \A f \in findings :
            (~f.waived /\ ~f.advisory /\ AtLeast(f.severity, config.threshold))
                <=> ~Tolerated(f)
    BY <1>2 DEF Tolerated, Advised, Known
  <1>4. blocked = Blocks(findings, config.threshold)
    BY DEF Inv, Verdict
  <1> QED
    BY <1>1, <1>3, <1>4 DEF Blocks

(***************************************************************************)
(* In every repository, and whatever the optional services do: a scan that *)
(* printed its report ends with 1 if it holds a finding that is not        *)
(* tolerated and with 0 if not; one that printed nothing ends with 2, or   *)
(* with the 1 of an exception that main does not catch.                    *)
(***************************************************************************)
THEOREM VerdictIsExact == Spec => []ExitIsVerdict
  <1>1. Inv => ExitIsVerdict
    <2> SUFFICES ASSUME Inv, exit \notin {Unended, Killed}, "write_baseline" \notin job
                 PROVE  IF "stdout" \in delivered
                        THEN ExitCode = IF \E f \in reports["stdout"] : ~Tolerated(f) THEN 1 ELSE 0
                        ELSE ExitCode = 2 \/ (ExitCode = 1 /\ exit = Traceback)
      BY DEF ExitIsVerdict
    <2>1. exit \in {Ok, Blocked, Error, Traceback}
      BY DEF Inv, TypeOK
    <2>2. CASE "stdout" \in delivered
      <3>1. exit = IF blocked THEN Blocked ELSE Ok
        BY <2>1, <2>2 DEF Inv, Ending
      <3>2. ExitCode = IF blocked THEN 1 ELSE 0
        BY <3>1 DEF ExitCode, Ok, Blocked, Error, Traceback
      <3>3. blocked <=> \E f \in reports["stdout"] : ~Tolerated(f)
        BY <2>2, BlockingMeaning
      <3> QED
        BY <2>2, <3>2, <3>3
    <2>3. CASE "stdout" \notin delivered
      <3>1. exit \in {Error, Traceback}
        BY <2>1, <2>3 DEF Inv, Ending
      <3>2. exit = Error => ExitCode = 2
        BY DEF ExitCode, Ok, Blocked, Error, Traceback
      <3>3. exit = Traceback => ExitCode = 1
        BY DEF ExitCode, Ok, Blocked, Error, Traceback
      <3> QED
        BY <2>3, <3>1, <3>2, <3>3
    <2> QED
      BY <2>2, <2>3
  <1> QED
    BY <1>1, Invariance, PTL

\* A blocked scan shows the finding that blocked it wherever a report arrived.
THEOREM CauseIsShown == Spec => []EveryChannelShowsTheCause
  <1>1. Inv => EveryChannelShowsTheCause
    <2> SUFFICES ASSUME Inv, exit = Blocked, NEW c \in delivered
                 PROVE  \E f \in reports[c] : ~Tolerated(f)
      BY DEF EveryChannelShowsTheCause
    <2>1. "stdout" \in delivered /\ blocked
      BY DEF Inv, Ending, Blocked, Ok
    <2>2. PICK f \in findings : ~Tolerated(f)
      BY <2>1, BlockingMeaning
    <2>3. ~f.waived
      BY <2>1, <2>2, BlockingMeaning
    <2>4. reports[c] = Rendered(c, findings)
      BY DEF Inv, Verdict
    <2> QED
      BY <2>2, <2>3, <2>4 DEF Rendered
  <1> QED
    BY <1>1, Invariance, PTL

\* A version 2 baseline waives exactly what agrees with something written.
THEOREM BaselineExactness == Spec => []BaselineIsExact
  <1>1. \A r, w : Key(r) = Key(w) <=> SameAcceptance(r, w)
    BY DEF Key, SameAcceptance
  <1>2. Inv => BaselineIsExact
    <2> SUFFICES ASSUME Inv, "stdout" \in delivered, "baseline" \in job,
                        baseline.state = "v2", NEW f \in reports["stdout"]
                 PROVE  f.waived <=> \/ \E w \in written : SameAcceptance(f.risk, w)
                                     \/ LegacyKey(f.risk) \in waivers
      BY DEF BaselineIsExact
    <2>1. f \in findings
      BY BlockingMeaning
    <2>2. f.waived <=> Known(f) \/ LegacyKey(f.risk) \in waivers
      BY <2>1 DEF Inv, Marks
    <2>3. baseline.entries = {Key(w) : w \in written}
      BY DEF Inv, Faithful
    <2>4. Known(f) <=> \E w \in written : Key(f.risk) = Key(w)
      BY <2>3 DEF Known, BaselineAccepts
    <2> QED
      BY <1>1, <2>2, <2>4
  <1> QED
    BY <1>2, Invariance, PTL

\* What the usage service recorded never contradicts the exit code.
THEOREM LedgerIsTrue == Spec => []RecordedIsVerdict
  <1>1. Inv => RecordedIsVerdict
    BY DEF Inv, Ledger, Ending, RecordedIsVerdict, Ok, Blocked
  <1> QED
    BY <1>1, Invariance, PTL

-----------------------------------------------------------------------------
(***************************************************************************)
(* Nothing is lost: each risk of what has been read is followed from the   *)
(* step that raises it to the report.                                      *)
(***************************************************************************)
Read == scanned \cup (IF "plan" \in job THEN plan ELSE {})

Reported(r, F) == \E f \in F : f.risk = r

Told(r) ==
    Reported(r, findings) \/ Excused(r) \/ Superseded(r) \/ Hidden(r, From(r.origin, scanned))

\* Until the variable files are read, all of the source is Terraform, and the
\* plan has yet to be told.
Trail ==
    /\ pc \in {"coverage", "rules", "inspect", "plan", "variables"} =>
           \A r \in scanned : r.origin = "terraform"
    /\ pc = "plan" => "plan" \in job /\ \A r \in scanned : Told(r)
    /\ pc \in {"variables", "write"} \cup Accepting \cup Decided \/ delivered # {} =>
           \A r \in Read : Told(r)

\* Rating, accepting and marking a finding leave its risk in the list.
LEMMA MarkingKeeps ==
    ASSUME NEW F \in SUBSET FindingsOf(Risks), NEW r, Reported(r, F), NEW A, NEW cfg
    PROVE  /\ \A seen : Reported(r, AdjustSeverity(F, seen))
           /\ Reported(r, Waive(F, A))
           /\ Reported(r, MarkUnenforced(F, cfg.maturity, cfg.enforced))
  <1>1. PICK f \in F : f.risk = r
    BY DEF Reported
  <1>2. /\ \A s : [f EXCEPT !.severity = s].risk = r
        /\ [f EXCEPT !.waived = TRUE].risk = r
        /\ [f EXCEPT !.advisory = TRUE].risk = r
    BY <1>1 DEF FindingsOf
  <1>3. ASSUME NEW seen PROVE Reported(r, AdjustSeverity(F, seen))
    <2>1. [f EXCEPT !.severity = RatedSeverity(f, seen)] \in AdjustSeverity(F, seen)
      BY DEF AdjustSeverity
    <2> QED
      BY <1>2, <2>1 DEF Reported
  <1>4. Reported(r, Waive(F, A))
    <2>1. (IF f.risk \in A THEN [f EXCEPT !.waived = TRUE] ELSE f) \in Waive(F, A)
      BY DEF Waive
    <2> QED
      BY <1>1, <1>2, <2>1 DEF Reported
  <1>5. Reported(r, MarkUnenforced(F, cfg.maturity, cfg.enforced))
    <2>1. (IF MayBlock(f.risk.rule, cfg.maturity, cfg.enforced)
           THEN f ELSE [f EXCEPT !.advisory = TRUE])
              \in MarkUnenforced(F, cfg.maturity, cfg.enforced)
      BY DEF MarkUnenforced
    <2> QED
      BY <1>1, <1>2, <2>1 DEF Reported
  <1> QED
    BY <1>3, <1>4, <1>5

\* What is raised starts in the list, under its own risk.
LEMMA FreshReported ==
    ASSUME NEW R \in SUBSET Risks, NEW r \in R
    PROVE  Reported(r, {Fresh(q) : q \in R})
  <1>1. Fresh(r).risk = r
    BY DEF Fresh
  <1> QED
    BY <1>1 DEF Reported

\* A risk of what was read is raised, unlicensed, or behind a broken file.
LEMMA RaisedOrHidden ==
    ASSUME NEW R \in SUBSET Risks, NEW r \in R, NEW licensed
    PROVE  r \in Raised(R, licensed) \/ (r.extended /\ ~licensed) \/ Hidden(r, R)
  BY DEF Raised, Unparsable, Hidden

\* rules.run reports what it does not leave out for a reason the user gave.
LEMMA InspectTells ==
    ASSUME NEW R \in SUBSET Risks, NEW r \in R, NEW cfg, NEW seen
    PROVE  \/ Reported(r, Inspected(R, cfg, seen))
           \/ r.category \in cfg.ignored \/ r.directive
           \/ r.rule \in SchemaDerivedRules /\ r.file \in cfg.contradicted
  <1>1. Reported(r, AdjustSeverity({Fresh(q) : q \in R}, seen))
    BY FreshType, FreshReported, MarkingKeeps
  <1> QED
    BY <1>1 DEF Inspected, DropIgnoredInline, DropIgnored, DropContradicted, Reported

\* run_plan_rules reports what no ignored category covers.
LEMMA PlanTells ==
    ASSUME NEW R \in SUBSET Risks, NEW r \in R, NEW cfg, NEW seen
    PROVE  Reported(r, PlanFindings(R, cfg, seen)) \/ r.category \in cfg.ignored
  <1>1. ASSUME r.category \notin cfg.ignored
        PROVE  Reported(r, PlanFindings(R, cfg, seen))
    <2>1. Reported(r, DropIgnored({Fresh(q) : q \in R}, cfg.ignored))
      BY <1>1, FreshReported DEF DropIgnored, Reported
    <2>2. DropIgnored({Fresh(q) : q \in R}, cfg.ignored) \in SUBSET FindingsOf(Risks)
      BY FreshType DEF DropIgnored
    <2> QED
      BY <2>1, <2>2, MarkingKeeps DEF PlanFindings
  <1> QED
    BY <1>1

\* What the plan findings hold is what the plan holds, save what is ignored.
LEMMA PlanFindingsMeaning ==
    ASSUME NEW R \in SUBSET Risks, NEW cfg, NEW seen, NEW g \in PlanFindings(R, cfg, seen)
    PROVE  g.risk \in R /\ g.risk.category \notin cfg.ignored
  <1>1. PICK f \in DropIgnored({Fresh(q) : q \in R}, cfg.ignored) :
            g = [f EXCEPT !.severity = RatedSeverity(f, seen)]
    BY DEF PlanFindings, AdjustSeverity
  <1>2. PICK q \in R : f = Fresh(q) /\ f.risk.category \notin cfg.ignored
    BY DEF DropIgnored
  <1>3. g.risk = q /\ f.risk = q
    BY <1>1, <1>2 DEF Fresh
  <1> QED
    BY <1>2, <1>3

\* The tail of collect_findings removes what a path rule names.
LEMMA CollectTells ==
    ASSUME NEW F \in SUBSET FindingsOf(Risks), NEW R \in SUBSET Risks, NEW cfg, NEW r,
           Reported(r, F) \/ (r \in R /\ r.category \notin cfg.ignored),
           <<r.file, r.category>> \notin cfg.excluded
    PROVE  Reported(r, Collected(F, R, cfg))
  <1> DEFINE D == DropIgnored({Fresh(q) : q \in R}, cfg.ignored)
             G == DropExcludedPaths(F \cup D, cfg.excluded)
  <1>1. r \in R /\ r.category \notin cfg.ignored => Reported(r, D)
    BY FreshReported DEF DropIgnored, Reported
  <1>2. Reported(r, F \cup D)
    BY <1>1 DEF Reported
  <1>3. Reported(r, G)
    BY <1>2 DEF DropExcludedPaths, Reported
  <1>4. G \in SUBSET FindingsOf(Risks)
    BY FreshType DEF DropExcludedPaths, DropIgnored
  <1> QED
    BY <1>3, <1>4, MarkingKeeps DEF Collected

\* Each step of a scan leaves every risk it has read told.
LEMMA TrailStep ==
    ASSUME Inv, Trail, Step
    PROVE  Trail'
  <1> USE DEF End, Goto, world, file, local, outer
  <1>1. CASE Configure \/ Collect \/ Coverage \/ LoadRules
    <2>1. /\ pc' \in {"collect", "coverage", "rules", "inspect", "ended"}
          /\ delivered' = {}
      BY <1>1, EarlyQuiet DEF Configure, Collect, Coverage, LoadRules, Early, Inv
    <2>2. pc' \in {"coverage", "rules", "inspect"} => \A r \in scanned' : r.origin = "terraform"
      BY <1>1 DEF Configure, Collect, Coverage, LoadRules, From, Trail
    <2> QED
      BY <2>1, <2>2 DEF Trail, Decided, Publishing, Accepting
  <1>2. CASE Inspect
    <2>1. PICK seen : findings' = Inspected(Raised(scanned, extended), config, seen)
      BY <1>2 DEF Inspect
    <2>2. /\ scanned \in SUBSET Risks /\ \A r \in scanned : r.origin = "terraform"
          /\ UNCHANGED <<config, extended, scanned, job, plan>>
      BY <1>2 DEF Inspect, Trail, Inv, TypeOK
    <2>3. From("terraform", scanned) = scanned /\ Raised(scanned, extended) \in SUBSET Risks
      BY <2>2 DEF From, Raised
    <2>4. ASSUME NEW r \in scanned PROVE Told(r)'
      <3>1. CASE r \in Raised(scanned, extended)
        BY <2>1, <2>2, <2>3, <2>4, <3>1, InspectTells DEF Told, Excused
      <3>2. CASE (r.extended /\ ~extended) \/ Hidden(r, scanned)
        BY <2>2, <2>3, <2>4, <3>2 DEF Told, Excused
      <3> QED
        BY <2>2, <3>1, <3>2, RaisedOrHidden
    <2>5. /\ pc' = IF "plan" \in job THEN "plan" ELSE "variables"
          /\ delivered' = {}
      BY <1>2, EarlyQuiet DEF Inspect, Early, Inv
    <2>6. CASE "plan" \in job
      BY <2>2, <2>4, <2>5, <2>6 DEF Trail, Decided, Publishing, Accepting
    <2>7. CASE "plan" \notin job
      <3>1. Read' = scanned
        BY <2>2, <2>7 DEF Read
      <3> QED
        BY <2>2, <2>4, <2>5, <2>7, <3>1 DEF Trail, Decided, Publishing, Accepting
    <2> QED
      BY <2>6, <2>7
  <1>3. CASE ReadPlan
    <2>1. /\ delivered' = {} /\ pc' \in {"variables", "ended"}
          /\ UNCHANGED <<config, extended, scanned, job, plan>>
      BY <1>3, EarlyQuiet DEF ReadPlan, Early, Inv
    <2>2. CASE pc' = "ended"
      BY <2>1, <2>2 DEF Trail, Decided, Publishing, Accepting
    <2>3. CASE pc' = "variables"
      <3>1. PICK seen : findings' = MergePlan(findings, PlanFindings(plan, config, seen))
        BY <1>3, <2>3 DEF ReadPlan
      <3>2. plan \in SUBSET Risks /\ "plan" \in job
        BY <1>3, WorldType DEF ReadPlan, Inv, TypeOK, Trail
      <3>3. ASSUME NEW r \in plan PROVE Told(r)'
        <4>1. Reported(r, PlanFindings(plan, config, seen)) \/ r.category \in config.ignored
          BY <3>2, PlanTells
        <4> QED
          BY <2>1, <3>1, <4>1 DEF Told, Excused, MergePlan, Reported
      <3>4. ASSUME NEW r \in scanned PROVE Told(r)'
        <4>1. Told(r)
          BY <1>3 DEF ReadPlan, Trail
        <4>2. CASE Reported(r, DropSuperseded(findings, PlanFindings(plan, config, seen)))
          BY <3>1, <4>2 DEF Told, MergePlan, Reported
        <4>3. CASE /\ Reported(r, findings)
                   /\ ~Reported(r, DropSuperseded(findings, PlanFindings(plan, config, seen)))
          <5>1. /\ r.category = "force_new_change"
                /\ r.address \in ConfirmedAddresses(PlanFindings(plan, config, seen))
            BY <4>3 DEF DropSuperseded, Reported
          <5>2. PICK g \in PlanFindings(plan, config, seen) :
                    g.risk.category = "confirmed_replace" /\ g.risk.address = r.address
            BY <5>1 DEF ConfirmedAddresses
          <5>3. g.risk \in plan /\ g.risk.category \notin config.ignored
            BY <3>2, <5>2, PlanFindingsMeaning
          <5> QED
            BY <2>1, <3>2, <5>1, <5>2, <5>3 DEF Told, Superseded
        <4>4. CASE ~Reported(r, findings)
          BY <2>1, <4>1, <4>4 DEF Told, Excused, Superseded
        <4> QED
          BY <4>2, <4>3, <4>4
      <3>5. Read' = scanned \cup plan
        BY <2>1, <3>2 DEF Read
      <3>6. \A r \in scanned' : r.origin = "terraform"
        BY <1>3, <2>1 DEF ReadPlan, Trail
      <3> QED
        BY <2>1, <2>3, <3>3, <3>4, <3>5, <3>6 DEF Trail, Decided, Publishing, Accepting
    <2> QED
      BY <2>1, <2>2, <2>3
  <1>4. CASE Variables
    <2>1. delivered' = {} /\ UNCHANGED <<config, extended, job, plan, tree>>
      BY <1>4, EarlyQuiet DEF Variables, Early, Inv
    <2>2. CASE pc' = "ended"
      BY <2>1, <2>2 DEF Trail, Decided, Publishing, Accepting
    <2>3. CASE pc' = AfterCollecting
      <3> DEFINE V == From("variables", tree)
      <3>1. pc' \in {"write", "baseline", "waivers"}
        BY <2>3 DEF AfterCollecting
      <3>2. /\ findings' = Collected(findings, Raised(V, extended), config)
            /\ scanned' = scanned \cup V
        BY <1>4, <3>1 DEF Variables
      <3>3. /\ V \in SUBSET Risks /\ Raised(V, extended) \in SUBSET Risks
            /\ findings \in SUBSET FindingsOf(Risks)
        BY WorldType DEF Inv, TypeOK
      <3>4. ASSUME NEW r, Reported(r, findings)
                          \/ (r \in Raised(V, extended) /\ r.category \notin config.ignored)
            PROVE  Told(r)'
        <4>1. CASE <<r.file, r.category>> \in config.excluded
          BY <2>1, <4>1 DEF Told, Excused
        <4>2. CASE <<r.file, r.category>> \notin config.excluded
          BY <3>2, <3>3, <3>4, <4>2, CollectTells DEF Told
        <4> QED
          BY <4>1, <4>2
      <3>5. ASSUME NEW r, Told(r) PROVE Told(r)'
        <4>1. From(r.origin, scanned) \subseteq From(r.origin, scanned')
          BY <3>2 DEF From
        <4>2. CASE Reported(r, findings)
          BY <3>4, <4>2
        <4>3. CASE ~Reported(r, findings)
          BY <2>1, <3>5, <4>1, <4>3 DEF Told, Excused, Superseded, Hidden
        <4> QED
          BY <4>2, <4>3
      <3>6. ASSUME NEW r \in V PROVE Told(r)'
        <4>1. r.origin = "variables" /\ V \subseteq From("variables", scanned')
          BY <3>2 DEF From
        <4>2. CASE r \in Raised(V, extended)
          BY <2>1, <3>4, <4>2 DEF Told, Excused
        <4>3. CASE (r.extended /\ ~extended) \/ Hidden(r, V)
          BY <2>1, <4>1, <4>3 DEF Told, Excused, Hidden
        <4> QED
          BY <3>3, <4>2, <4>3, RaisedOrHidden
      <3>7. \A r \in Read : Told(r)
        BY <1>4 DEF Variables, Trail
      <3>8. Read' = Read \cup V
        BY <2>1, <3>2 DEF Read
      <3>9. \A r \in Read' : Told(r)'
        BY <3>5, <3>6, <3>7, <3>8
      <3> QED
        BY <3>1, <3>9 DEF Trail
    <2> QED
      BY <1>4, <2>2, <2>3 DEF Variables
  <1>5. ASSUME UNCHANGED <<config, extended, job, plan, scanned>>,
               pc \in {"write"} \cup Accepting \cup Decided,
               pc' \in Accepting \cup Decided \cup {"ended"},
               \A r : Reported(r, findings) => Reported(r, findings')
        PROVE  Trail'
    <2>1. \A r \in Read : Told(r)
      BY <1>5 DEF Trail
    <2>2. Read' = Read
      BY <1>5 DEF Read
    <2>3. ASSUME NEW r, Told(r) PROVE Told(r)'
      BY <1>5, <2>3 DEF Told, Excused, Superseded
    <2>4. \A r \in Read' : Told(r)'
      BY <2>1, <2>2, <2>3
    <2> QED
      BY <1>5, <2>4 DEF Trail, Decided, Publishing, Accepting
  <1>6. CASE ApplyBaseline \/ FetchWaivers
    <2>1. ASSUME NEW r, Reported(r, findings) PROVE Reported(r, findings')
      BY <1>6, <2>1, MarkingKeeps DEF ApplyBaseline, FetchWaivers, Inv, TypeOK
    <2> QED
      BY <1>5, <1>6, <2>1 DEF ApplyBaseline, FetchWaivers, Accepting
  <1>7. CASE WriteBaseline \/ Decide \/ ReportUsage \/ Autofix \/ PrintReport \/ Conclude
    BY <1>5, <1>7 DEF WriteBaseline, Decide, ReportUsage, Autofix, PrintReport, Conclude,
                      AfterPrint, AfterComment, AfterSarif, Decided, Publishing, Accepting
  <1>8. CASE Publish("comment", AfterComment) \/ Publish("sarif", AfterSarif)
             \/ Publish("codequality", "done")
    BY <1>5, <1>8 DEF Publish, AfterComment, AfterSarif, Decided, Publishing
  <1> QED
    BY <1>1, <1>2, <1>3, <1>4, <1>6, <1>7, <1>8 DEF Step

\* What people do meanwhile, and a crash, leave every risk told.
LEMMA TrailNext ==
    ASSUME Inv, Trail, [Next]_vars
    PROVE  Trail'
  <1> USE DEF world, file, local, outer
  <1>1. pc = "idle" => delivered = {}
    BY DEF Inv, Verdict, Publishing
  <1>2. ASSUME pc' \in {"idle", "configure"}, delivered' = {}
        PROVE  Trail'
    BY <1>2 DEF Trail, Accepting, Decided, Publishing
  <1>3. CASE \E j \in Jobs : StartScan(j)
    BY <1>1, <1>2, <1>3 DEF StartScan, Goto
  <1>4. CASE Return
    BY <1>2, <1>4 DEF Return
  <1>5. CASE Between /\ pc = "idle"
    BY <1>1, <1>2, <1>5 DEF Between, EditSource, NewPlan, Reconfigure, DropBaseline
  <1>6. ASSUME UNCHANGED <<plan, config, local, outer>>, pc' = pc \/ pc' = "ended"
        PROVE  Trail'
    BY <1>6 DEF Trail, Read, Told, Excused, Superseded, Accepting, Decided, Publishing
  <1>7. CASE Between /\ pc # "idle"
    BY <1>6, <1>7 DEF Between, EditSource, NewPlan, Reconfigure, DropBaseline
  <1>8. CASE Kill
    BY <1>6, <1>8 DEF Kill, End
  <1>9. CASE UNCHANGED vars
    BY <1>6, <1>9 DEF vars
  <1> QED
    BY <1>3, <1>4, <1>5, <1>7, <1>8, <1>9, TrailStep DEF Next

(***************************************************************************)
(* No scan prints a report that has lost a risk of what it read, whatever  *)
(* the rules, the plan and the configuration, and however the source       *)
(* changes while it is read.                                               *)
(***************************************************************************)
THEOREM NothingIsLost == Spec => []NoSilentLoss
  <1>1. Init => Trail
    BY DEF Init, Trail, Accepting, Decided, Publishing
  <1>2. Inv /\ Trail => NoSilentLoss
    <2> SUFFICES ASSUME Inv, Trail, "stdout" \in delivered, NEW r \in Read
                 PROVE  \/ \E f \in reports["stdout"] : f.risk = r
                        \/ Excused(r) \/ Superseded(r)
                        \/ Hidden(r, From(r.origin, scanned))
      BY DEF NoSilentLoss, Read
    <2>1. reports["stdout"] = findings
      BY BlockingMeaning
    <2>2. Told(r)
      BY DEF Trail
    <2> QED
      BY <2>1, <2>2 DEF Told, Reported
  <1> QED
    BY <1>1, <1>2, TrailNext, Invariance, PTL DEF Spec

-----------------------------------------------------------------------------
(***************************************************************************)
(* Refinement: every behaviour of the scan is one of Gate.                 *)
(***************************************************************************)

\* A step of a running scan that touches neither the printed report nor the
\* exit is invisible to the gate.
LEMMA GateStutter ==
    ASSUME Phase' = Phase, Shown' = Shown, Outcome' = Outcome
    PROVE  UNCHANGED TheGate!vars
  BY DEF TheGate!vars

\* Leaving the printed report alone.
LEMMA ShownStable ==
    ASSUME UNCHANGED config, UNCHANGED outer
    PROVE  Shown' = Shown
  BY DEF Shown, outer

\* A step that ends nothing leaves the outcome alone.
LEMMA OutcomeStable ==
    ASSUME exit' = exit, exit = Unended \/ job' = job
    PROVE  Outcome' = Outcome
  BY DEF Outcome, Unended, Ok, Blocked, Error, Traceback, Killed

\* A repository nobody has scanned is an idle gate.
LEMMA GateInit == Init => TheGate!Init
  <1> SUFFICES ASSUME Init PROVE TheGate!Init
    OBVIOUS
  <1>1. Phase = "idle"
    BY DEF Init, Phase
  <1>2. Shown = "nothing"
    BY DEF Init, Shown
  <1>3. Outcome = "none"
    BY DEF Init, Outcome, Unended, Ok, Blocked, Error, Traceback, Killed
  <1> QED
    BY <1>1, <1>2, <1>3 DEF TheGate!Init

\* A step of a scan shows a report, concludes, fails unseen, or is invisible.
LEMMA GateStep ==
    ASSUME Inv, Step
    PROVE  TheGate!Next \/ UNCHANGED TheGate!vars
  <1> USE DEF Inv, world, file, local
  <1>1. Phase = "running" /\ exit = Unended
    BY DEF Step, Phase, Ending, Configure, Collect, Coverage, LoadRules, Inspect, ReadPlan,
           Variables, WriteBaseline, ApplyBaseline, FetchWaivers, Decide, ReportUsage,
           Autofix, PrintReport, Publish, Conclude
  <1>2. ASSUME UNCHANGED config, UNCHANGED <<delivered, reports>>, exit' = exit,
               pc' \notin {"idle", "ended"}
        PROVE  UNCHANGED TheGate!vars
    <2>1. Phase' = Phase
      BY <1>1, <1>2 DEF Phase
    <2>2. Shown' = Shown
      BY <1>2 DEF Shown
    <2> QED
      BY <1>1, <1>2, <2>1, <2>2, OutcomeStable, GateStutter
  <1>3. ASSUME UNCHANGED config, UNCHANGED <<delivered, reports>>, delivered = {},
               End(Error) \/ (End(Ok) /\ "write_baseline" \in job')
        PROVE  TheGate!ConcludeUnseen
    <2>1. Phase' = "over" /\ Shown = "nothing" /\ Shown' = Shown
      BY <1>3 DEF Phase, Shown, End
    <2>2. Outcome' \in {"error", "recorded"}
      BY <1>3 DEF Outcome, End, Unended, Ok, Blocked, Error, Traceback, Killed
    <2> QED
      BY <1>1, <2>1, <2>2 DEF TheGate!ConcludeUnseen
  <1>d. ASSUME UNCHANGED config, UNCHANGED <<delivered, reports>>, End(Traceback)
        PROVE  TheGate!Die
    <2>1. Phase' = "over" /\ Shown' = Shown /\ Outcome' = "dead"
      BY <1>d DEF End, Phase, Shown, Outcome, Unended, Ok, Blocked, Error, Traceback, Killed
    <2> QED
      BY <1>1, <2>1 DEF TheGate!Die
  <1>4. CASE Configure \/ Collect \/ Coverage \/ LoadRules \/ ReadPlan \/ ApplyBaseline
             \/ Variables \/ WriteBaseline
    <2>1. UNCHANGED config /\ UNCHANGED <<delivered, reports>> /\ delivered = {}
      BY <1>4, EarlyQuiet DEF Configure, Collect, Coverage, LoadRules, ReadPlan, ApplyBaseline,
                              Variables, WriteBaseline, Early, outer
    <2>2. \/ exit' = exit /\ pc' \notin {"idle", "ended"}
          \/ End(Error)
          \/ End(Ok) /\ "write_baseline" \in job'
          \/ End(Traceback)
      BY <1>4, AfterCollectingRange
         DEF Configure, Collect, Coverage, LoadRules, ReadPlan, ApplyBaseline, Variables,
             WriteBaseline, Goto, Verdict
    <2> QED
      BY <1>2, <1>3, <1>d, <2>1, <2>2 DEF TheGate!Next
  <1>5. CASE Inspect \/ FetchWaivers \/ Decide \/ ReportUsage
    BY <1>2, <1>5 DEF Inspect, FetchWaivers, Decide, ReportUsage, Goto, outer
  <1>6. CASE Autofix
    <2>1. UNCHANGED config /\ UNCHANGED <<delivered, reports>> /\ delivered = {}
      BY <1>6 DEF Autofix, Verdict, Publishing, outer
    <2>2. (exit' = exit /\ pc' = "print") \/ End(Error) \/ End(Traceback)
      BY <1>6 DEF Autofix, Goto
    <2> QED
      BY <1>2, <1>3, <1>d, <2>1, <2>2 DEF TheGate!Next
  <1>7. CASE PrintReport
    <2>1. "stdout" \notin delivered
      BY <1>7 DEF PrintReport, Verdict, Publishing
    <2>2. Shown' \in {"open", "clear"} /\ Shown = "nothing"
      BY <1>7, <2>1 DEF PrintReport, Deliver, Shown
    <2>3. Phase' = "running" /\ Outcome' = Outcome
      BY <1>1, <1>7, OutcomeStable DEF PrintReport, Goto, Phase, AfterPrint, AfterComment,
                                       AfterSarif
    <2> QED
      BY <1>1, <2>2, <2>3 DEF TheGate!Show, TheGate!Next
  <1>8. CASE Publish("comment", AfterComment) \/ Publish("sarif", AfterSarif)
             \/ Publish("codequality", "done")
    <2>1. Phase' = "running" /\ Outcome' = Outcome
      BY <1>1, <1>8, OutcomeStable DEF Publish, Goto, Phase, AfterComment, AfterSarif
    <2>2. /\ UNCHANGED config
          /\ "stdout" \in delivered /\ "stdout" \in delivered'
          /\ reports'["stdout"] = reports["stdout"]
      BY <1>8 DEF Publish, Deliver, outer, Verdict, Publishing, TypeOK, Channels
    <2>3. Shown' = Shown
      BY <2>2 DEF Shown
    <2> QED
      BY <1>1, <2>1, <2>3, GateStutter
  <1>9. CASE Conclude
    <2>1. /\ "stdout" \in delivered /\ reports["stdout"] = findings
          /\ blocked = Blocks(findings, config.threshold)
          /\ UNCHANGED <<config, delivered, reports, job>> /\ "write_baseline" \notin job
      BY <1>9, BlockingMeaning DEF Conclude, Verdict, Publishing, Decided, outer
    <2>2. Phase' = "over" /\ Shown' = Shown /\ Shown = IF blocked THEN "open" ELSE "clear"
      BY <1>9, <2>1 DEF Conclude, End, Phase, Shown
    <2>3. Outcome' = IF blocked THEN "block" ELSE "pass"
      BY <1>9, <2>1 DEF Conclude, End, Outcome, Unended, Ok, Blocked, Error, Traceback, Killed
    <2> QED
      BY <1>1, <2>2, <2>3 DEF TheGate!Conclude, TheGate!Next
  <1> QED
    BY <1>4, <1>5, <1>6, <1>7, <1>8, <1>9 DEF Step

\* Whatever happens, the gate makes a step of its own or none.
LEMMA GateNext ==
    ASSUME Inv, [Next]_vars
    PROVE  TheGate!Next \/ UNCHANGED TheGate!vars
  <1> USE DEF world, file, local, outer
  <1>1. CASE Step
    BY <1>1, GateStep
  <1>2. pc = "idle" => Phase = "idle" /\ Shown = "nothing" /\ exit = Unended
    BY DEF Inv, Verdict, Ending, Phase, Shown, Publishing
  <1>3. CASE \E j \in Jobs : StartScan(j)
    <2>1. Phase' = "running" /\ Shown' = Shown /\ Outcome' = Outcome
      BY <1>2, <1>3, ShownStable, OutcomeStable DEF StartScan, Goto, Phase
    <2> QED
      BY <1>2, <1>3, <2>1 DEF StartScan, TheGate!Begin, TheGate!Next
  <1>4. CASE Return
    <2>1. Phase = "over" /\ Phase' = "idle" /\ Shown' = "nothing"
      BY <1>4 DEF Return, Phase, Shown
    <2>2. Outcome' = "none"
      BY <1>4 DEF Return, Outcome, Unended, Ok, Blocked, Error, Traceback, Killed
    <2> QED
      BY <2>1, <2>2 DEF TheGate!Leave, TheGate!Next
  <1>5. CASE Kill
    <2>1. Phase = "running" /\ Phase' = "over" /\ Shown' = Shown
      BY <1>5, ShownStable DEF Kill, End, Phase
    <2>2. Outcome' = "dead"
      BY <1>5 DEF Kill, End, Outcome, Unended, Ok, Blocked, Error, Traceback, Killed
    <2> QED
      BY <2>1, <2>2 DEF TheGate!Die, TheGate!Next
  <1>6. CASE Between
    <2>1. Phase' = Phase /\ Outcome' = Outcome
      BY <1>6, OutcomeStable
         DEF Between, EditSource, NewPlan, Reconfigure, DropBaseline, Phase
    <2>2. Shown' = Shown
      BY <1>2, <1>6 DEF Between, EditSource, NewPlan, Reconfigure, DropBaseline, Shown
    <2> QED
      BY <2>1, <2>2, GateStutter
  <1>7. CASE UNCHANGED vars
    <2>1. UNCHANGED <<config, outer, exit, job, pc>>
      BY <1>7 DEF vars
    <2>2. Phase' = Phase /\ Outcome' = Outcome
      BY <2>1, OutcomeStable DEF Phase
    <2>3. Shown' = Shown
      BY <2>1 DEF Shown
    <2> QED
      BY <2>2, <2>3, GateStutter
  <1> QED
    BY <1>1, <1>3, <1>4, <1>5, <1>6, <1>7 DEF Next

(***************************************************************************)
(* The pipeline implements the gate: one report at most, no failure once   *)
(* it is out, and a verdict that agrees with it.                           *)
(***************************************************************************)
THEOREM Refinement == Spec => ImplementsGate
  BY GateInit, GateNext, Invariance, PTL DEF Spec, ImplementsGate, TheGate!Spec
=============================================================================
