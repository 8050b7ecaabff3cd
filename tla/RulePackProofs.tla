--------------------------- MODULE RulePackProofs ---------------------------
(***************************************************************************)
(* Theorems about RulePack, for every built-in pack that passed its own    *)
(* checks, every rule a team may write and every block.                    *)
(***************************************************************************)
EXTENDS RulePack, FiniteSetTheorems, WellFoundedInduction, TLAPS

Rules == Entries \cup {Builtin[k] : k \in Positions(Builtin)}
Counters == {"inherited", "overridden", "added", "disabled"}

(***************************************************************************)
(* What a detector reports comes from a rule of the pack.                  *)
(***************************************************************************)

\* Reports name rules of the pack, and are of the two kinds.
LEMMA DetectedComesFromThePack ==
    ASSUME NEW rules, NEW k \in Positions(rules), NEW res, NEW f \in Detected(rules, k, res)
    PROVE  /\ f.kind \in Kinds
           /\ \E j \in Positions(rules) : rules[j].id = f.rule
  <1>1. CASE f \in Reported(rules, k, res)
    <2>1. PICK p \in Locations(rules[k].match, res) :
              \E j \in FirstToAnswer(rules, k, res, p) :
                 f = [kind |-> "finding", rule |-> rules[j].id, place |-> p]
      BY <1>1 DEF Reported
    <2>2. PICK j \in FirstToAnswer(rules, k, res, p) : f.kind = "finding" /\ f.rule = rules[j].id
      BY <2>1
    <2>3. j \in Positions(rules)
      BY DEF FirstToAnswer, Answering, Alternatives
    <2> QED
      BY <2>2, <2>3 DEF Kinds
  <1>2. CASE f \in Unverified(rules, res)
    <2>1. PICK guard \in Guards(rules) : f.kind = "unverified" /\ f.rule = guard.id
      BY <1>2 DEF Unverified
    <2> QED
      BY <2>1 DEF Guards, Kinds
  <1> QED
    BY <1>1, <1>2, Zenon DEF Detected

(***************************************************************************)
(* The inductive invariant.                                                *)
(***************************************************************************)

Typed ==
    /\ file \in [extends : BOOLEAN, rules : Seq(Entries)]
    /\ resource \in Resources
    /\ phase \in Phases
    /\ at \in Nat \ {0}
    /\ pack \in Seq(Rules)
    /\ report \in [Counters -> Nat]

\* What load_rule_pack checked before it went on.
Checked ==
    /\ phase = "merging" => Layered /\ IsIndexed(file.rules)
    /\ phase \in {"building", "detecting", "done"} => IsIndexed(pack)
    /\ phase \in {"detecting", "done"} => IsBuildable(pack)

\* No rule of the pack is switched off, and every report names one of them.
Silent ==
    /\ phase \in {"merging", "building", "detecting", "done", "crashed"} /\ Layered =>
          \A k \in Positions(pack) : ~SwitchedOff(pack[k].id)
    /\ phase \in {"writing", "merging", "building", "refused"} => found = {}
    /\ \A f \in found : /\ f.kind \in Kinds
                        /\ \E k \in Positions(pack) : pack[k].id = f.rule

Inv == Typed /\ Checked /\ Silent

LEMMA NoReportType == NoReport \in [Counters -> Nat]
  BY DEF NoReport, Counters

LEMMA BuiltinType == Builtin \in Seq(Rules)
  <1>1. {Builtin[k] : k \in Positions(Builtin)} \subseteq Rules
    BY DEF Rules
  <1>2. Builtin \in Seq({Builtin[k] : k \in Positions(Builtin)})
    BY BuiltinAssumption
  <1> QED
    BY <1>1, <1>2

\* Appending a rule that is not switched off keeps the pack as it should be.
LEMMA Appended ==
    ASSUME pack \in Seq(Rules), NEW rule \in Rules,
           \A k \in Positions(pack) : ~SwitchedOff(pack[k].id),
           ~SwitchedOff(rule.id), pack' = Append(pack, rule), file' = file
    PROVE  /\ pack' \in Seq(Rules)
           /\ (\A k \in Positions(pack) : ~SwitchedOff(pack[k].id))'
  <1>0. Append(pack, rule) \in Seq(Rules) /\ Len(Append(pack, rule)) = Len(pack) + 1
    OBVIOUS
  <1>1. pack' \in Seq(Rules) /\ Len(pack') = Len(pack) + 1
    BY <1>0
  <1>2. ASSUME NEW k \in Positions(pack') PROVE ~SwitchedOff(pack'[k].id)
    <2>1. CASE k \in Positions(pack)
      <3>1. pack'[k] = pack[k]
        BY <2>1 DEF Positions
      <3> QED
        BY <2>1, <3>1
    <2>2. CASE k = Len(pack) + 1
      <3>1. pack'[k] = rule
        BY <2>2
      <3> QED
        BY <3>1
    <2> QED
      BY <1>1, <1>2, <2>1, <2>2 DEF Positions
  <1> QED
    BY <1>1, <1>2 DEF SwitchedOff, Positions

LEMMA InitInv == Init => Inv
  <1> SUFFICES ASSUME Init PROVE Inv
    OBVIOUS
  <1>1. Typed
    <2>1. file \in [extends : BOOLEAN, rules : Seq(Entries)]
      <3>1. <<>> \in Seq(Entries)
        OBVIOUS
      <3> QED
        BY <3>1 DEF Init
    <2>2. phase \in Phases /\ at \in Nat \ {0} /\ pack \in Seq(Rules)
      BY DEF Init, Phases
    <2> QED
      BY <2>1, <2>2, NoReportType DEF Init, Typed
  <1>2. Checked
    BY DEF Init, Checked
  <1>3. Silent
    BY DEF Init, Silent
  <1> QED
    BY <1>1, <1>2, <1>3 DEF Inv

LEMMA NextInv == Inv /\ [Next]_vars => Inv'
  <1> SUFFICES ASSUME Inv, [Next]_vars PROVE Inv'
    OBVIOUS
  <1> USE DEF Inv
  <1>1. ASSUME Refuse, phase \in {"writing", "merging", "building"} PROVE Inv'
    <2>1. Typed'
      BY <1>1 DEF Refuse, Typed, Phases
    <2>2. Checked' /\ Silent'
      BY <1>1 DEF Refuse, Checked, Silent, Layered
    <2> QED
      BY <2>1, <2>2
  <1>2. ASSUME NEW entry \in Entries, Write(entry) PROVE Inv'
    <2>1. file' \in [extends : BOOLEAN, rules : Seq(Entries)]
      <3>1. Append(file.rules, entry) \in Seq(Entries)
        BY DEF Typed
      <3> QED
        BY <1>2, <3>1 DEF Write, Typed
    <2>2. Typed'
      BY <1>2, <2>1 DEF Write, Typed
    <2>3. Checked' /\ Silent'
      BY <1>2 DEF Write, Checked, Silent
    <2> QED
      BY <2>2, <2>3
  <1>3. ASSUME UseBuiltin PROVE Inv'
    <2>1. Typed'
      BY <1>3, BuiltinType DEF UseBuiltin, Typed, Phases
    <2>2. Checked'
      BY <1>3, BuiltinAssumption DEF UseBuiltin, Checked
    <2>3. Silent'
      BY <1>3 DEF UseBuiltin, Silent, Layered
    <2> QED
      BY <2>1, <2>2, <2>3
  <1>4. ASSUME Load PROVE Inv'
    <2>1. CASE file.rules = <<>> \/ ~IsIndexed(file.rules)
      BY <1>1, <1>4, <2>1 DEF Load
    <2>2. CASE ~(file.rules = <<>> \/ ~IsIndexed(file.rules))
      <3>1. /\ phase = "writing" /\ file' = file /\ found' = found /\ at' = at
            /\ resource' = resource /\ report' = report
            /\ phase' = IF file.extends THEN "merging" ELSE "building"
            /\ pack' = IF file.extends THEN <<>> ELSE file.rules
        BY <1>4, <2>2 DEF Load
      <3>2. file.rules \in Seq(Rules) /\ <<>> \in Seq(Rules)
        BY DEF Typed, Rules
      <3>3. Typed'
        BY <3>1, <3>2 DEF Typed, Phases
      <3>4. Checked'
        BY <2>2, <3>1 DEF Checked, Layered
      <3>5. Silent'
        BY <2>2, <3>1 DEF Silent, Layered, Positions
      <3> QED
        BY <3>3, <3>4, <3>5
    <2> QED
      BY <2>1, <2>2
  <1>5. ASSUME Merge PROVE Inv'
    <2>1. ASSUME NEW c \in Counters, Count(c) PROVE report' \in [Counters -> Nat]
      BY <2>1 DEF Count, Typed, Counters
    <2>2. at' = at + 1 => at' \in Nat \ {0}
      BY DEF Typed
    <2>3. \A k \in Positions(file.rules) : file.rules[k] \in Rules
      BY DEF Typed, Rules, Positions
    <2>4. phase = "merging" =>
             /\ Layered /\ IsIndexed(file.rules) /\ found = {}
             /\ \A k \in Positions(pack) : ~SwitchedOff(pack[k].id)
      BY DEF Checked, Silent
    <2>5. ASSUME phase = "merging", Advance, UNCHANGED <<file, resource, phase, found>>,
                 pack' \in Seq(Rules), report' \in [Counters -> Nat],
                 (\A k \in Positions(pack) : ~SwitchedOff(pack[k].id))'
          PROVE  Inv'
      <3>1. Typed'
        BY <2>2, <2>5 DEF Typed, Advance
      <3>2. Checked'
        BY <2>5 DEF Checked, Layered
      <3>3. Silent'
        BY <2>4, <2>5 DEF Silent
      <3> QED
        BY <3>1, <3>2, <3>3
    <2>6. CASE Inherit
      <3>1. Builtin[at] \in Rules /\ ~SwitchedOff(Builtin[at].id)
        BY <2>6 DEF Inherit, InBase, Typed, Rules, Positions, Overriding, SwitchedOff
      <3> QED
        BY <2>1, <2>4, <2>5, <2>6, <3>1, Appended DEF Inherit, InBase, Counters, Typed
    <2>7. CASE Override
      <3>1. PICK k \in Overriding(Builtin[at]) :
                ~file.rules[k].disabled /\ pack' = Append(pack, file.rules[k])
        BY <2>7 DEF Override
      <3>2. k \in Positions(file.rules)
        BY <3>1 DEF Overriding
      <3>3. phase = "merging" /\ IsIndexed(file.rules)
        BY <2>4, <2>7 DEF Override, InBase
      <3>4. ~SwitchedOff(file.rules[k].id)
        BY <3>1, <3>2, <3>3 DEF IsIndexed, SwitchedOff
      <3> QED
        BY <2>1, <2>3, <2>4, <2>5, <2>7, <3>1, <3>2, <3>4, Appended DEF Override, InBase, Counters, Typed
    <2>8. CASE SwitchOff
      BY <2>1, <2>4, <2>5, <2>8 DEF SwitchOff, InBase, Counters, Typed, SwitchedOff
    <2>9. CASE PassOver
      BY <2>4, <2>5, <2>9 DEF PassOver, InOverlay, Typed, SwitchedOff
    <2>10. CASE Add
      <3>1. phase = "merging" /\ at - Len(Builtin) \in Positions(file.rules)
        <4>1. Len(Builtin) \in Nat /\ Len(file.rules) \in Nat
          BY BuiltinType DEF Typed
        <4> QED
          BY <2>10, <4>1 DEF Add, InOverlay, Typed, Positions
      <3>2. Entry \in Rules /\ ~SwitchedOff(Entry.id)
        BY <2>3, <2>4, <2>10, <3>1 DEF Add, Entry, IsIndexed, SwitchedOff
      <3> QED
        BY <2>1, <2>4, <2>5, <2>10, <3>1, <3>2, Appended DEF Add, Counters, Typed
    <2>11. CASE RefuseMisspelling
      BY <1>1, <2>11 DEF RefuseMisspelling, InOverlay
    <2>12. CASE MergeEnds
      <3>1. CASE pack = <<>> \/ ~IsIndexed(pack)
        BY <1>1, <2>12, <3>1 DEF MergeEnds
      <3>2. CASE ~(pack = <<>> \/ ~IsIndexed(pack))
        <4>1. /\ phase = "merging" /\ phase' = "building"
              /\ UNCHANGED <<file, resource, at, pack, report, found>>
          BY <2>12, <3>2 DEF MergeEnds
        <4>2. Typed'
          BY <4>1 DEF Typed, Phases
        <4>3. Checked' /\ Silent'
          BY <2>4, <3>2, <4>1 DEF Checked, Silent, Layered, SwitchedOff
        <4> QED
          BY <4>2, <4>3
      <3> QED
        BY <3>1, <3>2
    <2> QED
      BY <1>5, <2>6, <2>7, <2>8, <2>9, <2>10, <2>11, <2>12 DEF Merge
  <1>6. ASSUME Build PROVE Inv'
    <2>1. CASE IsBuildable(pack)
      <3>1. Typed'
        BY <1>6, <2>1 DEF Build, Typed, Phases
      <3>2. Checked' /\ Silent'
        BY <1>6, <2>1 DEF Build, Checked, Silent, Layered, SwitchedOff
      <3> QED
        BY <3>1, <3>2
    <2>2. CASE ~IsBuildable(pack)
      BY <1>1, <1>6, <2>2 DEF Build
    <2> QED
      BY <2>1, <2>2
  <1>7. ASSUME Detect PROVE Inv'
    <2>1. at \in Positions(pack)
      BY <1>7 DEF Detect, Typed, Positions
    <2>2. \A f \in Detected(pack, at, resource) :
              f.kind \in Kinds /\ \E k \in Positions(pack) : pack[k].id = f.rule
      BY <2>1, DetectedComesFromThePack
    <2>3. /\ phase = "detecting" /\ at' = at + 1
          /\ found' = found \cup Detected(pack, at, resource)
          /\ UNCHANGED <<file, resource, phase, pack, report>>
      BY <1>7 DEF Detect, Advance
    <2>4. Typed'
      BY <2>3 DEF Typed
    <2>5. Checked'
      BY <2>3 DEF Checked
    <2>6. Silent'
      BY <2>2, <2>3 DEF Silent, Layered, SwitchedOff
    <2> QED
      BY <2>4, <2>5, <2>6
  <1>8. ASSUME Crash \/ Finish PROVE Inv'
    <2>1. Typed'
      BY <1>8 DEF Crash, Finish, Typed, Phases
    <2>2. Checked' /\ Silent'
      BY <1>8 DEF Crash, Finish, Checked, Silent, Layered, SwitchedOff
    <2> QED
      BY <2>1, <2>2
  <1>9. ASSUME Restart PROVE Inv'
    <2>1. Typed'
      <3>1. <<>> \in Seq(Entries) /\ <<>> \in Seq(Rules)
        OBVIOUS
      <3>2. file' \in [extends : BOOLEAN, rules : Seq(Entries)]
        BY <1>9, <3>1 DEF Restart
      <3>3. phase' \in Phases /\ at' \in Nat \ {0} /\ pack' \in Seq(Rules)
        BY <1>9, <3>1 DEF Restart, Phases
      <3> QED
        BY <1>9, <3>2, <3>3, NoReportType DEF Restart, Typed
    <2>2. Checked' /\ Silent'
      BY <1>9 DEF Restart, Checked, Silent, Layered
    <2> QED
      BY <2>1, <2>2
  <1>10. CASE UNCHANGED vars
    BY <1>10 DEF vars, Typed, Checked, Silent, Layered, SwitchedOff
  <1> QED
    BY <1>2, <1>3, <1>4, <1>5, <1>6, <1>7, <1>8, <1>9, <1>10 DEF Next

LEMMA SpecInv == Spec => []Inv
  BY InitInv, NextInv, PTL DEF Spec

(***************************************************************************)
(* The theorems.                                                           *)
(***************************************************************************)

\* The variables have their types, and a pack in force passed every check of
\* load_rule_pack.
THEOREM RulePackTyping == Spec => []TypeOK
  <1>1. Inv => TypeOK
    <2> SUFFICES ASSUME Inv PROVE TypeOK
      OBVIOUS
    <2>1. file.extends \in BOOLEAN /\ file.rules \in Seq(Entries)
      BY DEF Inv, Typed
    <2>2. \A k \in Positions(pack) : pack[k] \in Entries \cup {Builtin[j] : j \in Positions(Builtin)}
      <3>1. \A k \in Positions(pack) : pack[k] \in Rules
        BY DEF Inv, Typed, Positions
      <3> QED
        BY <3>1 DEF Rules
    <2>3. report \in [DOMAIN NoReport -> Nat]
      BY DEF Inv, Typed, NoReport, Counters
    <2> QED
      BY <2>1, <2>2, <2>3 DEF Inv, Typed, Checked, Silent, TypeOK
  <1> QED
    BY <1>1, SpecInv, PTL

\* A rule a file switches off in the built-in pack reports nothing.
THEOREM SwitchedOffRulesAreSilent == Spec => []SwitchedOffIsSilent
  <1>1. Inv => SwitchedOffIsSilent
    BY DEF Inv, Typed, Phases, Silent, SwitchedOffIsSilent
  <1> QED
    BY <1>1, SpecInv, PTL

(***************************************************************************)
(* The counts of the merge.                                                *)
(***************************************************************************)

\* The rules of the file whose id the loop over the built-in pack has met,
\* and those the loop over the file has passed over.
Met == {k \in Positions(file.rules) :
            \E j \in Positions(Builtin) : j < at /\ Builtin[j].id = file.rules[k].id}
Passed == {k \in Positions(file.rules) :
            k + Len(Builtin) < at /\ Named(Builtin, file.rules[k].id)}

AddsUp ==
    /\ Len(pack) = report.inherited + report.overridden + report.added
    /\ Len(Builtin) = report.inherited + report.overridden + report.disabled
    /\ Len(file.rules) = report.overridden + report.added + report.disabled

Counted ==
    /\ phase = "writing" => at = 1 /\ report = NoReport /\ pack = <<>>
    /\ phase = "merging" =>
          /\ at <= Len(Builtin) + Len(file.rules) + 1
          /\ Len(pack) = report.inherited + report.overridden + report.added
          /\ Cardinality(Met) = report.overridden + report.disabled
          /\ IF at <= Len(Builtin)
                THEN /\ report.inherited + report.overridden + report.disabled = at - 1
                     /\ report.added = 0
                ELSE /\ report.inherited + report.overridden + report.disabled = Len(Builtin)
                     /\ report.added + Cardinality(Passed) = at - 1 - Len(Builtin)
    /\ InForce /\ Layered => AddsUp

\* The positions of a file are finitely many.
LEMMA Finite ==
    ASSUME Inv
    PROVE  /\ Len(Builtin) \in Nat /\ Len(file.rules) \in Nat /\ Len(pack) \in Nat
           /\ IsFiniteSet(Met) /\ IsFiniteSet(Passed)
           /\ Cardinality(Met) \in Nat /\ Cardinality(Passed) \in Nat
  <1>1. Len(Builtin) \in Nat /\ Len(file.rules) \in Nat /\ Len(pack) \in Nat
    BY BuiltinType DEF Inv, Typed
  <1>2. IsFiniteSet(Positions(file.rules))
    <2>1. 1 \in Int /\ Len(file.rules) \in Int
      BY <1>1
    <2>2. IsFiniteSet(1..Len(file.rules))
      BY ONLY <2>1, FS_Interval
    <2> QED
      BY <2>2 DEF Positions
  <1>3. Met \subseteq Positions(file.rules) /\ Passed \subseteq Positions(file.rules)
    BY DEF Met, Passed
  <1>4. IsFiniteSet(Met) /\ IsFiniteSet(Passed)
    BY <1>2, <1>3, FS_Subset
  <1> QED
    BY <1>1, <1>4, FS_CardinalityType

\* In the loop over the built-in pack a step meets the rule of the file with
\* the id of the built-in rule, if there is one.
LEMMA MeetsOne ==
    ASSUME Inv, InBase, Advance, file' = file
    PROVE  /\ Overriding(Builtin[at]) = {} => Met' = Met
           /\ \A k \in Overriding(Builtin[at]) : Cardinality(Met') = Cardinality(Met) + 1
  <1> DEFINE b == Builtin[at]
  <1>1. at \in Positions(Builtin) /\ at' = at + 1 /\ at \in Nat \ {0}
    BY BuiltinType DEF Inv, Typed, InBase, Advance, Positions
  <1>2. Met' = Met \cup Overriding(b)
    BY <1>1 DEF Met, Overriding, Positions
  <1>3. \A j \in Positions(Builtin) : j < at => Builtin[j].id # b.id
    BY <1>1, BuiltinAssumption DEF IsIndexed
  <1>4. \A k \in Overriding(b) : k \notin Met
    BY <1>3 DEF Met, Overriding
  <1>5. IsIndexed(file.rules)
    BY DEF Inv, Checked, InBase
  <1>6. \A j, k \in Overriding(b) : j = k
    BY <1>5 DEF Overriding, IsIndexed
  <1>7. ASSUME NEW k \in Overriding(b) PROVE Cardinality(Met') = Cardinality(Met) + 1
    <2>1. Met' = Met \cup {k}
      BY <1>2, <1>6, <1>7
    <2>2. IsFiniteSet(Met) /\ k \notin Met
      BY <1>4, <1>7, Finite
    <2> QED
      BY <2>1, <2>2, FS_AddElement
  <1> QED
    BY <1>2, <1>7

\* In the loop over the file a step passes over the rule it stands at, if the
\* built-in pack has one of its id.
LEMMA PassesOne ==
    ASSUME Inv, InOverlay, Advance, file' = file
    PROVE  /\ Met' = Met
           /\ Named(Builtin, Entry.id) => Cardinality(Passed') = Cardinality(Passed) + 1
           /\ ~Named(Builtin, Entry.id) => Passed' = Passed
  <1> DEFINE k == at - Len(Builtin)
  <1>1. /\ Len(Builtin) \in Nat /\ Len(file.rules) \in Nat
        /\ at \in Nat /\ at > Len(Builtin) /\ at' = at + 1
        /\ k \in Positions(file.rules)
    BY Finite DEF Inv, Typed, InOverlay, Advance, Positions
  <1>2. Met' = Met
    BY <1>1 DEF Met, Positions
  <1>3. Passed' = Passed \cup (IF Named(Builtin, Entry.id) THEN {k} ELSE {})
    BY <1>1 DEF Passed, Entry, Positions
  <1>4. k \notin Passed /\ IsFiniteSet(Passed)
    BY <1>1, Finite DEF Passed
  <1>5. ASSUME Named(Builtin, Entry.id) PROVE Cardinality(Passed') = Cardinality(Passed) + 1
    <2>1. Passed' = Passed \cup {k}
      BY <1>3, <1>5
    <2> QED
      BY <1>4, <2>1, FS_AddElement
  <1> QED
    BY <1>2, <1>3, <1>5

\* At the end of both loops every rule of the file is accounted for once.
LEMMA LoopsAddUp ==
    ASSUME Inv, Counted, phase = "merging", at > Len(Builtin) + Len(file.rules)
    PROVE  AddsUp
  <1>1. /\ Len(Builtin) \in Nat /\ Len(file.rules) \in Nat /\ at \in Nat
        /\ Cardinality(Met) \in Nat /\ Cardinality(Passed) \in Nat
        /\ report \in [Counters -> Nat]
    BY Finite DEF Inv, Typed
  <1>2. at = Len(Builtin) + Len(file.rules) + 1
    <2>1. at <= Len(Builtin) + Len(file.rules) + 1
      BY DEF Counted
    <2> QED
      BY ONLY <1>1, <2>1, at > Len(Builtin) + Len(file.rules)
  <1>3. Passed = Met
    BY <1>1, <1>2 DEF Passed, Met, Named, Positions
  <1>4. /\ report.inherited \in Nat /\ report.overridden \in Nat
        /\ report.added \in Nat /\ report.disabled \in Nat
    BY <1>1 DEF Counters
  <1>5. /\ Len(pack) = report.inherited + report.overridden + report.added
        /\ Cardinality(Met) = report.overridden + report.disabled
    BY DEF Counted
  <1>6. CASE at <= Len(Builtin)
    BY <1>1, <1>2, <1>6
  <1>7. CASE ~(at <= Len(Builtin))
    <2>1. /\ report.inherited + report.overridden + report.disabled = Len(Builtin)
          /\ report.added + Cardinality(Passed) = at - 1 - Len(Builtin)
      BY <1>7 DEF Counted
    <2> QED
      BY <1>1, <1>2, <1>3, <1>4, <1>5, <2>1, SMTT(20) DEF AddsUp
  <1> QED
    BY <1>6, <1>7

LEMMA InitCounted == Init => Counted
  BY DEF Init, Counted, InForce, Layered

\* One step more in the loop over the built-in pack.
LEMMA BaseStep ==
    ASSUME Inv, Counted, InBase, Advance, UNCHANGED <<file, phase>>,
           NEW c \in {"inherited", "overridden", "disabled"}, Count(c),
           Len(pack') = Len(pack) + (IF c = "disabled" THEN 0 ELSE 1),
           Cardinality(Met') = Cardinality(Met) + (IF c = "inherited" THEN 0 ELSE 1)
    PROVE  Counted'
  <1>1. /\ Len(Builtin) \in Nat /\ Len(file.rules) \in Nat /\ Len(pack) \in Nat
        /\ Cardinality(Met) \in Nat
        /\ at \in Nat /\ at <= Len(Builtin) /\ at' = at + 1
        /\ phase = "merging" /\ phase' = "merging" /\ file' = file
    BY Finite DEF Inv, Typed, InBase, Advance
  <1>2. /\ report \in [Counters -> Nat]
        /\ report' = [report EXCEPT ![c] = @ + 1]
    BY DEF Inv, Typed, Count
  <1>3. /\ report.inherited \in Nat /\ report.overridden \in Nat
        /\ report.added \in Nat /\ report.disabled \in Nat
    BY <1>2 DEF Counters
  <1>4. /\ report'.inherited = report.inherited + (IF c = "inherited" THEN 1 ELSE 0)
        /\ report'.overridden = report.overridden + (IF c = "overridden" THEN 1 ELSE 0)
        /\ report'.disabled = report.disabled + (IF c = "disabled" THEN 1 ELSE 0)
        /\ report'.added = report.added
    BY <1>2 DEF Counters
  <1>5. /\ Len(pack) = report.inherited + report.overridden + report.added
        /\ Cardinality(Met) = report.overridden + report.disabled
        /\ report.inherited + report.overridden + report.disabled = at - 1
        /\ report.added = 0
    BY <1>1 DEF Counted
  <1>6. /\ Len(pack') = report'.inherited + report'.overridden + report'.added
        /\ Cardinality(Met') = report'.overridden + report'.disabled
        /\ report'.inherited + report'.overridden + report'.disabled = at' - 1
        /\ report'.added = 0
    <2>1. Len(pack') = report'.inherited + report'.overridden + report'.added
      BY <1>1, <1>3, <1>4, <1>5
    <2>2. Cardinality(Met') = report'.overridden + report'.disabled
      BY <1>1, <1>3, <1>4, <1>5
    <2>3. report'.inherited + report'.overridden + report'.disabled = at' - 1
      <3>1. report.inherited + report.overridden + report.disabled + 1 = at' - 1
        BY <1>1, <1>3, <1>5
      <3>2. CASE c = "inherited"
        <4>1. /\ report'.inherited = report.inherited + 1
              /\ report'.overridden = report.overridden /\ report'.disabled = report.disabled
          BY <1>3, <1>4, <3>2
        <4> QED
          BY <1>3, <3>1, <4>1
      <3>3. CASE c = "overridden"
        <4>1. /\ report'.overridden = report.overridden + 1
              /\ report'.inherited = report.inherited /\ report'.disabled = report.disabled
          BY <1>3, <1>4, <3>3
        <4> QED
          BY <1>3, <3>1, <4>1
      <3>4. CASE c = "disabled"
        BY <1>3, <1>4, <3>1, <3>4
      <3> QED
        BY <3>2, <3>3, <3>4
    <2>4. report'.added = 0
      BY <1>1, <1>3, <1>4, <1>5
    <2> QED
      BY <2>1, <2>2, <2>3, <2>4
  <1>7. at' <= Len(Builtin) + Len(file'.rules) + 1
    BY <1>1
  <1>8. CASE at' <= Len(Builtin)
    BY <1>1, <1>6, <1>7, <1>8 DEF Counted, InForce
  <1>9. CASE ~(at' <= Len(Builtin))
    <2>1. at' = Len(Builtin) + 1
      BY <1>1, <1>9
    <2>2. Passed' = {}
      BY <1>1, <2>1 DEF Passed, Positions
    <2>3. Cardinality(Passed') = 0
      BY <2>2, FS_EmptySet
    <2>4. /\ report'.inherited + report'.overridden + report'.disabled = Len(Builtin)
          /\ report'.added + Cardinality(Passed') = at' - 1 - Len(Builtin)
      BY <1>1, <1>6, <2>1, <2>3
    <2> QED
      BY <1>1, <1>6, <1>7, <1>9, <2>4 DEF Counted, InForce
  <1> QED
    BY <1>8, <1>9

\* One step more in the loop over the file: it adds a rule or passes one over.
LEMMA OverlayStep ==
    ASSUME Inv, Counted, InOverlay, Advance, UNCHANGED <<file, phase>>, NEW n \in {0, 1},
           report' = [report EXCEPT !.added = @ + n],
           Len(pack') = Len(pack) + n,
           Cardinality(Passed') = Cardinality(Passed) + 1 - n
    PROVE  Counted'
  <1>1. /\ Len(Builtin) \in Nat /\ Len(file.rules) \in Nat /\ Len(pack) \in Nat
        /\ Cardinality(Met) \in Nat /\ Cardinality(Passed) \in Nat
        /\ at \in Nat /\ at > Len(Builtin) /\ at <= Len(Builtin) + Len(file.rules)
        /\ at' = at + 1
        /\ phase = "merging" /\ phase' = "merging" /\ file' = file
    BY Finite DEF Inv, Typed, InOverlay, Advance
  <1>2. report \in [Counters -> Nat]
    BY DEF Inv, Typed
  <1>3. /\ report.inherited \in Nat /\ report.overridden \in Nat
        /\ report.added \in Nat /\ report.disabled \in Nat
    BY <1>2 DEF Counters
  <1>4. /\ report'.inherited = report.inherited /\ report'.overridden = report.overridden
        /\ report'.disabled = report.disabled /\ report'.added = report.added + n
    BY <1>2 DEF Counters
  <1>5. ~(at <= Len(Builtin)) /\ ~(at' <= Len(Builtin))
    BY <1>1
  <1>6. /\ Len(pack) = report.inherited + report.overridden + report.added
        /\ Cardinality(Met) = report.overridden + report.disabled
        /\ report.inherited + report.overridden + report.disabled = Len(Builtin)
        /\ report.added + Cardinality(Passed) = at - 1 - Len(Builtin)
    BY <1>1, <1>5 DEF Counted
  <1>7. Met' = Met
    BY PassesOne
  <1>8. /\ Len(pack') = report'.inherited + report'.overridden + report'.added
        /\ Cardinality(Met') = report'.overridden + report'.disabled
        /\ report'.inherited + report'.overridden + report'.disabled = Len(Builtin)
        /\ report'.added + Cardinality(Passed') = at' - 1 - Len(Builtin)
        /\ at' <= Len(Builtin) + Len(file'.rules) + 1
    <2>0. n \in Nat
      OBVIOUS
    <2>1. Len(pack') = report'.inherited + report'.overridden + report'.added
      <3>1. Len(pack') = (report.inherited + report.overridden + report.added) + n
        BY <1>6
      <3> QED
        BY <1>3, <1>4, <2>0, <3>1
    <2>2. Cardinality(Met') = report'.overridden + report'.disabled
      BY <1>4, <1>6, <1>7
    <2>3. report'.inherited + report'.overridden + report'.disabled = Len(Builtin)
      BY <1>4, <1>6
    <2>4. report'.added + Cardinality(Passed') = at' - 1 - Len(Builtin)
      <3>1. report.added + Cardinality(Passed) + 1 = at' - 1 - Len(Builtin)
        BY <1>1, <1>3, <1>6
      <3>2. CASE n = 0
        BY <1>1, <1>3, <1>4, <3>1, <3>2
      <3>3. CASE n = 1
        BY <1>1, <1>3, <1>4, <3>1, <3>3
      <3> QED
        BY <3>2, <3>3
    <2>5. at' <= Len(Builtin) + Len(file'.rules) + 1
      BY <1>1
    <2> QED
      BY <2>1, <2>2, <2>3, <2>4, <2>5
  <1> QED
    BY <1>1, <1>5, <1>8 DEF Counted, InForce

LEMMA NextCounted == Inv /\ Counted /\ [Next]_vars => Counted'
  <1> SUFFICES ASSUME Inv, Counted, [Next]_vars PROVE Counted'
    OBVIOUS
  <1>1. ASSUME Refuse PROVE Counted'
    BY <1>1 DEF Refuse, Counted, InForce
  <1>2. ASSUME NEW entry \in Entries, Write(entry) PROVE Counted'
    BY <1>2 DEF Write, Counted, InForce
  <1>3. ASSUME UseBuiltin PROVE Counted'
    BY <1>3 DEF UseBuiltin, Counted, Layered
  <1>4. ASSUME Load PROVE Counted'
    <2>1. CASE file.rules = <<>> \/ ~IsIndexed(file.rules)
      BY <1>1, <1>4, <2>1 DEF Load
    <2>2. CASE ~(file.rules = <<>> \/ ~IsIndexed(file.rules)) /\ ~file.extends
      BY <1>4, <2>2 DEF Load, Counted, Layered
    <2>3. CASE ~(file.rules = <<>> \/ ~IsIndexed(file.rules)) /\ file.extends
      <3>1. /\ phase = "writing" /\ phase' = "merging" /\ pack' = <<>>
            /\ file' = file /\ at' = at /\ report' = report
        BY <1>4, <2>3 DEF Load
      <3>2. at' = 1 /\ report' = NoReport
        BY <3>1 DEF Counted
      <3>3. Len(Builtin) \in Nat /\ Len(file.rules) \in Nat
        BY Finite
      <3>4. Met' = {} /\ Passed' = {}
        BY <3>2, <3>3 DEF Met, Passed, Positions
      <3>5. Cardinality(Met') = 0 /\ Cardinality(Passed') = 0
        BY <3>4, FS_EmptySet
      <3>6. /\ report'.inherited = 0 /\ report'.overridden = 0
            /\ report'.added = 0 /\ report'.disabled = 0
        BY <3>2 DEF NoReport
      <3>7. Len(pack') = 0 /\ at' <= Len(Builtin) + Len(file'.rules) + 1
        BY <3>1, <3>2, <3>3
      <3>8. ~(at' <= Len(Builtin)) => Len(Builtin) = 0
        BY <3>2, <3>3
      <3> QED
        BY <3>1, <3>2, <3>3, <3>5, <3>6, <3>7, <3>8 DEF Counted, InForce
    <2> QED
      BY <2>1, <2>2, <2>3
  <1>5. ASSUME Merge PROVE Counted'
    <2>1. /\ Len(Builtin) \in Nat /\ Len(file.rules) \in Nat /\ Len(pack) \in Nat
          /\ Cardinality(Met) \in Nat /\ Cardinality(Passed) \in Nat
      BY Finite
    <2>2. \A rule \in Rules : pack' = Append(pack, rule) => Len(pack') = Len(pack) + 1
      <3>1. pack \in Seq(Rules)
        BY DEF Inv, Typed
      <3>2. \A rule \in Rules : Len(Append(pack, rule)) = Len(pack) + 1
        BY <3>1
      <3> QED
        BY <3>2
    <2>3. \A k \in Positions(file.rules) : file.rules[k] \in Rules
      BY DEF Inv, Typed, Rules, Positions
    <2>4. CASE Inherit
      <3>1. at \in Nat \ {0} /\ at <= Len(Builtin)
        BY <2>4 DEF Inherit, InBase, Inv, Typed
      <3>3. at \in Positions(Builtin)
        BY <2>1, <3>1 DEF Positions
      <3>4. Builtin[at] \in Rules
        BY <3>3 DEF Rules
      <3>2. Cardinality(Met') = Cardinality(Met) + 0 /\ Len(pack') = Len(pack) + 1
        BY <2>1, <2>2, <2>4, <3>4, MeetsOne DEF Inherit
      <3> QED
        BY <2>4, <3>2, BaseStep DEF Inherit
    <2>5. CASE Override
      <3>1. PICK k \in Overriding(Builtin[at]) : pack' = Append(pack, file.rules[k])
        BY <2>5 DEF Override
      <3>2. file.rules[k] \in Rules
        BY <2>3 DEF Overriding
      <3>3. Cardinality(Met') = Cardinality(Met) + 1 /\ Len(pack') = Len(pack) + 1
        BY <2>2, <2>5, <3>1, <3>2, MeetsOne DEF Override
      <3> QED
        BY <2>5, <3>3, BaseStep DEF Override
    <2>6. CASE SwitchOff
      <3>1. Cardinality(Met') = Cardinality(Met) + 1 /\ Len(pack') = Len(pack) + 0
        BY <2>1, <2>6, MeetsOne DEF SwitchOff
      <3> QED
        BY <2>6, <3>1, BaseStep DEF SwitchOff
    <2>7. CASE PassOver
      <3>1. Cardinality(Passed') = Cardinality(Passed) + 1 - 0 /\ Len(pack') = Len(pack) + 0
        BY <2>1, <2>7, PassesOne DEF PassOver
      <3>2. report' = [report EXCEPT !.added = @ + 0]
        <4>1. report \in [Counters -> Nat]
          BY DEF Inv, Typed
        <4> QED
          BY <2>7, <4>1 DEF PassOver, Counters
      <3> QED
        BY <2>7, <3>1, <3>2, OverlayStep DEF PassOver
    <2>8. CASE Add
      <3>1. at - Len(Builtin) \in Positions(file.rules)
        BY <2>1, <2>8 DEF Add, InOverlay, Inv, Typed, Positions
      <3>2. Entry \in Rules
        BY <2>3, <3>1 DEF Entry
      <3>3. Len(pack') = Len(pack) + 1
        BY <2>2, <2>8, <3>2 DEF Add
      <3>4. Cardinality(Passed') = Cardinality(Passed) + 1 - 1
        BY <2>1, <2>8, PassesOne DEF Add
      <3> QED
        BY <2>8, <3>3, <3>4, OverlayStep DEF Add, Count
    <2>9. CASE RefuseMisspelling
      BY <1>1, <2>9 DEF RefuseMisspelling
    <2>10. CASE MergeEnds
      <3>1. CASE pack = <<>> \/ ~IsIndexed(pack)
        BY <1>1, <2>10, <3>1 DEF MergeEnds
      <3>2. CASE ~(pack = <<>> \/ ~IsIndexed(pack))
        <4>1. AddsUp
          BY <2>10, LoopsAddUp DEF MergeEnds
        <4> QED
          BY <2>10, <3>2, <4>1 DEF MergeEnds, Counted, AddsUp
      <3> QED
        BY <3>1, <3>2
    <2> QED
      BY <1>5, <2>4, <2>5, <2>6, <2>7, <2>8, <2>9, <2>10 DEF Merge
  <1>6. ASSUME Build PROVE Counted'
    BY <1>1, <1>6 DEF Build, Counted, InForce, Layered, AddsUp
  <1>7. ASSUME Detect \/ Crash \/ Finish PROVE Counted'
    BY <1>7 DEF Detect, Crash, Finish, Counted, InForce, Layered, AddsUp
  <1>8. ASSUME Restart PROVE Counted'
    BY <1>8 DEF Restart, Counted, InForce
  <1>9. CASE UNCHANGED vars
    BY <1>9 DEF vars, Counted, InForce, Layered, AddsUp, Met, Passed
  <1> QED
    BY <1>2, <1>3, <1>4, <1>5, <1>6, <1>7, <1>8, <1>9 DEF Next

\* What the scan announces of a pack file laid over the built-in pack is what
\* runs: every built-in rule and every rule of the file is accounted for once.
THEOREM AnnouncementsAddUp == Spec => []AnnouncedIsInForce
  <1>1. Inv /\ Counted => AnnouncedIsInForce
    BY DEF Counted, AddsUp, AnnouncedIsInForce
  <1> QED
    BY <1>1, InitInv, NextInv, InitCounted, NextCounted, PTL DEF Spec

(***************************************************************************)
(* What the file does not name stays, in its order.                        *)
(***************************************************************************)

Inherited(k) == k \in Positions(Builtin) /\ ~Named(file.rules, Builtin[k].id)

\* The built-in rule at k is in the pack, after every inherited one before it.
Keeps(k) ==
    \E q \in Positions(pack) :
        /\ pack[q] = Builtin[k]
        /\ \A j \in Positions(Builtin) :
              Inherited(j) /\ j < k => \E p \in Positions(pack) : p < q /\ pack[p] = Builtin[j]

KeptSoFar ==
    /\ phase = "merging" => \A k \in Positions(Builtin) : Inherited(k) /\ k < at => Keeps(k)
    /\ InForce /\ Layered => \A k \in Positions(Builtin) : Inherited(k) => Keeps(k)

\* A pack that grows at its end keeps what it kept.
LEMMA GrowingKeeps ==
    ASSUME pack \in Seq(Rules), NEW rule \in Rules, pack' = Append(pack, rule), file' = file,
           NEW k \in Positions(Builtin), Keeps(k)
    PROVE  Keeps(k)'
  <1>1. \A p \in Positions(pack) : p \in Positions(pack)' /\ pack'[p] = pack[p]
    <2>1. \A p \in Positions(pack) : p \in 1..Len(Append(pack, rule)) /\ Append(pack, rule)[p] = pack[p]
      BY DEF Positions
    <2> QED
      BY <2>1 DEF Positions
  <1>2. PICK q \in Positions(pack) :
        /\ pack[q] = Builtin[k]
        /\ \A j \in Positions(Builtin) :
              Inherited(j) /\ j < k => \E p \in Positions(pack) : p < q /\ pack[p] = Builtin[j]
    BY DEF Keeps
  <1>3. \A j : Inherited(j)' <=> Inherited(j)
    BY DEF Inherited, Named
  <1>4. q \in Positions(pack)' /\ pack'[q] = Builtin[k]
    BY <1>1, <1>2
  <1>5. ASSUME NEW j \in Positions(Builtin), Inherited(j)', j < k
        PROVE  \E p \in Positions(pack)' : p < q /\ pack'[p] = Builtin[j]
    <2>1. PICK p \in Positions(pack) : p < q /\ pack[p] = Builtin[j]
      BY <1>2, <1>3, <1>5
    <2> QED
      BY <1>1, <2>1
  <1> QED
    BY <1>4, <1>5 DEF Keeps

LEMMA NextKept == Inv /\ Counted /\ KeptSoFar /\ [Next]_vars => KeptSoFar'
  <1> SUFFICES ASSUME Inv, Counted, KeptSoFar, [Next]_vars PROVE KeptSoFar'
    OBVIOUS
  <1>1. ASSUME file' = file, pack' = pack, NEW k PROVE Keeps(k)' <=> Keeps(k)
    BY <1>1 DEF Keeps, Inherited, Named
  <1>2. ASSUME file' = file, NEW k PROVE Inherited(k)' <=> Inherited(k)
    BY <1>2 DEF Inherited, Named
  <1>3. ASSUME Merge PROVE KeptSoFar'
    <2>1. pack \in Seq(Rules) /\ Len(Builtin) \in Nat /\ at \in Nat
      BY Finite DEF Inv, Typed
    <2>2. \A k \in Positions(file.rules) : file.rules[k] \in Rules
      BY DEF Inv, Typed, Rules, Positions
    <2>3. \A k \in Positions(Builtin) : Builtin[k] \in Rules
      BY DEF Rules
    <2>4. ASSUME NEW rule \in Rules, pack' = Append(pack, rule), file' = file,
                 phase = "merging", phase' = "merging", at' = at + 1,
                 \A k \in Positions(Builtin) : k = at /\ Inherited(k) => rule = Builtin[k]
          PROVE  KeptSoFar'
      <3>1. ASSUME NEW k \in Positions(Builtin), Inherited(k), k < at PROVE Keeps(k)'
        BY <2>1, <2>4, <3>1, GrowingKeeps DEF KeptSoFar
      <3>2. ASSUME NEW k \in Positions(Builtin), Inherited(k), k = at PROVE Keeps(k)'
        <4>1. Len(pack) + 1 \in 1..Len(Append(pack, rule)) /\ Append(pack, rule)[Len(pack) + 1] = rule
          BY <2>1
        <4>2. Len(pack) + 1 \in Positions(pack)' /\ pack'[Len(pack) + 1] = Builtin[k]
          BY <2>4, <3>2, <4>1 DEF Positions
        <4>3. ASSUME NEW j \in Positions(Builtin), Inherited(j), j < k
              PROVE  \E p \in Positions(pack)' : p < Len(pack) + 1 /\ pack'[p] = Builtin[j]
          <5>1. PICK p \in Positions(pack) : pack[p] = Builtin[j]
            BY <2>4, <3>2, <4>3 DEF KeptSoFar, Keeps
          <5>2. p \in 1..Len(Append(pack, rule)) /\ Append(pack, rule)[p] = pack[p] /\ p < Len(pack) + 1
            BY <2>1 DEF Positions
          <5> QED
            BY <2>4, <5>1, <5>2 DEF Positions
        <4> QED
          BY <1>2, <2>4, <4>2, <4>3 DEF Keeps
      <3>3. \A k \in Positions(Builtin) : k < at + 1 => k < at \/ k = at
        BY <2>1 DEF Positions
      <3> QED
        BY <1>2, <2>4, <3>1, <3>2, <3>3 DEF KeptSoFar, InForce
    <2>5. ASSUME pack' = pack, file' = file, phase = "merging", phase' = "merging", at' = at + 1,
                 \A k \in Positions(Builtin) : k = at => ~Inherited(k)
          PROVE  KeptSoFar'
      <3>1. \A k \in Positions(Builtin) : k < at + 1 => k < at \/ k = at
        BY <2>1 DEF Positions
      <3> QED
        BY <1>1, <1>2, <2>5, <3>1 DEF KeptSoFar, InForce
    <2>6. CASE Inherit
      <3>1. at \in Positions(Builtin)
        BY <2>1, <2>6 DEF Inherit, InBase, Inv, Typed, Positions
      <3> QED
        BY <2>3, <2>4, <2>6, <3>1 DEF Inherit, InBase, Advance
    <2>7. CASE Override
      <3>1. PICK k \in Overriding(Builtin[at]) : pack' = Append(pack, file.rules[k])
        BY <2>7 DEF Override
      <3>2. file.rules[k] \in Rules /\ Named(file.rules, Builtin[at].id)
        BY <2>2 DEF Overriding, Named
      <3> QED
        BY <2>4, <2>7, <3>1, <3>2 DEF Override, InBase, Advance, Inherited
    <2>8. CASE SwitchOff
      <3>1. Named(file.rules, Builtin[at].id)
        BY <2>8 DEF SwitchOff, Overriding, Named
      <3> QED
        BY <2>5, <2>8, <3>1 DEF SwitchOff, InBase, Advance, Inherited
    <2>9. InOverlay => \A k \in Positions(Builtin) : k # at
      BY <2>1 DEF InOverlay, Positions
    <2>10. CASE PassOver
      BY <2>5, <2>9, <2>10 DEF PassOver, InOverlay, Advance
    <2>11. CASE Add
      <3>1. at - Len(Builtin) \in Positions(file.rules)
        BY <2>11, Finite DEF Add, InOverlay, Inv, Typed, Positions
      <3>2. Entry \in Rules
        BY <2>2, <3>1 DEF Entry
      <3> QED
        BY <2>4, <2>9, <2>11, <3>2 DEF Add, InOverlay, Advance
    <2>12. CASE RefuseMisspelling
      BY <2>12 DEF RefuseMisspelling, Refuse, KeptSoFar, InForce
    <2>13. CASE MergeEnds
      <3>1. \A k \in Positions(Builtin) : k < at
        BY <2>1, <2>13, Finite DEF MergeEnds, Positions
      <3>2. file' = file /\ pack' = pack /\ phase = "merging" /\ phase' # "merging"
        BY <2>13 DEF MergeEnds, Refuse
      <3> QED
        BY <1>1, <1>2, <3>1, <3>2 DEF KeptSoFar
    <2> QED
      BY <1>3, <2>6, <2>7, <2>8, <2>10, <2>11, <2>12, <2>13 DEF Merge
  <1>4. ASSUME Load PROVE KeptSoFar'
    <2>1. phase = "writing" /\ file' = file /\ at' = at /\ (phase' = "building" => ~file.extends)
      BY <1>4 DEF Load, Refuse
    <2>2. at = 1
      BY <2>1 DEF Counted
    <2>3. \A k \in Positions(Builtin) : ~(k < 1)
      BY DEF Positions
    <2> QED
      BY <1>4, <2>1, <2>2, <2>3 DEF KeptSoFar, InForce, Layered, Load, Refuse
  <1>5. ASSUME \/ \E entry \in Entries : Write(entry)
               \/ UseBuiltin
               \/ Restart
        PROVE  KeptSoFar'
    BY <1>5 DEF Write, UseBuiltin, Restart, KeptSoFar, InForce, Layered
  <1>6. ASSUME Build \/ Detect \/ Crash \/ Finish PROVE KeptSoFar'
    <2>1. /\ file' = file /\ pack' = pack
          /\ phase' # "merging" /\ InForce
      BY <1>6 DEF Build, Refuse, Detect, Crash, Finish, InForce
    <2> QED
      BY <1>1, <1>2, <2>1 DEF KeptSoFar, Layered
  <1>7. CASE UNCHANGED vars
    BY <1>1, <1>2, <1>7 DEF vars, KeptSoFar, InForce, Layered
  <1> QED
    BY <1>3, <1>4, <1>5, <1>6, <1>7 DEF Next

\* A built-in rule that a file does not name is in the pack that runs, behind
\* every such rule that stood before it (merge: "Replacements retain their
\* original position"; nothing else moves).
THEOREM InheritedRulesStay ==
    Spec => [](InForce /\ Layered => \A k \in Positions(Builtin) : Inherited(k) => Keeps(k))
  <1>1. Init => KeptSoFar
    BY DEF Init, KeptSoFar, InForce
  <1>2. KeptSoFar => (InForce /\ Layered => \A k \in Positions(Builtin) : Inherited(k) => Keeps(k))
    BY DEF KeptSoFar
  <1> QED
    BY <1>1, <1>2, InitInv, NextInv, InitCounted, NextCounted, NextKept, PTL DEF Spec

(***************************************************************************)
(* The merge, exactly.                                                     *)
(***************************************************************************)

Enabled(e) == e \in Positions(file.rules) /\ ~file.rules[e].disabled
HasRule(rule) == \E p \in Positions(pack) : pack[p] = rule
Comes(p) == \/ \E k \in Positions(Builtin) : Inherited(k) /\ pack[p] = Builtin[k]
            \/ \E e \in Positions(file.rules) : Enabled(e) /\ pack[p] = file.rules[e]

\* The rules that stand for built-in rules stand in their order, before the
\* rules the file adds, which stand in the order of the file.
InBuiltinOrder ==
    \A j, k \in Positions(Builtin), p, q \in Positions(pack) :
        j < k /\ pack[p].id = Builtin[j].id /\ pack[q].id = Builtin[k].id => p < q
AddedLast ==
    \A p, q \in Positions(pack) :
        Named(Builtin, pack[p].id) /\ ~Named(Builtin, pack[q].id) => p < q
InFileOrder ==
    \A d, e \in Positions(file.rules), p, q \in Positions(pack) :
        /\ d < e /\ ~Named(Builtin, file.rules[d].id) /\ ~Named(Builtin, file.rules[e].id)
        /\ pack[p].id = file.rules[d].id /\ pack[q].id = file.rules[e].id
        => p < q

Merging == phase = "merging"
Placed ==
    Merging \/ (InForce /\ Layered) =>
        /\ \A p \in Positions(pack) : Comes(p)
        /\ \A k \in Positions(Builtin), e \in Positions(file.rules) :
              Enabled(e) /\ file.rules[e].id = Builtin[k].id /\ (Merging => k < at)
                 => HasRule(file.rules[e])
        /\ \A e \in Positions(file.rules) :
              Enabled(e) /\ ~Named(Builtin, file.rules[e].id)
                 /\ (Merging => e + Len(Builtin) < at) => HasRule(file.rules[e])
        /\ InBuiltinOrder /\ AddedLast /\ InFileOrder
        /\ Merging =>
              \A p \in Positions(pack) :
                 /\ \A k \in Positions(Builtin) : pack[p].id = Builtin[k].id => k < at
                 /\ ~Named(Builtin, pack[p].id) => at > Len(Builtin)
                 /\ \A e \in Positions(file.rules) :
                       ~Named(Builtin, pack[p].id) /\ pack[p].id = file.rules[e].id
                          => e + Len(Builtin) < at

\* One rule more, at its place.
LEMMA PlacedAppend ==
    ASSUME Inv, Placed, Merging, Merging', NEW rule \in Rules, pack' = Append(pack, rule),
           UNCHANGED file, at' = at + 1,
           \/ \E k \in Positions(Builtin) : Inherited(k) /\ rule = Builtin[k]
           \/ \E e \in Positions(file.rules) : Enabled(e) /\ rule = file.rules[e],
           \/ at \in Positions(Builtin) /\ rule.id = Builtin[at].id
           \/ InOverlay /\ ~Named(Builtin, rule.id) /\ rule = Entry
    PROVE  Placed'
  <1>1. /\ Len(Builtin) \in Nat /\ Len(file.rules) \in Nat /\ Len(pack) \in Nat /\ at \in Nat
        /\ pack \in Seq(Rules)
    BY Finite DEF Inv, Typed
  <1>0. PICK n \in Nat : n = Len(pack) + 1
    BY <1>1
  <1>2. /\ \A p \in Positions(pack') : p \in Positions(pack) \/ p = n
        /\ \A p \in Positions(pack) : p \in Positions(pack') /\ pack'[p] = pack[p] /\ p < n
        /\ n \in Positions(pack') /\ pack'[n] = rule
    BY <1>0, <1>1 DEF Positions
  <1>3. \A k : Inherited(k)' <=> Inherited(k)
    BY DEF Inherited, Named
  <1>4. \A e : Enabled(e)' <=> Enabled(e)
    BY DEF Enabled
  <1>5. \A r : HasRule(r) => HasRule(r)'
    BY <1>2 DEF HasRule
  <1>6. HasRule(rule)'
    BY <1>2 DEF HasRule
  <1>7. \A p \in Positions(pack') : Comes(p)'
    <2>1. \A p \in Positions(pack) : Comes(p)'
      BY <1>2, <1>3, <1>4, ZenonT(40) DEF Placed, Comes
    <2>2. Comes(n)'
      BY <1>2, <1>3, <1>4 DEF Comes
    <2> QED BY <1>2, <2>1, <2>2
  <1>8. IsIndexed(file.rules) /\ IsIndexed(Builtin)
    BY BuiltinAssumption DEF Inv, Checked, Merging
  <1>9. CASE at \in Positions(Builtin) /\ rule.id = Builtin[at].id
    <2>1. \A k \in Positions(Builtin) : Builtin[k].id = rule.id => k = at
      BY <1>8, <1>9 DEF IsIndexed
    <2>2. Named(Builtin, rule.id) /\ at <= Len(Builtin)
      BY <1>1, <1>9 DEF Named, Positions
    <2>3. ASSUME NEW k \in Positions(Builtin), NEW e \in Positions(file.rules), Enabled(e),
                 file.rules[e].id = Builtin[k].id, k < at + 1
          PROVE  HasRule(file.rules[e])'
      <3>1. CASE k < at
        BY <1>5, <2>3, <3>1 DEF Placed
      <3>2. CASE k = at
        <4>1. ~Inherited(k)
          BY <2>3 DEF Inherited, Named
        <4>2. PICK d \in Positions(file.rules) : rule = file.rules[d]
          <5>1. \A j \in Positions(Builtin) : Inherited(j) => rule # Builtin[j]
            BY <2>1, <3>2, <4>1
          <5> QED BY <5>1
        <4>3. d = e
          BY <1>8, <1>9, <2>3, <3>2, <4>2 DEF IsIndexed
        <4> QED BY <1>6, <4>2, <4>3
      <3> QED BY <1>1, <2>3, <3>1, <3>2 DEF Positions
    <2>4. ASSUME NEW e \in Positions(file.rules), e + Len(Builtin) < at + 1
          PROVE  FALSE
      BY <1>1, <2>2, <2>4 DEF Positions
    <2>5. \A p \in Positions(pack) : Named(Builtin, pack[p].id)
      BY <1>1, <2>2 DEF Placed
    <2>6. \A p \in Positions(pack') : Named(Builtin, pack'[p].id)
      BY <1>2, <2>2, <2>5
    <2>7. InBuiltinOrder'
      <3> SUFFICES ASSUME NEW j \in Positions(Builtin), NEW k \in Positions(Builtin),
                          NEW p \in Positions(pack'), NEW q \in Positions(pack'),
                          j < k, pack'[p].id = Builtin[j].id, pack'[q].id = Builtin[k].id
                   PROVE  p < q
        BY DEF InBuiltinOrder
      <3>1. \A i \in Positions(pack), m \in Positions(Builtin) : pack[i].id = Builtin[m].id => m < at
        BY DEF Placed
      <3>2. CASE p = n
        <4>1. j = at
          BY <1>2, <2>1, <3>2
        <4>2. q # n
          BY <1>1, <1>2, <2>1, <4>1, SMTT(20) DEF Positions
        <4>3. k < at
          BY <1>2, <3>1, <4>2
        <4> QED BY <1>1, <4>1, <4>3 DEF Positions
      <3>3. CASE p \in Positions(pack) /\ q = n
        BY <1>2, <3>3
      <3>4. CASE p \in Positions(pack) /\ q \in Positions(pack)
        BY <1>2, <3>4 DEF Placed, InBuiltinOrder
      <3> QED BY <1>2, <3>2, <3>3, <3>4
    <2>8. AddedLast'
      BY <2>6 DEF AddedLast
    <2>9. InFileOrder'
      <3> SUFFICES ASSUME NEW d \in Positions(file.rules), ~Named(Builtin, file.rules[d].id),
                          NEW p \in Positions(pack'), pack'[p].id = file.rules[d].id
                   PROVE  FALSE
        BY DEF InFileOrder
      <3> QED BY <2>6
    <2>10. \A p \in Positions(pack'), k \in Positions(Builtin) : pack'[p].id = Builtin[k].id => k < at + 1
      <3>1. \A p \in Positions(pack), k \in Positions(Builtin) : pack[p].id = Builtin[k].id => k < at
        BY DEF Placed
      <3>2. \A k \in Positions(Builtin) : rule.id = Builtin[k].id => k < at + 1
        BY <1>1, <2>1 DEF Positions
      <3>3. \A k \in Positions(Builtin) : k < at => k < at + 1
        BY <1>1 DEF Positions
      <3> QED BY <1>2, <3>1, <3>2, <3>3
    <2> QED BY <1>4, <1>7, <2>3, <2>4, <2>6, <2>7, <2>8, <2>9, <2>10 DEF Placed, Merging
  <1>10. CASE InOverlay /\ ~Named(Builtin, rule.id) /\ rule = Entry
    <2> DEFINE e0 == at - Len(Builtin)
    <2>1. /\ e0 \in Positions(file.rules) /\ rule = file.rules[e0] /\ e0 + Len(Builtin) = at
          /\ at > Len(Builtin)
      BY <1>1, <1>10, SMTT(20) DEF InOverlay, Entry, Positions
    <2>2. \A e \in Positions(file.rules) : file.rules[e].id = rule.id => e = e0
      BY <1>8, <2>1 DEF IsIndexed
    <2> HIDE DEF e0
    <2>3. \A k \in Positions(Builtin) : k < at /\ k < at + 1 /\ rule.id # Builtin[k].id
      BY <1>1, <1>10, <2>1 DEF Positions, Named
    <2>4. ASSUME NEW k \in Positions(Builtin), NEW e \in Positions(file.rules), Enabled(e),
                 file.rules[e].id = Builtin[k].id
          PROVE  HasRule(file.rules[e])'
      BY <1>5, <2>3, <2>4 DEF Placed
    <2>5. ASSUME NEW e \in Positions(file.rules), Enabled(e), ~Named(Builtin, file.rules[e].id),
                 e + Len(Builtin) < at + 1
          PROVE  HasRule(file.rules[e])'
      <3>1. CASE e = e0
        BY <1>6, <2>1, <3>1
      <3>2. CASE e # e0
        <4>1. e + Len(Builtin) < at
          BY <1>1, <2>1, <2>5, <3>2 DEF Positions
        <4> QED BY <1>5, <2>5, <4>1 DEF Placed
      <3> QED BY <3>1, <3>2
    <2>6. InBuiltinOrder'
      <3> SUFFICES ASSUME NEW j \in Positions(Builtin), NEW k \in Positions(Builtin),
                          NEW p \in Positions(pack'), NEW q \in Positions(pack'),
                          j < k, pack'[p].id = Builtin[j].id, pack'[q].id = Builtin[k].id
                   PROVE  p < q
        BY DEF InBuiltinOrder
      <3>1. p \in Positions(pack) /\ q \in Positions(pack)
        BY <1>2, <2>3
      <3> QED BY <1>2, <3>1 DEF Placed, InBuiltinOrder
    <2>7. AddedLast'
      <3> SUFFICES ASSUME NEW p \in Positions(pack'), NEW q \in Positions(pack'),
                          Named(Builtin, pack'[p].id), ~Named(Builtin, pack'[q].id)
                   PROVE  p < q
        BY DEF AddedLast
      <3>1. p \in Positions(pack)
        BY <1>2, <1>10
      <3>2. CASE q = n
        BY <1>2, <3>1, <3>2
      <3>3. CASE q \in Positions(pack)
        BY <1>2, <3>1, <3>3 DEF Placed, AddedLast
      <3> QED BY <1>2, <3>2, <3>3
    <2>8. InFileOrder'
      <3> SUFFICES ASSUME NEW d \in Positions(file.rules), NEW e \in Positions(file.rules),
                          NEW p \in Positions(pack'), NEW q \in Positions(pack'), d < e,
                          ~Named(Builtin, file.rules[d].id), ~Named(Builtin, file.rules[e].id),
                          pack'[p].id = file.rules[d].id, pack'[q].id = file.rules[e].id
                   PROVE  p < q
        BY DEF InFileOrder
      <3>1. CASE p = n
        <4>1. d = e0
          BY <1>2, <2>2, <3>1
        <4>2. q # n
          BY <1>2, <2>2, <4>1, SMTT(20) DEF Positions
        <4>3. e + Len(Builtin) < at
          BY <1>2, <4>2 DEF Placed
        <4> QED BY <1>1, <2>1, <4>1, <4>3 DEF Positions
      <3>2. CASE p \in Positions(pack) /\ q = n
        BY <1>2, <3>2
      <3>3. CASE p \in Positions(pack) /\ q \in Positions(pack)
        BY <1>2, <3>3 DEF Placed, InFileOrder
      <3> QED BY <1>2, <3>1, <3>2, <3>3
    <2>9. ASSUME NEW p \in Positions(pack'), NEW e \in Positions(file.rules),
                 ~Named(Builtin, pack'[p].id), pack'[p].id = file.rules[e].id
          PROVE  e + Len(Builtin) < at + 1
      <3>1. CASE p = n
        <4>1. e = e0
          BY <1>2, <2>2, <2>9, <3>1
        <4> QED BY <1>1, <2>1, <4>1
      <3>2. CASE p \in Positions(pack)
        <4>1. e + Len(Builtin) < at
          BY <1>2, <2>9, <3>2 DEF Placed
        <4> QED BY <1>1, <4>1 DEF Positions
      <3> QED BY <1>2, <3>1, <3>2
    <2>10. at + 1 > Len(Builtin)
      BY <1>1, <2>1
    <2> QED BY <1>4, <1>7, <2>3, <2>4, <2>5, <2>6, <2>7, <2>8, <2>9, <2>10 DEF Placed, Merging
  <1> QED BY <1>9, <1>10

\* Nothing in it changes.
LEMMA PlacedStays ==
    ASSUME Placed, UNCHANGED <<file, pack>>,
           Merging' \/ (InForce' /\ Layered') => Merging \/ (InForce /\ Layered),
           Merging' => Merging /\ at' = at,
           Merging /\ ~Merging' => at > Len(Builtin) + Len(file.rules),
           Len(Builtin) \in Nat, Len(file.rules) \in Nat, at \in Nat
    PROVE  Placed'
  <1>1. /\ \A p : Comes(p)' <=> Comes(p)
        /\ \A e : Enabled(e)' <=> Enabled(e)
        /\ \A r : HasRule(r)' <=> HasRule(r)
    BY DEF Comes, Enabled, HasRule, Inherited, Named
  <1>2. /\ InBuiltinOrder' <=> InBuiltinOrder
        /\ AddedLast' <=> AddedLast
        /\ InFileOrder' <=> InFileOrder
    BY DEF InBuiltinOrder, AddedLast, InFileOrder
  <1>3. Merging /\ ~Merging' => /\ \A k \in Positions(Builtin) : k < at
                                /\ \A e \in Positions(file.rules) : e + Len(Builtin) < at
    BY DEF Positions
  <1>4. CASE Merging'
    BY <1>1, <1>2, <1>4 DEF Placed
  <1>5. CASE ~Merging' /\ Merging
    BY <1>1, <1>2, <1>3, <1>5 DEF Placed
  <1>6. CASE ~Merging' /\ ~Merging
    BY <1>1, <1>2, <1>6 DEF Placed
  <1> QED BY <1>4, <1>5, <1>6

LEMMA NextPlaced == Inv /\ Counted /\ Placed /\ [Next]_vars => Placed'
  <1> SUFFICES ASSUME Inv, Counted, Placed, [Next]_vars PROVE Placed'
    OBVIOUS
  <1>1. /\ Len(Builtin) \in Nat /\ Len(file.rules) \in Nat /\ at \in Nat \ {0}
        /\ \A e \in Positions(file.rules) : file.rules[e] \in Rules
        /\ \A k \in Positions(Builtin) : Builtin[k] \in Rules
    BY Finite DEF Inv, Typed, Rules, Positions
  <1>2. InBase => at \in Positions(Builtin)
    BY <1>1 DEF InBase, Positions
  <1>3. InOverlay => at - Len(Builtin) \in Positions(file.rules)
    BY <1>1 DEF InOverlay, Positions
  <1>4. CASE Inherit
    <2>1. Inherited(at)
      BY <1>2, <1>4 DEF Inherit, Inherited, Overriding, Named
    <2> QED BY <1>1, <1>2, <1>4, <2>1, PlacedAppend DEF Inherit, InBase, Merging, Advance
  <1>5. CASE Override
    <2>1. PICK e \in Overriding(Builtin[at]) :
              ~file.rules[e].disabled /\ pack' = Append(pack, file.rules[e])
      BY <1>5 DEF Override
    <2>2. Enabled(e) /\ e \in Positions(file.rules) /\ file.rules[e].id = Builtin[at].id
      BY <2>1 DEF Enabled, Overriding
    <2> QED BY <1>1, <1>2, <1>5, <2>1, <2>2, PlacedAppend DEF Override, InBase, Merging, Advance
  <1>6. CASE Add
    <2>1. Enabled(at - Len(Builtin)) /\ Entry = file.rules[at - Len(Builtin)]
      BY <1>3, <1>6 DEF Add, Enabled, Entry
    <2> QED BY <1>1, <1>3, <1>6, <2>1, PlacedAppend DEF Add, InOverlay, Merging, Advance
  <1>7. CASE SwitchOff \/ PassOver
    <2>1. /\ UNCHANGED <<file, pack>> /\ Merging /\ Merging' /\ at' = at + 1
      BY <1>7 DEF SwitchOff, PassOver, InBase, InOverlay, Merging, Advance
    <2>2. /\ \A p : Comes(p)' <=> Comes(p)
          /\ \A e : Enabled(e)' <=> Enabled(e)
          /\ \A r : HasRule(r)' <=> HasRule(r)
      BY <2>1 DEF Comes, Enabled, HasRule, Inherited, Named
    <2>3. /\ InBuiltinOrder' <=> InBuiltinOrder
          /\ AddedLast' <=> AddedLast
          /\ InFileOrder' <=> InFileOrder
      BY <2>1 DEF InBuiltinOrder, AddedLast, InFileOrder
    <2>4. /\ \A k \in Positions(Builtin) : k < at + 1 => k < at \/ k = at
          /\ \A k \in Positions(Builtin) : k < at => k < at + 1
          /\ \A e \in Positions(file.rules) :
                e + Len(Builtin) < at + 1 => e + Len(Builtin) < at \/ e + Len(Builtin) = at
          /\ \A e \in Positions(file.rules) : e + Len(Builtin) < at => e + Len(Builtin) < at + 1
          /\ at > Len(Builtin) => at + 1 > Len(Builtin)
      BY <1>1 DEF Positions
    <2>5. ASSUME NEW e \in Positions(file.rules), Enabled(e), e + Len(Builtin) = at
          PROVE  Named(Builtin, file.rules[e].id)
      <3>1. e = at - Len(Builtin) /\ at > Len(Builtin)
        BY <1>1, <2>5 DEF Positions
      <3>2. ~SwitchOff
        BY <1>1, <3>1 DEF SwitchOff, InBase
      <3> QED BY <1>7, <3>1, <3>2 DEF PassOver, Entry
    <2>6. ASSUME NEW e \in Positions(file.rules), Enabled(e),
                 NEW k \in Positions(Builtin), k = at, file.rules[e].id = Builtin[k].id
          PROVE  FALSE
      <3>1. SwitchOff
        BY <1>1, <1>7, <2>6 DEF PassOver, InOverlay, Positions
      <3>2. PICK d \in Overriding(Builtin[at]) : file.rules[d].disabled
        BY <3>1 DEF SwitchOff
      <3>3. IsIndexed(file.rules)
        BY <2>1 DEF Inv, Checked, Merging
      <3>4. d = e
        BY <2>6, <3>2, <3>3 DEF IsIndexed, Overriding
      <3> QED BY <2>6, <3>2, <3>4 DEF Enabled
    <2> QED BY <2>1, <2>2, <2>3, <2>4, <2>5, <2>6 DEF Placed
  <1>8. CASE RefuseMisspelling
    BY <1>8 DEF RefuseMisspelling, Refuse, Placed, Merging, InForce
  <1>9. CASE MergeEnds
    <2>1. /\ UNCHANGED <<file, pack>> /\ Merging /\ ~Merging'
          /\ at > Len(Builtin) + Len(file.rules)
      BY <1>9 DEF MergeEnds, Refuse, Merging
    <2> QED BY <1>1, <2>1, PlacedStays
  <1>10. CASE Load
    <2>1. CASE ~Merging'
      <3>1. ~(InForce' /\ Layered')
        BY <1>10, <2>1 DEF Load, Refuse, InForce, Layered, Merging
      <3> QED BY <2>1, <3>1 DEF Placed
    <2>2. CASE Merging'
      <3>1. pack' = <<>> /\ at' = 1 /\ file' = file
        BY <1>10, <2>2 DEF Load, Refuse, Merging, Counted
      <3>2. Positions(pack') = {}
        BY <3>1 DEF Positions
      <3>3. \A k \in Positions(Builtin) : ~(k < 1)
        BY DEF Positions
      <3>4. \A e \in Positions(file.rules) : ~(e + Len(Builtin) < 1)
        BY <1>1 DEF Positions
      <3>5. InBuiltinOrder' /\ AddedLast' /\ InFileOrder'
        BY <3>2 DEF InBuiltinOrder, AddedLast, InFileOrder
      <3> QED BY <2>2, <3>1, <3>2, <3>3, <3>4, <3>5 DEF Placed
    <2> QED BY <2>1, <2>2
  <1>11. CASE (\E entry \in Entries : Write(entry)) \/ UseBuiltin \/ Restart
    BY <1>11 DEF Write, UseBuiltin, Restart, Placed, Merging, InForce, Layered
  <1>12. CASE Build \/ Detect \/ Crash \/ Finish
    <2>1. UNCHANGED <<file, pack>> /\ InForce /\ ~Merging /\ ~Merging'
      BY <1>12 DEF Build, Refuse, Detect, Crash, Finish, InForce, Merging
    <2>2. Layered' => Layered
      BY <2>1 DEF Layered
    <2> QED BY <1>1, <2>1, <2>2, PlacedStays
  <1>13. CASE UNCHANGED vars
    <2>1. UNCHANGED <<file, pack, at>> /\ (Merging' <=> Merging) /\ (InForce' <=> InForce)
          /\ (Layered' <=> Layered)
      BY <1>13 DEF vars, Merging, InForce, Layered
    <2> QED BY <1>1, <2>1, PlacedStays
  <1> QED
    BY <1>4, <1>5, <1>6, <1>7, <1>8, <1>9, <1>10, <1>11, <1>12, <1>13 DEF Next, Merge

LEMMA PlacedAlways == Spec => [](Inv /\ Placed)
  <1>1. Init => Placed
    BY DEF Init, Placed, Merging, InForce
  <1> QED
    BY <1>1, InitInv, NextInv, InitCounted, NextCounted, NextPlaced, PTL DEF Spec

\* The merge, whole: each rule in force is a built-in rule the file does not
\* name or a rule of the file that is not switched off, each of these is in
\* force, and they stand in the order of the built-in pack with the rules the
\* file adds behind, in its own (merge: "Replacements retain their original
\* position; new IDs append").
THEOREM MergeIsExact ==
    Spec => [](InForce /\ Layered =>
                  /\ \A p \in Positions(pack) : Comes(p)
                  /\ \A k \in Positions(Builtin) : Inherited(k) => HasRule(Builtin[k])
                  /\ \A e \in Positions(file.rules) : Enabled(e) => HasRule(file.rules[e])
                  /\ InBuiltinOrder /\ AddedLast /\ InFileOrder)
  <1>1. Init => KeptSoFar
    BY DEF Init, KeptSoFar, InForce
  <1>2. ASSUME Placed, KeptSoFar, InForce, Layered
        PROVE  /\ \A p \in Positions(pack) : Comes(p)
               /\ \A k \in Positions(Builtin) : Inherited(k) => HasRule(Builtin[k])
               /\ \A e \in Positions(file.rules) : Enabled(e) => HasRule(file.rules[e])
               /\ InBuiltinOrder /\ AddedLast /\ InFileOrder
    <2>1. ~Merging
      BY <1>2 DEF Merging, InForce
    <2>2. \A k \in Positions(Builtin) : Inherited(k) => HasRule(Builtin[k])
      BY <1>2 DEF KeptSoFar, Keeps, HasRule
    <2>3. ASSUME NEW e \in Positions(file.rules), Enabled(e) PROVE HasRule(file.rules[e])
      <3>1. CASE Named(Builtin, file.rules[e].id)
        BY <1>2, <2>1, <2>3, <3>1 DEF Placed, Named
      <3>2. CASE ~Named(Builtin, file.rules[e].id)
        BY <1>2, <2>1, <2>3, <3>2 DEF Placed
      <3> QED BY <3>1, <3>2
    <2> QED BY <1>2, <2>1, <2>2, <2>3 DEF Placed
  <1> QED
    BY <1>1, <1>2, InitInv, NextInv, InitCounted, NextCounted, NextKept, PlacedAlways, PTL DEF Spec

(***************************************************************************)
(* What the detectors of a pack report.                                    *)
(***************************************************************************)

LEMMA NaturalsAreWellFounded == IsWellFoundedOn({p \in Nat \X Nat : p[1] < p[2]}, Nat)
  BY NatLessThanWellFounded DEF OpToRel

LEMMA LeastOf ==
    ASSUME NEW S \in SUBSET Nat, S # {}
    PROVE  \E n \in S : \A m \in S : n <= m
  <1> DEFINE R == {p \in Nat \X Nat : p[1] < p[2]}
  <1>1. IsWellFoundedOn(R, Nat)
    BY NaturalsAreWellFounded
  <1> HIDE DEF R
  <1>2. PICK n \in S : \A m \in S : ~(<<m, n>> \in R)
    BY <1>1, WFMin
  <1>3. \A m \in S : ~(m < n)
    BY <1>2 DEF R
  <1> QED BY <1>3

\* A place that a rule of a detector has something to say of has a first one.
LEMMA SomebodyAnswers ==
    ASSUME NEW rules, NEW k \in Positions(rules), NEW res, NEW p,
           NEW j \in Answering(rules, k, res, p)
    PROVE  \E i \in FirstToAnswer(rules, k, res, p) : i <= j
  <1>1. Answering(rules, k, res, p) \subseteq Nat
    BY DEF Answering, Alternatives, Positions
  <1>2. PICK i \in Answering(rules, k, res, p) : \A m \in Answering(rules, k, res, p) : i <= m
    BY <1>1, LeastOf
  <1> QED BY <1>2 DEF FirstToAnswer

\* The detector of a rule: where the first rule of its group stands.
LEMMA SomebodyLeads ==
    ASSUME NEW rules, NEW q \in Positions(rules)
    PROVE  \E l \in Positions(rules) :
               /\ Leads(rules, l) /\ q \in Alternatives(rules, l)
               /\ IF Grouped(rules[q]) THEN rules[l].group = rules[q].group ELSE l = q
  <1>1. CASE ~Grouped(rules[q])
    BY <1>1 DEF Leads, Alternatives
  <1>2. CASE Grouped(rules[q])
    <2> DEFINE S == {j \in Positions(rules) : rules[j].group = rules[q].group}
    <2>1. S \in SUBSET Nat /\ q \in S
      BY DEF Positions
    <2>2. PICK l \in S : \A m \in S : l <= m
      BY <2>1, LeastOf
    <2>3. \A j \in 1..(l - 1) : rules[j].group # rules[l].group
      BY <2>2 DEF Positions
    <2>4. Grouped(rules[l]) /\ rules[l].group = rules[q].group
      BY <1>2, <2>2 DEF Grouped
    <2> QED BY <1>2, <2>2, <2>3, <2>4 DEF Leads, Alternatives
  <1> QED BY <1>1, <1>2

\* The rules of a group look at the same block types; the first rule of a
\* group decides where all of them look, and nothing in the code checks that
\* they agree.
GroupsAgree(rules) ==
    \A j, k \in Positions(rules) :
        Grouped(rules[j]) /\ rules[j].group = rules[k].group
           => rules[j].match.blockTypes = rules[k].match.blockTypes

LEMMA DetectorLooksThere ==
    ASSUME NEW rules, IsIndexed(rules), GroupsAgree(rules), NEW l \in Positions(rules),
           NEW q \in Alternatives(rules, l), NEW res
    PROVE  Locations(rules[l].match, res) = Locations(rules[q].match, res)
  <1>1. CASE ~Grouped(rules[l])
    BY <1>1 DEF Alternatives
  <1>2. CASE Grouped(rules[l])
    <2>1. /\ rules[l].match.scope = rules[q].match.scope
          /\ rules[l].match.blockTypes = rules[q].match.blockTypes
      BY <1>2 DEF IsIndexed, GroupsAgree, Alternatives
    <2>2. Walked(rules[l].match, res) = Walked(rules[q].match, res)
      BY <2>1 DEF Walked
    <2>3. \A p : InBlockTypes(rules[l].match, res, p) <=> InBlockTypes(rules[q].match, res, p)
      BY <2>1 DEF InBlockTypes
    <2> QED BY <2>2, <2>3 DEF Locations
  <1> QED BY <1>1, <1>2

\* What has been found is what the detectors up to here report, and none of
\* them has met a predicate it does not know.
Collected ==
    phase \in {"detecting", "done"} =>
        /\ phase = "done" => at > Len(pack)
        /\ \A k \in Positions(pack) :
              k < at => /\ Detected(pack, k, resource) \subseteq found
                        /\ ~DetectorCrashes(pack, k, resource)
        /\ \A f \in found : \E k \in Positions(pack) : f \in Detected(pack, k, resource)

LEMMA NextCollected == Inv /\ Collected /\ [Next]_vars => Collected'
  <1> SUFFICES ASSUME Inv, Collected, [Next]_vars PROVE Collected'
    OBVIOUS
  <1>1. Len(pack) \in Nat /\ at \in Nat
    BY Finite DEF Inv, Typed
  <1>2. CASE Detect
    <2>1. \A k \in Positions(pack) : k < at + 1 => k < at \/ k = at
      BY <1>1 DEF Positions
    <2>2. at \in Positions(pack)
      BY <1>1, <1>2 DEF Detect, Inv, Typed, Positions
    <2> QED BY <1>2, <2>1, <2>2 DEF Detect, Advance, Collected
  <1>3. CASE Build
    <2>1. CASE IsBuildable(pack)
      <3>1. found' = {} /\ at' = 1
        BY <1>3, <2>1 DEF Build, Inv, Silent
      <3>2. \A k \in Positions(pack') : ~(k < 1)
        BY DEF Positions
      <3> QED BY <1>3, <2>1, <3>1, <3>2 DEF Build, Collected
    <2>2. CASE ~IsBuildable(pack)
      BY <1>3, <2>2 DEF Build, Refuse, Collected
    <2> QED BY <2>1, <2>2
  <1>4. CASE Finish
    BY <1>4 DEF Finish, Collected
  <1>5. CASE UNCHANGED vars
    BY <1>5 DEF vars, Collected
  <1>6. CASE (\E entry \in Entries : Write(entry)) \/ UseBuiltin \/ Load \/ Crash \/ Restart
    BY <1>6 DEF Write, UseBuiltin, Load, Crash, Restart, Refuse, Collected
  <1>7. CASE Merge
    BY <1>7 DEF Merge, Inherit, Override, SwitchOff, PassOver, Add, RefuseMisspelling,
                MergeEnds, InBase, InOverlay, Refuse, Collected
  <1> QED
    BY <1>2, <1>3, <1>4, <1>5, <1>6, <1>7 DEF Next

LEMMA CollectedAlways == Spec => []Collected
  <1>1. Init => Collected
    BY DEF Init, Collected
  <1> QED
    BY <1>1, InitInv, NextInv, NextCollected, PTL DEF Spec

\* At the end of a scan, a place that a declarative rule of the pack has
\* something to say of is reported, by that rule or one before it in its group.
LEMMA AnsweredIsReported ==
    ASSUME Inv, Collected, phase = "done", GroupsAgree(pack), NEW q \in Positions(pack),
           Declarative(pack[q]), NEW p \in Locations(pack[q].match, resource),
           Matches(Compiled(pack[q]).match, resource, p)
              \/ Stumbles(Compiled(pack[q]).match, resource, p)
    PROVE  \E i \in Positions(pack) :
               /\ i <= q /\ (i = q \/ (Grouped(pack[q]) /\ pack[i].group = pack[q].group))
               /\ Matches(Compiled(pack[i]).match, resource, p)
                     \/ Stumbles(Compiled(pack[i]).match, resource, p)
               /\ [kind |-> "finding", rule |-> pack[i].id, place |-> p] \in found
  <1>1. PICK l \in Positions(pack) :
            /\ Leads(pack, l) /\ q \in Alternatives(pack, l)
            /\ IF Grouped(pack[q]) THEN pack[l].group = pack[q].group ELSE l = q
    BY SomebodyLeads
  <1>2. IsIndexed(pack)
    BY DEF Inv, Checked
  <1>3. p \in Locations(pack[l].match, resource)
    BY <1>1, <1>2, DetectorLooksThere
  <1>4. q \in Answering(pack, l, resource, p)
    BY <1>1 DEF Answering
  <1>5. PICK i \in FirstToAnswer(pack, l, resource, p) : i <= q
    BY <1>4, SomebodyAnswers
  <1>6. Declarative(pack[l])
    <2>1. CASE Grouped(pack[q])
      BY <1>1, <1>2, <2>1 DEF IsIndexed, Grouped
    <2>2. CASE ~Grouped(pack[q])
      BY <1>1, <2>2
    <2> QED BY <2>1, <2>2
  <1>7. Detected(pack, l, resource) \subseteq found
    <2>1. Len(pack) \in Nat /\ at \in Nat /\ at > Len(pack)
      BY Finite DEF Inv, Typed, Collected
    <2>2. l < at
      BY <2>1 DEF Positions
    <2> QED BY <2>2 DEF Collected
  <1>8. [kind |-> "finding", rule |-> pack[i].id, place |-> p] \in Reported(pack, l, resource)
    BY <1>3 DEF Reported
  <1>9. [kind |-> "finding", rule |-> pack[i].id, place |-> p] \in found
    BY <1>1, <1>6, <1>7, <1>8, Zenon DEF Detected
  <1>10. i \in Positions(pack) /\ i \in Alternatives(pack, l)
         /\ (Matches(Compiled(pack[i]).match, resource, p)
                \/ Stumbles(Compiled(pack[i]).match, resource, p))
    BY DEF FirstToAnswer, Answering, Alternatives
  <1>11. i = q \/ (Grouped(pack[q]) /\ pack[i].group = pack[q].group)
    <2>1. CASE Grouped(pack[q])
      <3>1. Grouped(pack[l]) /\ pack[l].group = pack[q].group
        BY <1>1, <2>1 DEF Grouped
      <3> QED BY <1>10, <2>1, <3>1 DEF Alternatives
    <2>2. CASE ~Grouped(pack[q])
      BY <1>1, <1>10, <2>2 DEF Alternatives
    <2> QED BY <2>1, <2>2
  <1> QED BY <1>5, <1>9, <1>10, <1>11

\* A finding was reported by the detector of its rule, the first of the
\* group to have something to say of the place.
LEMMA FindingsAreFirst ==
    ASSUME NEW rules, NEW d \in Positions(rules), NEW res, NEW f \in Detected(rules, d, res),
           f.kind = "finding"
    PROVE  /\ Declarative(rules[d])
           /\ f.place \in Locations(rules[d].match, res)
           /\ \E x \in FirstToAnswer(rules, d, res, f.place) : f.rule = rules[x].id
  <1>1. f \notin Unverified(rules, res)
    <2> SUFFICES ASSUME f \in Unverified(rules, res) PROVE FALSE
      OBVIOUS
    <2>1. f.kind = "unverified"
      BY DEF Unverified
    <2> QED BY <2>1
  <1>2. Declarative(rules[d]) /\ f \in Reported(rules, d, res)
    BY <1>1, Zenon DEF Detected
  <1>3. PICK p \in Locations(rules[d].match, res) :
            \E x \in FirstToAnswer(rules, d, res, p) :
               f = [kind |-> "finding", rule |-> rules[x].id, place |-> p]
    BY <1>2 DEF Reported
  <1>4. PICK x \in FirstToAnswer(rules, d, res, p) :
            f = [kind |-> "finding", rule |-> rules[x].id, place |-> p]
    BY <1>3
  <1>5. f.place = p /\ f.rule = rules[x].id
    BY <1>4
  <1> QED BY <1>2, <1>4, <1>5

\* A replacement keeps its precedence: no later rule of its group reports a
\* place the replacement matches too.
THEOREM ReplacementsStayInRank == Spec => []ReplacementsKeepTheirRank
  <1>1. ASSUME Inv, Placed, Collected PROVE ReplacementsKeepTheirRank
    <2> SUFFICES ASSUME phase = "done", Layered, NEW f \in Findings(found),
                        NEW j \in Positions(Builtin), NEW k \in Positions(Builtin),
                        NEW e \in Positions(file.rules), j < k, Builtin[k].id = f.rule,
                        file.rules[e].id = Builtin[j].id, Grouped(file.rules[e]),
                        ~file.rules[e].disabled,
                        NEW p \in Positions(pack), pack[p].id = f.rule,
                        pack[p].group = file.rules[e].group,
                        Matches(file.rules[e].match, resource, f.place)
                 PROVE  FALSE
      BY DEF ReplacementsKeepTheirRank
    <2>1. IsIndexed(pack)
      BY <1>1 DEF Inv, Checked
    <2>2. PICK d \in Positions(pack) : f \in Detected(pack, d, resource)
      BY <1>1 DEF Collected, Findings
    <2>3. f.kind = "finding"
      BY DEF Findings
    <2>4. PICK x \in FirstToAnswer(pack, d, resource, f.place) : f.rule = pack[x].id
      BY <2>2, <2>3, FindingsAreFirst
    <2>5. x \in Positions(pack) /\ x \in Alternatives(pack, d)
      BY DEF FirstToAnswer, Answering, Alternatives
    <2>6. x = p
      BY <2>1, <2>4, <2>5 DEF IsIndexed
    <2>7. PICK i \in Positions(pack) : pack[i] = file.rules[e]
      <3>1. InForce /\ Enabled(e) /\ ~Merging
        BY DEF InForce, Enabled, Merging
      <3>2. HasRule(file.rules[e])
        BY <1>1, <3>1 DEF Placed
      <3> QED BY <3>2 DEF HasRule
    <2>8. i < p
      <3>1. InBuiltinOrder
        BY <1>1 DEF Placed, InForce
      <3> QED BY <2>7, <3>1 DEF InBuiltinOrder
    <2>9. i \in Alternatives(pack, d)
      <3>1. Grouped(pack[x])
        BY <2>6 DEF Grouped
      <3>2. Grouped(pack[d]) /\ pack[d].group = pack[x].group
        BY <2>5, <3>1 DEF Alternatives, Grouped
      <3> QED BY <2>6, <2>7, <3>2 DEF Alternatives
    <2>10. Compiled(pack[i]) = file.rules[e]
      BY <2>7 DEF Compiled
    <2>11. i \in Answering(pack, d, resource, f.place)
      BY <2>9, <2>10 DEF Answering
    <2>12. x <= i
      BY <2>11 DEF FirstToAnswer
    <2> QED BY <2>6, <2>8, <2>12 DEF Positions
  <1> QED
    BY <1>1, PlacedAlways, CollectedAlways, PTL

\* Where unverified settings are reported, a guard rule's silence is a
\* judgement, in every pack whose groups agree on where they look.
THEOREM SilenceIsEarned == Spec => [](GroupsAgree(pack) => SilenceIsAJudgement)
  <1>1. ASSUME Inv, Collected, GroupsAgree(pack) PROVE SilenceIsAJudgement
    <2> SUFFICES ASSUME phase = "done", NEW k \in Positions(pack), ReportsUnverified(pack[k]),
                        NEW guard \in Guards(pack), NEW b \in Blocks(resource),
                        NEW n \in guard.match.names,
                        NEW place, place = [block |-> b, name |-> n],
                        place \in Locations(guard.match, resource),
                        MatchesResource(guard.match, resource)
                 PROVE  \/ [kind |-> "unverified", rule |-> guard.id, place |-> place] \in found
                        \/ /\ AttributeAt(resource, place).literal
                           /\ Matches(guard.match, resource, place) =>
                                 \E f \in Findings(found) : f.place = place
      BY ZenonT(30) DEF SilenceIsAJudgement
    <2>1. CASE ~AttributeAt(resource, place).literal
      <3>1. place # Itself /\ place.name \in guard.match.names
        BY DEF Itself, Blocks
      <3>2. [kind |-> "unverified", rule |-> guard.id, place |-> place]
               \in Unverified(pack, resource)
        BY <2>1, <3>1 DEF Unverified
      <3>3. Detected(pack, k, resource) = Unverified(pack, resource)
        BY DEF Detected, ReportsUnverified
      <3>4. Detected(pack, k, resource) \subseteq found
        <4>1. Len(pack) \in Nat /\ at \in Nat /\ at > Len(pack)
          BY <1>1, Finite DEF Inv, Typed, Collected
        <4>2. k < at
          BY <4>1 DEF Positions
        <4> QED BY <1>1, <4>2 DEF Collected
      <3> QED BY <3>2, <3>3, <3>4
    <2>2. CASE AttributeAt(resource, place).literal
      <3> SUFFICES ASSUME Matches(guard.match, resource, place)
                   PROVE  \E f \in Findings(found) : f.place = place
        BY <2>2
      <3>1. PICK g \in Positions(pack) : IsGuard(pack[g]) /\ guard = pack[g]
        BY DEF Guards
      <3>2. Compiled(pack[g]) = guard /\ Declarative(pack[g])
        BY <3>1 DEF IsGuard, Compiled
      <3>3. PICK i \in Positions(pack) :
                [kind |-> "finding", rule |-> pack[i].id, place |-> place] \in found
        BY <1>1, <3>1, <3>2, AnsweredIsReported
      <3> DEFINE f == [kind |-> "finding", rule |-> pack[i].id, place |-> place]
      <3>4. f \in Findings(found) /\ f.place = place
        BY <3>3 DEF Findings
      <3> QED BY <3>4
    <2> QED BY <2>1, <2>2
  <1> QED
    BY <1>1, PlacedAlways, CollectedAlways, PTL

\* Laying a file over the built-in pack loses nothing it does not name, when
\* the groups of the built-in pack and of the merged one agree on where they
\* look.
THEOREM NothingIsLost ==
    Spec => [](GroupsAgree(Builtin) /\ GroupsAgree(pack) => NothingInheritedIsLost)
  <1>1. ASSUME Inv, Placed, KeptSoFar, Collected, GroupsAgree(Builtin), GroupsAgree(pack)
        PROVE  NothingInheritedIsLost
    <2> SUFFICES ASSUME phase = "done", Layered,
                        NEW f \in Findings(DetectedBy(Builtin, resource)),
                        ~Named(file.rules, f.rule)
                 PROVE  \E g \in Findings(found) :
                           g.place = f.place /\ (g.rule = f.rule \/ Named(file.rules, g.rule))
      BY DEF NothingInheritedIsLost
    <2>1. PICK d \in Positions(Builtin) : f \in Detected(Builtin, d, resource)
      BY DEF Findings, DetectedBy
    <2>2. f.kind = "finding"
      BY DEF Findings
    <2>3. /\ Declarative(Builtin[d])
          /\ f.place \in Locations(Builtin[d].match, resource)
          /\ \E x \in FirstToAnswer(Builtin, d, resource, f.place) : f.rule = Builtin[x].id
      BY <2>1, <2>2, FindingsAreFirst
    <2>4. PICK x \in FirstToAnswer(Builtin, d, resource, f.place) : f.rule = Builtin[x].id
      BY <2>3
    <2>5. /\ x \in Positions(Builtin) /\ x \in Alternatives(Builtin, d)
          /\ x \in Answering(Builtin, d, resource, f.place)
      BY DEF FirstToAnswer, Answering, Alternatives
    <2>6. IsIndexed(Builtin)
      BY BuiltinAssumption
    <2>7. f.place \in Locations(Builtin[x].match, resource)
      BY <1>1, <2>3, <2>5, <2>6, DetectorLooksThere
    <2>8. Declarative(Builtin[x])
      BY <2>3, <2>5, <2>6 DEF IsIndexed, Alternatives, Grouped
    <2>9. PICK q \in Positions(pack) : pack[q] = Builtin[x]
      <3>1. Inherited(x)
        BY <2>4, <2>5 DEF Inherited
      <3> QED BY <1>1, <2>5, <3>1 DEF KeptSoFar, Keeps, InForce
    <2>10. \/ Matches(Compiled(pack[q]).match, resource, f.place)
           \/ Stumbles(Compiled(pack[q]).match, resource, f.place)
      BY <2>5, <2>9 DEF Answering
    <2>11. PICK i \in Positions(pack) :
               /\ i <= q /\ (i = q \/ (Grouped(pack[q]) /\ pack[i].group = pack[q].group))
               /\ Matches(Compiled(pack[i]).match, resource, f.place)
                     \/ Stumbles(Compiled(pack[i]).match, resource, f.place)
               /\ [kind |-> "finding", rule |-> pack[i].id, place |-> f.place] \in found
      BY <1>1, <2>7, <2>8, <2>9, <2>10, AnsweredIsReported
    <2> DEFINE g == [kind |-> "finding", rule |-> pack[i].id, place |-> f.place]
    <2>12. g \in Findings(found) /\ g.place = f.place /\ g.rule = pack[i].id
      BY <2>11 DEF Findings
    <2>13. pack[i].id = f.rule \/ Named(file.rules, pack[i].id)
      <3>1. Comes(i) /\ InBuiltinOrder
        BY <1>1 DEF Placed, InForce
      <3>2. CASE \E e \in Positions(file.rules) : Enabled(e) /\ pack[i] = file.rules[e]
        BY <3>2 DEF Named
      <3>3. ASSUME i # q, NEW m \in Positions(Builtin), pack[i] = Builtin[m]
            PROVE  pack[i].id = f.rule
        <4>1. Grouped(Builtin[x]) /\ Builtin[m].group = Builtin[x].group
          BY <2>9, <2>11, <3>3
        <4>2. Grouped(Builtin[d]) /\ Builtin[d].group = Builtin[x].group
          BY <2>5, <4>1 DEF Alternatives, Grouped
        <4>3. m \in Answering(Builtin, d, resource, f.place)
          BY <2>11, <3>3, <4>1, <4>2 DEF Answering, Alternatives
        <4>4. x <= m
          BY <4>3 DEF FirstToAnswer
        <4>5. ~(x < m)
          <5>1. x < m => q < i
            BY <2>5, <2>9, <3>1, <3>3 DEF InBuiltinOrder
          <5> QED BY <2>11, <5>1 DEF Positions
        <4>6. x = m
          BY <2>5, <4>4, <4>5 DEF Positions
        <4> QED BY <2>4, <3>3, <4>6
      <3> QED BY <2>4, <2>9, <3>1, <3>2, <3>3 DEF Comes, Inherited
    <2> QED BY <2>12, <2>13
  <1>2. Inv /\ Placed /\ KeptSoFar /\ Collected
           => (GroupsAgree(Builtin) /\ GroupsAgree(pack) => NothingInheritedIsLost)
    BY <1>1
  <1>3. Init => KeptSoFar
    BY DEF Init, KeptSoFar, InForce
  <1>4. Spec => []KeptSoFar
    BY <1>3, InitInv, NextInv, InitCounted, NextCounted, NextKept, PTL DEF Spec
  <1> QED
    BY <1>2, <1>4, PlacedAlways, CollectedAlways, PTL
=============================================================================
