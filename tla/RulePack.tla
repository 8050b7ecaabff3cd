------------------------------ MODULE RulePack ------------------------------
(***************************************************************************)
(* A rule pack on its way from the file of a team to the findings of a     *)
(* scan: load parses and validates the file, merge lays a file that        *)
(* extends the built-in pack over it by rule id, from_pack builds the      *)
(* detectors in pack order, and each detector walks one block of a         *)
(* Terraform file.  The loops of merge and of the detectors are steps.     *)
(*                                                                         *)
(* A pattern is the set of the texts it finds; a text it does not list is  *)
(* not found.  An empty set stands for a field left out.                   *)
(***************************************************************************)
EXTENDS Integers, Sequences

CONSTANTS
    Builtin,        \* the rules of the pack in the build, in order
    Entries,        \* the rules a team may write into its file
    MaxEntries,     \* bound: rules in one file
    Resources,      \* the blocks a scan may meet
    Confirmations   \* the predicates this build knows

ASSUME MaxEntriesAssumption == MaxEntries \in Nat

VARIABLES
    file,       \* [extends, rules]: the team's file
    resource,   \* the block the detectors walk
    phase,      \* where load_rule_pack and the scan are
    at,         \* position in the loop of merge, or in the pack
    pack,       \* the rules in force, in order
    report,     \* MergeReport: the counts the scan announces
    found       \* what the detectors reported so far

vars == <<file, resource, phase, at, pack, report, found>>

Scopes == {"attribute", "block_attribute", "any_attribute", "resource_name"}
CompiledEngines == {"unknown_attribute", "force_new_change", "missing_lifecycle",
                    "unpinned_version", "iam_wildcard"}
EnginesElsewhere == {"confirmed_replace", "unexpected_drift", "large_blast_radius",
                     "unparsable_file", "unparsable_base_file", "unsupported_file_format"}
GuardCategories == {"public_exposure", "encryption_disabled", "audit_disabled",
                    "permissive_iam", "missing_lifecycle"}

Phases == {"writing", "merging", "building", "detecting", "done", "refused", "crashed"}

Declarative(rule) == rule.match.scope # "none"
Grouped(rule) == rule.group # "none"
ImplementsEngine(rule) == rule.engine # "none"

Positions(rules) == 1..Len(rules)
Named(rules, id) == \E k \in Positions(rules) : rules[k].id = id

---------------------------------------------------------------------------
(* Validation: Match.validate, Rule.validate, Pack.index                   *)

HasCondition(match) ==
    \/ match.names # {}
    \/ match.values # {}
    \/ match.literal # BOOLEAN

MatchIsValid(match) ==
    /\ match.scope \in Scopes
    /\ match.scope = "resource_name" => match.resources # {}
    /\ match.scope # "resource_name" => HasCondition(match)
    /\ match.confirm # "none" => match.values # {}

\* An entry that switches a rule off names it and nothing else.
RuleIsValid(rule) ==
    \/ rule.disabled
    \/ /\ rule.complete
       /\ ImplementsEngine(rule) # Declarative(rule)
       /\ Declarative(rule) => MatchIsValid(rule.match)

IsIndexed(rules) ==
    /\ \A k \in Positions(rules) : RuleIsValid(rules[k])
    /\ \A j, k \in Positions(rules) : rules[j].id = rules[k].id => j = k
    /\ \A k \in Positions(rules) : Grouped(rules[k]) => Declarative(rules[k])
    /\ \A j, k \in Positions(rules) :
          Grouped(rules[j]) /\ rules[j].group = rules[k].group
             => rules[j].match.scope = rules[k].match.scope

\* _compiled_engine raises for an engine this build does not have.
IsBuildable(rules) ==
    \A k \in Positions(rules) :
        \/ Declarative(rules[k])
        \/ rules[k].engine \in CompiledEngines \cup EnginesElsewhere
                                  \cup {"unresolved_guard_value"}

\* The patterns of a rule are compiled by its validation, which leaves a
\* disabled one alone: its value pattern is no condition, its name pattern
\* never matches.
Compiled(rule) ==
    IF rule.disabled
       THEN [rule EXCEPT !.match.values = {}, !.match.resources = {}]
       ELSE rule

\* The built-in pack passed the same checks when it was built.
ASSUME BuiltinAssumption ==
    /\ Builtin \in Seq({Builtin[k] : k \in Positions(Builtin)})
    /\ IsIndexed(Builtin)
    /\ IsBuildable(Builtin)

---------------------------------------------------------------------------
(* The walk over one block                                                 *)

\* A place is an attribute of the block itself (block 0) or of one of its
\* nested blocks, which are listed outermost first with their parents.
Blocks(res) == 0..Len(res.blocks)
AttributesOf(res, b) == IF b = 0 THEN res.attributes ELSE res.blocks[b].attributes
Places(res) ==
    UNION {{[block |-> b, name |-> n] : n \in DOMAIN AttributesOf(res, b)} : b \in Blocks(res)}
AttributeAt(res, place) == AttributesOf(res, place.block)[place.name]
Itself == [block |-> -1, name |-> "itself"]   \* no place in the block

Enclosing(res) ==
    LET around[b \in Blocks(res)] ==
            IF b = 0 THEN {} ELSE {b} \cup around[res.blocks[b].parent]
    IN  around

Written(attributes, setting) ==
    /\ setting.name \in DOMAIN attributes
    /\ attributes[setting.name].literal
    /\ attributes[setting.name].value = setting.value

MatchesResource(match, res) ==
    /\ match.types # {} => res.type \in match.types
    /\ res.type \notin match.skipTypes
    /\ \A setting \in match.skipWhen : ~Written(res.attributes, setting)

\* The places a detector walks: the block types are those of its first rule.
Walked(match, res) ==
    CASE match.scope = "attribute"       -> {p \in Places(res) : p.block = 0}
      [] match.scope = "block_attribute" -> {p \in Places(res) : p.block # 0}
      [] match.scope = "any_attribute"   -> Places(res)
      [] match.scope = "resource_name"   -> {Itself}
      [] OTHER                           -> {}

InBlockTypes(match, res, place) ==
    \/ place.block <= 0
    \/ match.blockTypes = {}
    \/ res.blocks[place.block].type \in match.blockTypes

Locations(match, res) == {p \in Walked(match, res) : InBlockTypes(match, res, p)}

SkippedInside(match, res, place) ==
    \E b \in Enclosing(res)[place.block] :
        \/ \E setting \in match.skipInside : Written(res.blocks[b].attributes, setting)
        \/ \E c \in Blocks(res) \ {0} :
              res.blocks[c].parent = b /\ res.blocks[c].type \in match.skipContaining

\* The conditions before the pattern's confirmation; the name of the block
\* is judged by its own pattern.
Candidate(match, res, place) ==
    /\ MatchesResource(match, res)
    /\ IF match.scope = "resource_name"
          THEN res.name \in match.resources
          ELSE LET attribute == AttributeAt(res, place)
               IN  /\ ~SkippedInside(match, res, place)
                   /\ attribute.literal \in match.literal
                   /\ match.names # {} => place.name \in match.names
                   /\ match.values # {} => attribute.value \in match.values

\* An unknown predicate is looked up when its pattern found something.
Confirms(match) ==
    match.confirm # "none" /\ match.values # {} /\ match.scope # "resource_name"

Stumbles(match, res, place) ==
    /\ Candidate(match, res, place)
    /\ Confirms(match)
    /\ match.confirm \notin Confirmations

Matches(match, res, place) ==
    /\ Candidate(match, res, place)
    /\ Confirms(match) => AttributeAt(res, place).confirmed

---------------------------------------------------------------------------
(* The detectors built from a pack                                         *)

\* A group is one detector, built where its first rule stands.
Leads(rules, k) ==
    ~Grouped(rules[k]) \/ \A j \in 1..(k - 1) : rules[j].group # rules[k].group

Alternatives(rules, k) ==
    IF Grouped(rules[k])
       THEN {j \in Positions(rules) : rules[j].group = rules[k].group}
       ELSE {k}

\* The rules of the detector at k that have something to say of a place.
Answering(rules, k, res, place) ==
    {j \in Alternatives(rules, k) :
        LET match == Compiled(rules[j]).match
        IN  Matches(match, res, place) \/ Stumbles(match, res, place)}

\* Mutant: the last alternative reports.
LastToAnswer(rules, k, res, place) ==
    {j \in Answering(rules, k, res, place) : \A i \in Answering(rules, k, res, place) : j >= i}

\* The first alternative that matches a place is the one that reports it.
FirstToAnswer(rules, k, res, place) ==
    {j \in Answering(rules, k, res, place) : \A i \in Answering(rules, k, res, place) : j <= i}

DetectorCrashes(rules, k, res) ==
    /\ Declarative(rules[k])
    /\ Leads(rules, k)
    /\ \E p \in Locations(rules[k].match, res) : \E j \in FirstToAnswer(rules, k, res, p) :
          Stumbles(Compiled(rules[j]).match, res, p)

Reported(rules, k, res) ==
    UNION {{[kind |-> "finding", rule |-> rules[j].id, place |-> p] :
               j \in FirstToAnswer(rules, k, res, p)} :
             p \in Locations(rules[k].match, res)}

IsGuard(rule) ==
    /\ ~rule.disabled
    /\ rule.category \in GuardCategories
    /\ Declarative(rule)
    /\ rule.match.literal = {TRUE}
    /\ rule.match.names # {}
    /\ rule.match.values # {}

Guards(rules) == {rules[k] : k \in {j \in Positions(rules) : IsGuard(rules[j])}}

\* Mutant: nested blocks are not looked into.
UnverifiedAtTop(rules, res) ==
    UNION {{[kind |-> "unverified", rule |-> guard.id, place |-> p] :
                p \in {q \in Locations(guard.match, res) :
                          /\ q # Itself /\ q.block = 0
                          /\ q.name \in guard.match.names
                          /\ ~AttributeAt(res, q).literal}} :
              guard \in {g \in Guards(rules) : MatchesResource(g.match, res)}}

\* Each attribute a guard would have judged and could not, with the guard.
Unverified(rules, res) ==
    UNION {{[kind |-> "unverified", rule |-> guard.id, place |-> p] :
                p \in {q \in Locations(guard.match, res) :
                          /\ q # Itself
                          /\ q.name \in guard.match.names
                          /\ ~AttributeAt(res, q).literal}} :
              guard \in {g \in Guards(rules) : MatchesResource(g.match, res)}}

\* Compiled engines report from schemas and files outside this module.
Detected(rules, k, res) ==
    IF Declarative(rules[k])
       THEN IF Leads(rules, k) THEN Reported(rules, k, res) ELSE {}
       ELSE IF rules[k].engine = "unresolved_guard_value" THEN Unverified(rules, res) ELSE {}

DetectedBy(rules, res) == UNION {Detected(rules, k, res) : k \in Positions(rules)}

---------------------------------------------------------------------------
(* Loading                                                                 *)

NoReport == [inherited |-> 0, overridden |-> 0, added |-> 0, disabled |-> 0]

Init ==
    /\ file \in [extends : BOOLEAN, rules : {<<>>}]
    /\ resource \in Resources
    /\ phase = "writing"
    /\ at = 1
    /\ pack = <<>>
    /\ report = NoReport
    /\ found = {}

\* The team adds a rule to its file.
Write(entry) ==
    /\ phase = "writing"
    /\ Len(file.rules) < MaxEntries
    /\ file' = [file EXCEPT !.rules = Append(@, entry)]
    /\ UNCHANGED <<resource, phase, at, pack, report, found>>

Refuse ==
    /\ phase' = "refused"
    /\ UNCHANGED <<file, resource, at, pack, report, found>>

\* Without a file the built-in pack runs.
UseBuiltin ==
    /\ phase = "writing"
    /\ file.rules = <<>>
    /\ phase' = "building"
    /\ pack' = Builtin
    /\ UNCHANGED <<file, resource, at, report, found>>

Load ==
    /\ phase = "writing"
    /\ IF file.rules = <<>> \/ ~IsIndexed(file.rules)
          THEN Refuse
          ELSE /\ phase' = IF file.extends THEN "merging" ELSE "building"
               /\ pack' = IF file.extends THEN <<>> ELSE file.rules
               /\ UNCHANGED <<file, resource, at, report, found>>

Count(counter) == report' = [report EXCEPT ![counter] = @ + 1]

Advance == at' = at + 1

Overriding(rule) == {k \in Positions(file.rules) : file.rules[k].id = rule.id}

InBase == phase = "merging" /\ at <= Len(Builtin)

\* Mutant: a group of the file stands for the whole built-in group.
InheritOtherGroups ==
    /\ InBase
    /\ Overriding(Builtin[at]) = {}
    /\ IF Grouped(Builtin[at])
             /\ \E k \in Positions(file.rules) : file.rules[k].group = Builtin[at].group
          THEN UNCHANGED <<pack, report>>
          ELSE pack' = Append(pack, Builtin[at]) /\ Count("inherited")
    /\ Advance
    /\ UNCHANGED <<file, resource, phase, found>>

Inherit ==
    /\ InBase
    /\ Overriding(Builtin[at]) = {}
    /\ pack' = Append(pack, Builtin[at])
    /\ Count("inherited")
    /\ Advance
    /\ UNCHANGED <<file, resource, phase, found>>

\* A replacement takes the position of the rule it replaces.
Override ==
    /\ InBase
    /\ \E k \in Overriding(Builtin[at]) :
          /\ ~file.rules[k].disabled
          /\ pack' = Append(pack, file.rules[k])
    /\ Count("overridden")
    /\ Advance
    /\ UNCHANGED <<file, resource, phase, found>>

\* Mutant: the rule is counted as switched off and kept.
SwitchOffInName ==
    /\ InBase
    /\ \E k \in Overriding(Builtin[at]) : file.rules[k].disabled
    /\ pack' = Append(pack, Builtin[at])
    /\ Count("disabled")
    /\ Advance
    /\ UNCHANGED <<file, resource, phase, found>>

SwitchOff ==
    /\ InBase
    /\ \E k \in Overriding(Builtin[at]) : file.rules[k].disabled
    /\ Count("disabled")
    /\ Advance
    /\ UNCHANGED <<file, resource, phase, pack, found>>

InOverlay ==
    /\ phase = "merging"
    /\ at > Len(Builtin)
    /\ at <= Len(Builtin) + Len(file.rules)

Entry == file.rules[at - Len(Builtin)]

\* Mutant: a rule placed already is counted as added.
PassOverCounted ==
    /\ InOverlay
    /\ Named(Builtin, Entry.id)
    /\ Count("added")
    /\ Advance
    /\ UNCHANGED <<file, resource, phase, pack, found>>

\* Placed already, where the rule of that id stood.
PassOver ==
    /\ InOverlay
    /\ Named(Builtin, Entry.id)
    /\ Advance
    /\ UNCHANGED <<file, resource, phase, pack, report, found>>

Add ==
    /\ InOverlay
    /\ ~Named(Builtin, Entry.id)
    /\ ~Entry.disabled
    /\ pack' = Append(pack, Entry)
    /\ Count("added")
    /\ Advance
    /\ UNCHANGED <<file, resource, phase, found>>

\* There is no rule of that id to switch off: a misspelling.
RefuseMisspelling ==
    /\ InOverlay
    /\ ~Named(Builtin, Entry.id)
    /\ Entry.disabled
    /\ Refuse

\* Mutant: two valid packs are taken to merge into a valid one.
MergeTrusted ==
    /\ phase = "merging"
    /\ at > Len(Builtin) + Len(file.rules)
    /\ phase' = "building"
    /\ UNCHANGED <<file, resource, at, pack, report, found>>

\* The merged pack is validated from scratch.
MergeEnds ==
    /\ phase = "merging"
    /\ at > Len(Builtin) + Len(file.rules)
    /\ IF pack = <<>> \/ ~IsIndexed(pack)
          THEN Refuse
          ELSE /\ phase' = "building"
               /\ UNCHANGED <<file, resource, at, pack, report, found>>

Merge == \/ Inherit \/ Override \/ SwitchOff
         \/ PassOver \/ Add \/ RefuseMisspelling
         \/ MergeEnds

Build ==
    /\ phase = "building"
    /\ IF IsBuildable(pack)
          THEN /\ phase' = "detecting"
               /\ at' = 1
               /\ UNCHANGED <<file, resource, pack, report, found>>
          ELSE Refuse

---------------------------------------------------------------------------
(* The scan                                                                *)

Detect ==
    /\ phase = "detecting"
    /\ at <= Len(pack)
    /\ ~DetectorCrashes(pack, at, resource)
    /\ found' = found \cup Detected(pack, at, resource)
    /\ Advance
    /\ UNCHANGED <<file, resource, phase, pack, report>>

\* The look-up of an unknown predicate raises KeyError, which nothing catches.
Crash ==
    /\ phase = "detecting"
    /\ at <= Len(pack)
    /\ DetectorCrashes(pack, at, resource)
    /\ phase' = "crashed"
    /\ UNCHANGED <<file, resource, at, pack, report, found>>

Finish ==
    /\ phase = "detecting"
    /\ at > Len(pack)
    /\ phase' = "done"
    /\ UNCHANGED <<file, resource, at, pack, report, found>>

\* The team starts over with another file and another block.
Restart ==
    /\ phase \in {"done", "refused", "crashed"}
    /\ file' \in [extends : BOOLEAN, rules : {<<>>}]
    /\ resource' \in Resources
    /\ phase' = "writing"
    /\ at' = 1
    /\ pack' = <<>>
    /\ report' = NoReport
    /\ found' = {}

Next ==
    \/ \E entry \in Entries : Write(entry)
    \/ UseBuiltin \/ Load
    \/ Merge
    \/ Build
    \/ Detect \/ Crash \/ Finish
    \/ Restart

Spec == Init /\ [][Next]_vars

---------------------------------------------------------------------------
(* Properties                                                              *)

Kinds == {"finding", "unverified"}

\* The variables have their types, and a pack in force passed the checks of
\* load_rule_pack.
TypeOK ==
    /\ file.extends \in BOOLEAN
    /\ file.rules \in Seq(Entries)
    /\ resource \in Resources
    /\ phase \in Phases
    /\ at \in Nat
    /\ \A k \in Positions(pack) : pack[k] \in Entries \cup {Builtin[j] : j \in Positions(Builtin)}
    /\ report \in [DOMAIN NoReport -> Nat]
    /\ \A f \in found : f.kind \in Kinds
    /\ phase \in {"detecting", "done"} => IsIndexed(pack) /\ IsBuildable(pack)

Layered == file.extends /\ file.rules # <<>>
InForce == phase \in {"building", "detecting", "done", "crashed"}

\* What the scan says of a pack file that extends the built-in one adds up:
\* each built-in rule and each rule of the file is accounted for once, and
\* the rules it counts are the ones in force (merge, MergeReport).
AnnouncedIsInForce ==
    InForce /\ Layered =>
        /\ Len(pack) = report.inherited + report.overridden + report.added
        /\ Len(Builtin) = report.inherited + report.overridden + report.disabled
        /\ Len(file.rules) = report.overridden + report.added + report.disabled

SwitchedOff(id) == \E k \in Positions(file.rules) : file.rules[k].id = id /\ file.rules[k].disabled

\* A rule a file switches off in the built-in pack reports nothing
\* (ruledef.Rule.disabled, merge).
SwitchedOffIsSilent ==
    Layered => \A f \in found : ~SwitchedOff(f.rule)

Findings(reports) == {f \in reports : f.kind = "finding"}

\* Laying a file over the built-in pack loses nothing it does not name: a
\* place a built-in rule reports is reported by that rule still, or by a rule
\* of the file that took its place in the group (Pack.extends: "Adding an
\* org's own rule must not silently drop the built-in ones").
NothingInheritedIsLost ==
    phase = "done" /\ Layered =>
        \A f \in Findings(DetectedBy(Builtin, resource)) :
            Named(file.rules, f.rule)
               \/ \E g \in Findings(found) :
                     g.place = f.place /\ (g.rule = f.rule \/ Named(file.rules, g.rule))

\* A replacement keeps its precedence: no later rule of its group reports a
\* place the replacement matches too (merge: "preserving ordered group
\* alternatives").
ReplacementsKeepTheirRank ==
    phase = "done" /\ Layered =>
        \A f \in Findings(found), j, k \in Positions(Builtin), e \in Positions(file.rules) :
            /\ j < k
            /\ Builtin[k].id = f.rule
            /\ file.rules[e].id = Builtin[j].id
            /\ Grouped(file.rules[e])
            /\ ~file.rules[e].disabled
            /\ \E p \in Positions(pack) : pack[p].id = f.rule /\ pack[p].group = file.rules[e].group
            => ~Matches(file.rules[e].match, resource, f.place)

ReportsUnverified(rule) == ~Declarative(rule) /\ rule.engine = "unresolved_guard_value"

\* Where unverified settings are reported, a guard rule's silence means the
\* setting was judged: each place it covers holds a value that it or a rule
\* before it in its group judged, or is reported as unverified (the promise
\* of rules/unresolved.py: silence "means not checked, not safe").
SilenceIsAJudgement ==
    (phase = "done" /\ \E k \in Positions(pack) : ReportsUnverified(pack[k])) =>
        \A guard \in Guards(pack) : \A b \in Blocks(resource), n \in guard.match.names :
            LET place == [block |-> b, name |-> n]
            IN  /\ place \in Locations(guard.match, resource)
                /\ MatchesResource(guard.match, resource)
                => \/ [kind |-> "unverified", rule |-> guard.id, place |-> place] \in found
                   \/ /\ AttributeAt(resource, place).literal
                      /\ Matches(guard.match, resource, place) =>
                            \E f \in Findings(found) : f.place = place
=============================================================================
