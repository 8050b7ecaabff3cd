------------------------------ MODULE PlanRules ------------------------------
(***************************************************************************)
(* The rules on a Terraform plan: rules/plan.py and planjson.py.  A change *)
(* is [address, managed, type, actions, before, after]: a state maps the   *)
(* attributes it has to their values, and `null' is the empty function.    *)
(***************************************************************************)
EXTENDS Engine

is_replace(c)      == {"delete", "create"} \subseteq c.actions
is_destroy_only(c) == c.actions = {"delete"}
is_pure_update(c)  == c.actions = {"update"}

Destructive(changes) == {c \in changes : c.managed /\ (is_destroy_only(c) \/ is_replace(c))}

PlanFinding(rule, c, where, severity) == Finding(rule, "plan", c.address, where, severity)

\* A deletion is reported for critical types, a replacement for every type.
ConfirmedReplaceRule(changes) ==
    {PlanFinding("confirmed_replace", c, <<>>, IF Critical(c.type) THEN "critical" ELSE "high") :
       c \in {d \in Destructive(changes) : is_destroy_only(d) => Critical(d.type)}}

Updated(c) == {n \in DOMAIN c.before \cap DOMAIN c.after : c.before[n] # c.after[n]}

\* Mutant: the full address of the plan is looked up.
ExplainedAtAddress(c, changed) ==
    IF c.address \in DOMAIN changed THEN changed[c.address] ELSE {}

\* What the scanned files changed at the address of a change.
Explained(c, changed) ==
    IF bare_resource_address(c.address) \in DOMAIN changed
    THEN changed[bare_resource_address(c.address)] ELSE {}

DriftRule(changes, changed) ==
    UNION {{PlanFinding("unexpected_drift", c, <<n>>, "medium") :
              n \in {m \in Updated(c) \cap Schema[c.type].top : <<m>> \notin Explained(c, changed)}} :
             c \in {d \in changes : d.managed /\ is_pure_update(d) /\ d.type \in DOMAIN Schema}}

BlastRadiusRule(changes, threshold) ==
    LET count == Cardinality(Destructive(changes))
    IN  IF threshold = 0 \/ count < threshold THEN {}
        ELSE {Finding("large_blast_radius", "plan", <<>>, <<>>,
                      IF count >= 2 * threshold THEN "critical" ELSE "high")}

\* run_plan_rules: there is no line to put a directive on.
run_plan_rules(changes, changed, threshold, ignored) ==
    {f \in ConfirmedReplaceRule(changes) \cup DriftRule(changes, changed)
               \cup BlastRadiusRule(changes, threshold) : f.rule \notin ignored}

Confirmed(P) == {bare_resource_address(f.address) : f \in {g \in P : g.rule = "confirmed_replace"}}

\* Mutant: whatever the rules say of a replaced resource gives way.
SupersededAnyRule(f, P) == bare_resource_address(f.address) \in Confirmed(P)

\* deduplicate_force_new_against_plan.
Superseded(f, P) ==
    f.rule = "force_new_change" /\ bare_resource_address(f.address) \in Confirmed(P)

MergePlan(F, P) == {f \in F : ~Superseded(f, P)} \cup P
=============================================================================
