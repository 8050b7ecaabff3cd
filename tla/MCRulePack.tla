----------------------------- MODULE MCRulePack -----------------------------
(***************************************************************************)
(* A built-in pack of five rules, the files a team may lay over it, and    *)
(* blocks with settings that are written out, hidden and nested.           *)
(***************************************************************************)
EXTENDS RulePack, TLC

NoMatch == [scope |-> "none", types |-> {}, skipTypes |-> {}, skipWhen |-> {},
            blockTypes |-> {}, skipInside |-> {}, skipContaining |-> {},
            names |-> {}, literal |-> BOOLEAN, values |-> {}, confirm |-> "none",
            resources |-> {}]

Anywhere == [NoMatch EXCEPT !.scope = "any_attribute"]

Plain(id, match) == [id |-> id, category |-> "tutorial_pattern", group |-> "none",
                     engine |-> "none", match |-> match, disabled |-> FALSE, complete |-> TRUE]
InGroup(id, match) == [Plain(id, match) EXCEPT !.group = "credential_value"]
OfEngine(id, engine) == [Plain(id, NoMatch) EXCEPT !.engine = engine]
Off(id) == [Plain(id, NoMatch) EXCEPT !.disabled = TRUE, !.complete = FALSE]

Keys    == [Anywhere EXCEPT !.literal = {TRUE}, !.values = {"key"}]
Secrets == [Anywhere EXCEPT !.literal = {TRUE}, !.values = {"key", "token"}, !.confirm = "entropy"]
Public  == [Anywhere EXCEPT !.literal = {TRUE}, !.names = {"public"}, !.values = {"open"}]
Guard(id, match) == [Plain(id, match) EXCEPT !.category = "public_exposure"]

MCBuiltin ==
    <<InGroup("key", Keys),
      InGroup("secret", Secrets),
      Guard("public", Public),
      OfEngine("unverified", "unresolved_guard_value"),
      OfEngine("drift", "unexpected_drift")>>

MCEntries ==
    { Off("key"), Off("public"), Off("misspelt"),
      \* the same rule for tokens only, kept in its group or taken out of it
      InGroup("key", [Keys EXCEPT !.values = {"token"}]),
      Plain("key", Keys),
      \* a generic rule that confirms nothing
      InGroup("secret", [Secrets EXCEPT !.confirm = "none"]),
      \* a guard narrowed to one nested block type, and one left out inside another
      Guard("public", [Public EXCEPT !.scope = "block_attribute", !.blockTypes = {"inner"}]),
      Guard("public", [Public EXCEPT !.skipInside = {[name |-> "public", value |-> "open"]}]),
      \* new rules: one of the group, one with another scope, one of an
      \* engine, one with a predicate and one with an engine of another build
      InGroup("extra", [Keys EXCEPT !.values = {"open"}]),
      InGroup("named", [Anywhere EXCEPT !.scope = "resource_name", !.resources = {"demo"}]),
      Plain("demo", [NoMatch EXCEPT !.scope = "resource_name", !.resources = {"demo"}]),
      Plain("foreign", [Keys EXCEPT !.confirm = "unknown"]),
      OfEngine("future", "of_another_build"),
      Plain("empty", Anywhere) }

\* The entry that narrows the first rule of a group to one block type.
Narrowed == InGroup("key", [Keys EXCEPT !.blockTypes = {"outer"}])

NarrowedEntries == MCEntries \cup {Narrowed}

Lit(value) == [literal |-> TRUE, value |-> value, confirmed |-> value \in {"key", "token"}]
Hidden     == [literal |-> FALSE, value |-> "", confirmed |-> FALSE]

Block(type, parent, attributes) == [type |-> type, parent |-> parent, attributes |-> attributes]

MCResources ==
    { [type |-> "server", name |-> "demo", attributes |-> "public" :> a @@ "note" :> b,
       blocks |-> <<Block("outer", 0, "public" :> c), Block("inner", 1, "public" :> d @@ "note" :> e)>>] :
        a \in {Lit("open"), Hidden}, b \in {Lit("key")}, c \in {Lit("open"), Lit("shut")},
        d \in {Hidden, Lit("open")}, e \in {Lit("token"), Lit("key")} }
=============================================================================
