------------------------------- MODULE Evaluate ------------------------------
(***************************************************************************)
(* hcl/ast.py and hcl/traversal.py: what an expression is worth in a       *)
(* scope, and the references it reads; parser/scope.py and parser/hcl.py:  *)
(* the scope of a directory and the attributes the rules will judge.       *)
(***************************************************************************)
EXTENDS Parser, Trees

Subexpressions(e) == e.parts

Value(e, scope) ==
    LET Of(node, worths) == Combined(node, scope, worths) IN FoldTree(Of, Subexpressions, e)

\* The values in a tuple, and in a tuple or an object.
TupleValues(v) == IF v.is = "known" /\ v.type = "tuple" THEN v.raw ELSE <<>>
InnerValues(v) == LET names == SetToSeq(DOMAIN v.raw)
               IN  IF v.is = "known" /\ v.type = "object"
                   THEN [k \in DOMAIN names |-> v.raw[names[k]]] ELSE TupleValues(v)

\* Known, and so is every value inside.
WhollyKnown(v) ==
    LET Of(w, known) == ~IsUnknown(w) /\ \A k \in DOMAIN known : known[k]
    IN  FoldTree(Of, InnerValues, v)

\* cty_value_to_string: an element of a tuple that is unknown leaves nothing.
Joined(texts) ==
    IF texts = <<>> THEN <<>>
    ELSE FoldLeft(LAMBDA joined, text : joined \o <<",">> \o text, texts[1], Tail(texts))

Rendered(v) ==
    LET Of(w, texts) == IF Convertible(w) THEN Text(w) ELSE Joined(texts)
    IN  FoldTree(Of, TupleValues, v)

-----------------------------------------------------------------------------
(* variables: the references an expression reads, in source order *)

Variables(e) == FoldTree(References, Subexpressions, e)

\* render: with max_steps = 2 the loop breaks only after the third step; an
\* index or a splat leaves nothing.
RenderSteps(steps) ==
    LET one(k) == IF k > Len(steps) THEN <<>>
                  ELSE IF steps[k].by = "root" THEN steps[k].key
                  ELSE IF steps[k].by = "attr" THEN <<".">> \o steps[k].key ELSE <<>>
    IN  one(1) \o one(2) \o one(3)

\* first_traversal_name: the first that renders as something.
FirstTraversal(e) ==
    LET Name(k) == RenderSteps(Variables(e)[k])
        named   == {k \in DOMAIN Variables(e) : Name(k) # <<>>}
    IN  IF named = {} THEN <<>> ELSE Name(Min(named))

-----------------------------------------------------------------------------
(* parser/scope.py *)

Names(body) == DOMAIN body.attributes
Argument(body, name) == body.attributes[name].expr

Settled(e) == ~Value(e, NoScope).bad /\ WhollyKnown(Value(e, NoScope).v)

\* What a block defines for the scope: all its locals, or a variable's default.
Defines(block) ==
    LET settled == {name \in Names(block.body) : Settled(Argument(block.body, name))}
        Worths(names, Of(_)) ==
            [name \in names |-> Value(Argument(block.body, Of(name)), NoScope).v]
    IN  CASE block.type = <<"locals">> -> Worths(settled, LAMBDA n : n)
          [] /\ block.type = <<"variable">> /\ Len(block.labels) = 1
             /\ <<"default">> \in settled -> Worths({block.labels[1]}, LAMBDA n : <<"default">>)
          [] OTHER -> <<>>

\* build_scope, over the bodies of the files that parsed.  A later definition
\* of a name replaces an earlier one.
BuildScope(bodies) ==
    LET blocks == FlattenSeq([k \in DOMAIN bodies |-> bodies[k].blocks])
        Entries(type) ==
            FoldLeft(LAMBDA found, block : IF block.type = type THEN Defines(block) @@ found
                                           ELSE found, <<>>, blocks)
        names == [local |-> Entries(<<"locals">>), var |-> Entries(<<"variable">>)]
        given == {root \in DOMAIN names : DOMAIN names[root] # {}}
    IN  IF given = {} THEN NoScope
        ELSE ScopeOf([root \in {<<r>> : r \in given} |-> ObjectVal(names[root[1]])])

-----------------------------------------------------------------------------
(* parser/hcl.py *)

Unread == [literal |-> FALSE, raw |-> <<>>, from |-> <<>>]

\* _attr_to_attribute: on its own first, then in the scope.
ToAttribute(e, scope) ==
    LET alone  == Value(e, NoScope)
        within == Value(e, scope)
    IN  CASE ~alone.bad -> [literal |-> TRUE, raw |-> Rendered(alone.v), from |-> <<>>]
          [] alone.bad /\ scope.given /\ ~within.bad /\ WhollyKnown(within.v) ->
                [literal |-> TRUE, raw |-> Rendered(within.v), from |-> FirstTraversal(e)]
          [] OTHER -> Unread

Attributes(body, scope) ==
    [name \in Names(body) |-> ToAttribute(Argument(body, name), scope)]

BlocksIn(block) == block.body.blocks

NestedBlock(block, scope) ==
    LET Of(b, blocks) == [type |-> b.type, labels |-> b.labels,
                          attributes |-> Attributes(b.body, scope), blocks |-> blocks]
    IN  FoldTree(Of, BlocksIn, block)

\* prevent_destroy: the last lifecycle block that resolves it.
Prevented(lifecycles, scope) ==
    FoldLeft(LAMBDA prevent, block :
                IF <<"prevent_destroy">> \notin Names(block.body) THEN prevent
                ELSE LET worth == Value(Argument(block.body, <<"prevent_destroy">>), scope)
                     IN  IF worth.bad \/ ~Has(worth.v, "bool") THEN prevent
                         ELSE IF worth.v.raw THEN "true" ELSE "false",
             "none", lifecycles)

BlockToResource(block, scope) ==
    LET Lifecycle(b) == b.type = <<"lifecycle">>
        Other(b)     == ~Lifecycle(b)
        lifecycles == SelectSeq(block.body.blocks, Lifecycle)
        others     == SelectSeq(block.body.blocks, Other)
    IN  [kind |-> block.type, labels |-> block.labels,
         attributes |-> Attributes(block.body, scope),
         blocks |-> [k \in DOMAIN others |-> NestedBlock(others[k], scope)],
         lifecycle |-> lifecycles # <<>>,
         prevent |-> Prevented(lifecycles, scope)]

\* parse_file_with_context.
IsResource(block) == \/ block.type \in {<<"resource">>, <<"data">>} /\ Len(block.labels) = 2
                     \/ block.type = <<"module">> /\ Len(block.labels) = 1

Resources(body, scope) ==
    LET declared == SelectSeq(body.blocks, IsResource)
    IN  [k \in DOMAIN declared |-> BlockToResource(declared[k], scope)]
=============================================================================
