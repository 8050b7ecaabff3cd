----------------------------- MODULE Expressions -----------------------------
(***************************************************************************)
(* hcl/ast.py and hcl/traversal.py: the nodes of an expression, and what   *)
(* each is worth in a scope when the worth of its parts is known.          *)
(***************************************************************************)
EXTENDS Values, SequencesExt

(* ast.py: the nodes.  The parts of an object are keys and values in turn. *)

Literal(v)     == [kind |-> "literal", value |-> v, parts |-> <<>>]
Scoped(steps)  == [kind |-> "scope", steps |-> steps, parts |-> <<>>]
Relative(source, steps) == [kind |-> "relative", steps |-> steps, parts |-> <<source>>]
Node(kind, parts) == [kind |-> kind, parts |-> parts]
Operation(kind, op, parts) == [kind |-> kind, op |-> op, parts |-> parts]

Root(name) == [by |-> "root", key |-> name]
Attr(name) == [by |-> "attr", key |-> name]
At(number) == [by |-> "index", key |-> number]

-----------------------------------------------------------------------------
(* scopes and references *)

\* A scope maps root names to values; without one no reference can be read.
NoScope == [given |-> FALSE, names |-> <<>>]
ScopeOf(names) == [given |-> TRUE, names |-> names]

\* The scope with values for more names, where the properties suppose them.
Completion(scope, names) ==
    LET known == IF scope.given THEN scope.names ELSE <<>>
    IN  ScopeOf([root \in DOMAIN known \cup DOMAIN names |->
                    IF root \in DOMAIN known THEN known[root] ELSE names[root]])

Worth(v)    == [v |-> v, bad |-> FALSE]
Undecidable == [v |-> UnknownVal, bad |-> TRUE]
Unresolved  == Worth(UnknownVal)

Has(v, type) == v.is = "known" /\ v.type = type

\* traverse and _index: one step into a value.
HasStep(v, step) ==
    /\ v.is = "known"
    /\ CASE step.by = "attr"  -> v.type = "object" /\ step.key \in DOMAIN v.raw
         [] step.by = "index" -> v.type = "tuple" /\ step.key + 1 \in DOMAIN v.raw

Walk(v, steps) ==
    LET Key(step) == IF step.by = "index" THEN step.key + 1 ELSE step.key
        reached[n \in 0 .. Len(steps)] ==
            IF n = 0 THEN Worth(v)
            ELSE IF ~reached[n - 1].bad /\ HasStep(reached[n - 1].v, steps[n])
            THEN Worth(reached[n - 1].v.raw[Key(steps[n])])
            ELSE Undecidable
    IN  reached[Len(steps)]

Traverse(steps, scope) ==
    IF scope.given /\ steps[1].key \in DOMAIN scope.names
    THEN Walk(scope.names[steps[1].key], Tail(steps))
    ELSE Undecidable

-----------------------------------------------------------------------------
(* operators *)

Arithmetic == {<<"+">>, <<"-">>, <<"*">>, <<"/">>, <<"%">>}
Comparison == {<<"<">>, <<"<", "=">>, <<">">>, <<">", "=">>}

Compared(op, m, n) ==
    CASE op = <<"<">> -> m < n [] op = <<"<", "=">> -> m <= n
      [] op = <<">">> -> m > n [] op = <<">", "=">> -> m >= n

\* Both round towards zero.
Quotient(m, n) == LET Size(k) == IF k < 0 THEN -k ELSE k
                      whole   == Size(m) \div Size(n)
                  IN  IF (m < 0) = (n < 0) THEN whole ELSE -whole

Calculated(op, m, n) ==
    CASE op = <<"+">> -> m + n [] op = <<"-">> -> m - n [] op = <<"*">> -> m * n
      [] op = <<"/">> -> Quotient(m, n) [] op = <<"%">> -> m - n * Quotient(m, n)

UnaryValue(op, v) ==
    CASE v.is # "known" -> Unresolved
      [] op = <<"-">> /\ Has(v, "number") -> Worth(NumberVal(-v.raw))
      [] op = <<"!">> /\ Has(v, "bool") -> Worth(BoolVal(~v.raw))
      [] OTHER -> Undecidable

BinaryValue(op, v, w) ==
    CASE IsUnknown(v) \/ IsUnknown(w) -> Unresolved
      [] op = <<"=", "=">> -> Worth(BoolVal(Same(v, w)))
      [] op = <<"!", "=">> -> Worth(BoolVal(~Same(v, w)))
      [] op \in {<<"&", "&">>, <<"|", "|">>} ->
            IF ~Has(v, "bool") \/ ~Has(w, "bool") THEN Undecidable
            ELSE Worth(BoolVal(IF op = <<"&", "&">> THEN v.raw /\ w.raw ELSE v.raw \/ w.raw))
      [] op = <<"+">> /\ Has(v, "string") /\ Has(w, "string") ->
            Worth(StringVal(v.raw \o w.raw))
      [] OTHER ->
            IF ~Has(v, "number") \/ ~Has(w, "number") THEN Undecidable
            ELSE IF op \in Comparison THEN Worth(BoolVal(Compared(op, v.raw, w.raw)))
            ELSE IF op \in {<<"/">>, <<"%">>} /\ w.raw = 0 THEN Undecidable
            ELSE Worth(NumberVal(Calculated(op, v.raw, w.raw)))

IndexValue(v, k) ==
    LET step == IF Has(k, "number") THEN At(k.raw) ELSE Attr(k.raw)
    IN  IF v.is # "known" \/ IsUnknown(k) THEN Unresolved
        ELSE IF (Has(k, "number") \/ Has(k, "string")) /\ HasStep(v, step)
        THEN Worth(v.raw[IF Has(k, "number") THEN k.raw + 1 ELSE k.raw])
        ELSE Undecidable

\* A key that is a single name is that name and no reference.
BareKey(e) == e.kind = "key" /\ e.parts[1].kind = "scope" /\ Len(e.parts[1].steps) = 1

-----------------------------------------------------------------------------
(* value, from the values of the parts *)

AnyBad(worths) == \E k \in DOMAIN worths : worths[k].bad

\* The first part that is no text decides: unknown, or a diagnostic.
TemplateValue(worths) ==
    LET Stops(k) == worths[k].bad \/ ~Convertible(worths[k].v)
        first == CHOOSE k \in DOMAIN worths : Stops(k) /\ \A m \in 1 .. k - 1 : ~Stops(m)
    IN  IF \A k \in DOMAIN worths : ~Stops(k)
        THEN Worth(StringVal(FlattenSeq([k \in DOMAIN worths |-> Text(worths[k].v)])))
        ELSE IF ~worths[first].bad /\ IsUnknown(worths[first].v) THEN Worth(UnknownString)
        ELSE Undecidable

\* A key written twice has its last value.
ObjectValue(worths) ==
    LET items   == 1 .. Len(worths) \div 2
        Name(k) == Text(worths[2 * k - 1].v)
        LastOf(name) == CHOOSE k \in items : /\ Name(k) = name
                                             /\ \A m \in items : m > k => Name(m) # name
    IN  IF \E k \in items : ~Convertible(worths[2 * k - 1].v) THEN Undecidable
        ELSE Worth(ObjectVal([name \in {Name(k) : k \in items} |-> worths[2 * LastOf(name)].v]))

\* Mutant: a condition that cannot be read is taken for true.
GuessedBranch(worths) ==
    IF worths[1].bad \/ ~Has(worths[1].v, "bool") \/ worths[1].v.raw THEN worths[2]
    ELSE worths[3]

\* Neither branch can be claimed when the condition is no known boolean.
ConditionalValue(worths) ==
    IF worths[1].bad THEN Undecidable
    ELSE IF ~Has(worths[1].v, "bool") THEN Unresolved
    ELSE worths[IF worths[1].v.raw THEN 2 ELSE 3]

\* The value of e, from what its parts are worth.
Combined(e, scope, worths) ==
    LET All(result) == IF AnyBad(worths) THEN Undecidable ELSE result
    IN  CASE e.kind = "literal"     -> Worth(e.value)
          [] e.kind = "scope"       -> Traverse(e.steps, scope)
          [] e.kind = "relative"    -> All(Walk(worths[1].v, e.steps))
          [] e.kind = "template"    -> TemplateValue(worths)
          [] e.kind \in {"wrap", "parentheses"} -> worths[1]
          [] e.kind = "tuple"       -> All(Worth(TupleVal([k \in DOMAIN worths |-> worths[k].v])))
          [] e.kind = "key"         -> IF BareKey(e) THEN Worth(StringVal(e.parts[1].steps[1].key))
                                       ELSE worths[1]
          [] e.kind = "object"      -> All(ObjectValue(worths))
          [] e.kind = "unary"       -> All(UnaryValue(e.op, worths[1].v))
          [] e.kind = "binary"      -> All(BinaryValue(e.op, worths[1].v, worths[2].v))
          [] e.kind = "conditional" -> ConditionalValue(worths)
          [] e.kind = "index"       -> All(IndexValue(worths[1].v, worths[2].v))
          [] OTHER -> Undecidable    \* calls, comprehensions and splats are not evaluated

-----------------------------------------------------------------------------
(* variables, from the references of the parts *)

\* Mutant: an operator of one operand reads nothing.
ForgetOperand(references) == <<>>

OperandReferences(references) == references[1]

\* The references in e in source order, from those of its parts.
References(e, references) ==
    CASE e.kind = "literal" -> <<>>
      [] e.kind = "scope"   -> <<e.steps>>
      [] e.kind = "key"     -> IF BareKey(e) THEN <<>> ELSE references[1]
      [] e.kind = "unary"   -> OperandReferences(references)
      [] OTHER              -> FlattenSeq(references)
=============================================================================
