-------------------------------- MODULE Values -------------------------------
(***************************************************************************)
(* hcl/values.py: the values an expression can have.  "is" tells a known   *)
(* value from null and from a value nobody knows before the plan.  A text  *)
(* is a sequence of words, a tuple a sequence of values, an object a       *)
(* function from texts to values; numbers are whole.                       *)
(***************************************************************************)
EXTENDS Integers, Sequences, TLC

CONSTANT NumberOf(_)   \* the number a sequence of digits stands for

Known(type, raw) == [is |-> "known", type |-> type, raw |-> raw]
StringVal(text)  == Known("string", text)
NumberVal(n)     == Known("number", n)
BoolVal(b)       == Known("bool", b)
TupleVal(values) == Known("tuple", values)
ObjectVal(entries) == Known("object", entries)

NullVal       == [is |-> "null", type |-> "dynamic", raw |-> <<>>]
UnknownVal    == [is |-> "unknown", type |-> "dynamic", raw |-> <<>>]
UnknownString == [is |-> "unknown", type |-> "string", raw |-> <<>>]

IsUnknown(v) == v.is = "unknown"
IsNull(v)    == v.is = "null"

\* to_string: what a template makes of a value; nothing else converts.
Convertible(v) == v.is = "known" /\ v.type \in {"string", "number", "bool"}
Text(v) == CASE v.type = "string" -> v.raw
             [] v.type = "number" -> <<ToString(v.raw)>>
             [] OTHER -> IF v.raw THEN <<"true">> ELSE <<"false">>

\* _equal.
Same(v, w) ==
    IF IsNull(v) \/ IsNull(w) THEN IsNull(v) /\ IsNull(w)
    ELSE v.type = w.type /\ v.raw = w.raw
=============================================================================
