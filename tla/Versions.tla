------------------------------ MODULE Versions ------------------------------
(***************************************************************************)
(* Releases of a provider and the constraints a repository puts on them    *)
(* (providerversion.py).  A release is the sequence of its components as   *)
(* they are written: <<3>> and <<3, 0, 0>> are the same release, but "~>"  *)
(* tells them apart.  A constraint is the set of its comma-separated       *)
(* pieces; a piece the scanner cannot read has the operator "?".           *)
(***************************************************************************)
EXTENDS Integers, Sequences

Operators == {">=", ">", "<=", "<", "!=", "=", "~>"}

\* A component that is not written counts as zero.
Component(version, i) == IF i <= Len(version) THEN version[i] ELSE 0

Width(left, right) == IF Len(left) < Len(right) THEN Len(right) ELSE Len(left)

\* _compare gives a negative number.
Before(left, right) ==
    \E i \in 1..Width(left, right) :
        /\ Component(left, i) < Component(right, i)
        /\ \A j \in 1..(i - 1) : Component(left, j) = Component(right, j)

\* _compare gives zero.
Same(left, right) ==
    \A i \in 1..Width(left, right) : Component(left, i) = Component(right, i)

\* Mutant: raises the last component that is written.
CeilingOfTheLast(version) ==
    [i \in 1..Len(version) |->
        IF i = Len(version) THEN version[i] + 1 ELSE version[i]]

\* The first release "~>" excludes: its last component is dropped, the one
\* before it raised by one.
Ceiling(version) ==
    [i \in 1..(Len(version) - 1) |->
        IF i = Len(version) - 1 THEN version[i] + 1 ELSE version[i]]

Allows(term, candidate) ==
    \/ term.operator = ">=" /\ ~Before(candidate, term.version)
    \/ term.operator = ">" /\ Before(term.version, candidate)
    \/ term.operator = "<=" /\ ~Before(term.version, candidate)
    \/ term.operator = "<" /\ Before(candidate, term.version)
    \/ term.operator = "!=" /\ ~Same(candidate, term.version)
    \/ term.operator = "=" /\ Same(candidate, term.version)
    \/ /\ term.operator = "~>"
       /\ ~Before(candidate, term.version)
       /\ Len(term.version) > 1 => Before(candidate, Ceiling(term.version))

\* What cannot be read is left out; a piece without an operator means "=".
parse_constraint(constraint) ==
    {[operator |-> IF piece.operator = "" THEN "=" ELSE piece.operator,
      version  |-> piece.version] : piece \in {q \in constraint : q.operator # "?"}}

allows(constraint, version) ==
    \A term \in parse_constraint(constraint) : Allows(term, version)

(***************************************************************************)
(* What Terraform says "~>" means: not below what is written, and only the *)
(* last component that is written may differ (~> 3.0 excludes 4.0, ~>      *)
(* 3.0.1 excludes 3.1.0).                                                  *)
(***************************************************************************)
Pessimistic(version, candidate) ==
    /\ ~Before(candidate, version)
    /\ \A i \in 1..(Len(version) - 1) : Component(candidate, i) = version[i]
=============================================================================
