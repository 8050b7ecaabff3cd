---------------------------- MODULE AnalysisProofs ---------------------------
(***************************************************************************)
(* Theorems about Analysis, for every repository, every schema and every   *)
(* number of edits by other people.                                        *)
(***************************************************************************)
EXTENDS Analysis, FiniteSetTheorems, SequenceTheorems, TLAPS

-----------------------------------------------------------------------------
(* Sequences *)

LEMMA WiderSeq ==
    ASSUME NEW S, NEW T, S \subseteq T, NEW s \in Seq(S)
    PROVE  s \in Seq(T)
<1>1. \A i \in 1..Len(s) : s[i] \in T
  BY ElementOfSeq
<1> QED BY <1>1

LEMMA TwoLong ==
    ASSUME NEW S, NEW s \in Seq(S), Len(s) = 2
    PROVE  s = <<s[1], s[2]>>
  OBVIOUS

LEMMA Prefixes ==
    ASSUME NEW t, NEW n
    PROVE  /\ <<>> \o <<n>> = <<n>>
           /\ Len(<<t>> \o <<n>>) = 2
           /\ (<<t>> \o <<n>>)[1] = t /\ (<<t>> \o <<n>>)[2] = n
<1>1. <<n>> \in Seq({t, n}) /\ <<t>> \in Seq({t, n})
  OBVIOUS
<1>2. <<>> \o <<n>> = <<n>>
  BY <1>1, ConcatEmptySeq
<1>3. Len(<<t>>) = 1 /\ Len(<<n>>) = 1 /\ <<t>>[1] = t /\ <<n>>[1] = n
  OBVIOUS
<1>4. /\ Len(<<t>> \o <<n>>) = 2
      /\ (<<t>> \o <<n>>)[1] = <<t>>[1] /\ (<<t>> \o <<n>>)[2] = <<n>>[1]
  BY <1>1, <1>3, ConcatProperties
<1> QED BY <1>2, <1>3, <1>4

LEMMA Pair ==
    ASSUME NEW t, NEW n
    PROVE  <<t>> \o <<n>> = <<t, n>>
<1>1. <<t>> \o <<n>> \in Seq({t, n})
  <2>1. <<t>> \in Seq({t, n}) /\ <<n>> \in Seq({t, n})
    OBVIOUS
  <2> QED BY <2>1, ConcatProperties
<1>2. <<t>> \o <<n>> = <<(<<t>> \o <<n>>)[1], (<<t>> \o <<n>>)[2]>>
  BY <1>1, Prefixes, TwoLong
<1> QED BY <1>2, Prefixes

\* Three pieces of a sequence put together, the middle one a single element.
Joined(u, b, e, t) ==
    /\ Len(u) = Len(b) + 1 + Len(t)
    /\ \A i \in 1..Len(b) : u[i] = b[i]
    /\ u[Len(b) + 1] = e
    /\ \A i \in 1..Len(t) : u[Len(b) + 1 + i] = t[i]

LEMMA Join ==
    ASSUME NEW S, NEW b \in Seq(S), NEW e \in S, NEW t \in Seq(S)
    PROVE  b \o <<e>> \o t \in Seq(S) /\ Joined(b \o <<e>> \o t, b, e, t)
<1>1. <<e>> \in Seq(S) /\ Len(<<e>>) = 1 /\ <<e>>[1] = e /\ Len(b) \in Nat /\ Len(t) \in Nat
  OBVIOUS
<1>2. b \o <<e>> \in Seq(S) /\ Len(b \o <<e>>) = Len(b) + 1
  BY <1>1, ConcatProperties
<1>3. /\ \A i \in 1..Len(b) : (b \o <<e>>)[i] = b[i]
      /\ (b \o <<e>>)[Len(b) + 1] = e
  BY <1>1
<1> DEFINE c == b \o <<e>>
<1> HIDE DEF c
<1>4. c \in Seq(S) /\ Len(c) = Len(b) + 1
  BY <1>2 DEF c
<1>5. c \o t \in Seq(S) /\ Len(c \o t) = Len(b) + 1 + Len(t)
  <2>1. c \o t \in Seq(S) /\ Len(c \o t) = Len(c) + Len(t)
    BY <1>4, ConcatProperties
  <2> QED BY <1>1, <1>4, <2>1
<1>6. /\ \A i \in 1..(Len(b) + 1) : (c \o t)[i] = c[i]
      /\ \A i \in 1..Len(t) : (c \o t)[Len(b) + 1 + i] = t[i]
  BY <1>1, <1>4
<1>7. /\ \A i \in 1..Len(b) : c[i] = b[i]
      /\ c[Len(b) + 1] = e
  BY <1>3 DEF c
<1>8. /\ \A i \in 1..Len(b) : (c \o t)[i] = b[i]
      /\ (c \o t)[Len(b) + 1] = e
  <2>1. Len(b) + 1 \in 1..(Len(b) + 1) /\ \A i \in 1..Len(b) : i \in 1..(Len(b) + 1)
    BY <1>1
  <2> QED BY <1>6, <1>7, <2>1, Zenon
<1>9. Joined(c \o t, b, e, t)
  BY <1>5, <1>6, <1>8 DEF Joined
<1> QED BY <1>5, <1>9 DEF c

LEMMA LastPair ==
    ASSUME NEW S, NEW s \in Seq(S), NEW n \in Nat, n = Len(s), n >= 2
    PROVE  SubSeq(s, n - 1, n) = <<s[n - 1], s[n]>>
<1>1. n - 1 \in Int /\ n \in Int /\ n - 1 <= n /\ n - (n - 1) + 1 = 2
  OBVIOUS
<1>2. \A i \in (n - 1)..n : s[i] \in S
  BY ElementOfSeq
<1>3. /\ SubSeq(s, n - 1, n) \in Seq(S) /\ Len(SubSeq(s, n - 1, n)) = 2
      /\ \A i \in 1..2 : SubSeq(s, n - 1, n)[i] = s[(n - 1) + i - 1]
  BY <1>1, <1>2, SubSeqProperties
<1>4. (n - 1) + 1 - 1 = n - 1 /\ (n - 1) + 2 - 1 = n
  OBVIOUS
<1>5. SubSeq(s, n - 1, n)[1] = s[n - 1] /\ SubSeq(s, n - 1, n)[2] = s[n]
  BY <1>3, <1>4
<1> QED BY <1>3, <1>5, TwoLong

LEMMA Pieces ==
    ASSUME NEW S, NEW s \in Seq(S), NEW k \in 1..Len(s)
    PROVE  /\ SubSeq(s, 1, k - 1) \in Seq(S) /\ Len(SubSeq(s, 1, k - 1)) = k - 1
           /\ \A i \in 1..(k - 1) : SubSeq(s, 1, k - 1)[i] = s[i]
           /\ SubSeq(s, k + 1, Len(s)) \in Seq(S) /\ Len(SubSeq(s, k + 1, Len(s))) = Len(s) - k
           /\ \A i \in 1..(Len(s) - k) : SubSeq(s, k + 1, Len(s))[i] = s[k + i]
<1>1. Len(s) \in Nat /\ k \in Nat /\ k - 1 \in Int /\ k + 1 \in Int /\ Len(s) \in Int /\ 1 \in Int
  OBVIOUS
<1>2. \A i \in 1..Len(s) : s[i] \in S
  BY ElementOfSeq
<1>3. \A i \in 1..(k - 1) : s[i] \in S
  BY <1>1, <1>2
<1>4. \A i \in (k + 1)..Len(s) : s[i] \in S
  BY <1>1, <1>2
<1>5. /\ SubSeq(s, 1, k - 1) \in Seq(S)
      /\ Len(SubSeq(s, 1, k - 1)) = IF 1 <= k - 1 THEN (k - 1) - 1 + 1 ELSE 0
      /\ \A i \in 1..((k - 1) - 1 + 1) : SubSeq(s, 1, k - 1)[i] = s[1 + i - 1]
  BY <1>1, <1>3, SubSeqProperties
<1>6. /\ SubSeq(s, k + 1, Len(s)) \in Seq(S)
      /\ Len(SubSeq(s, k + 1, Len(s))) = IF k + 1 <= Len(s) THEN Len(s) - (k + 1) + 1 ELSE 0
      /\ \A i \in 1..(Len(s) - (k + 1) + 1) : SubSeq(s, k + 1, Len(s))[i] = s[(k + 1) + i - 1]
  BY <1>1, <1>4, SubSeqProperties
<1>7. \A i \in 1..(Len(s) - k) : SubSeq(s, k + 1, Len(s))[i] = s[k + i]
  <2>1. Len(s) - (k + 1) + 1 = Len(s) - k
    BY <1>1
  <2>2. \A i \in 1..(Len(s) - k) : (k + 1) + i - 1 = k + i
    BY <1>1
  <2> QED BY <1>6, <2>1, <2>2
<1>8. \A i \in 1..(k - 1) : SubSeq(s, 1, k - 1)[i] = s[i]
  <2>1. (k - 1) - 1 + 1 = k - 1
    BY <1>1
  <2>2. \A i \in 1..(k - 1) : 1 + i - 1 = i
    BY <1>1
  <2> QED BY <1>5, <2>1, <2>2
<1>9. Len(SubSeq(s, 1, k - 1)) = k - 1 /\ Len(SubSeq(s, k + 1, Len(s))) = Len(s) - k
  BY <1>1, <1>5, <1>6
<1> QED BY <1>5, <1>6, <1>7, <1>8, <1>9

-----------------------------------------------------------------------------
(* Paths in order *)

LEMMA Standing ==
    ASSUME NEW chosen, NEW n \in Nat
    PROVE  /\ Positions(chosen, n) \subseteq 1..n
           /\ IsFiniteSet(Positions(chosen, n))
           /\ Cardinality(Positions(chosen, n)) \in Nat
<1>1. Positions(chosen, n) \subseteq 1..n
  BY DEF Positions
<1>2. IsFiniteSet(1..n)
  BY FS_Interval
<1>3. IsFiniteSet(Positions(chosen, n))
  BY <1>1, <1>2, FS_Subset
<1> QED BY <1>1, <1>3, FS_CardinalityType

\* Of two paths of a set the later one has the higher rank.
LEMMA RankGrows ==
    ASSUME NEW chosen, NEW n \in Nat,
           NEW i \in Positions(chosen, n), NEW j \in Positions(chosen, n), i < j
    PROVE  Cardinality(Positions(chosen, i)) < Cardinality(Positions(chosen, j))
<1>1. i \in Nat /\ j \in Nat /\ j \in Positions(chosen, j)
  BY DEF Positions
<1>2. /\ IsFiniteSet(Positions(chosen, j))
      /\ Cardinality(Positions(chosen, i)) \in Nat
      /\ Cardinality(Positions(chosen, j)) \in Nat
  BY <1>1, Standing
<1>3. Positions(chosen, i) \subseteq Positions(chosen, j) \ {j}
  BY <1>1 DEF Positions
<1>4. /\ IsFiniteSet(Positions(chosen, j) \ {j})
      /\ Cardinality(Positions(chosen, j) \ {j}) = Cardinality(Positions(chosen, j)) - 1
  BY <1>1, <1>2, FS_RemoveElement
<1>5. Cardinality(Positions(chosen, i)) <= Cardinality(Positions(chosen, j) \ {j})
  BY <1>3, <1>4, FS_Subset
<1> QED BY <1>2, <1>4, <1>5

LEMMA RankIsBijection ==
    ASSUME NEW chosen, NEW n \in Nat
    PROVE  LET all  == Positions(chosen, n)
               rank == [i \in all |-> Cardinality(Positions(chosen, i))]
           IN  rank \in Bijection(all, 1..Cardinality(all))
<1> DEFINE all  == Positions(chosen, n)
           m    == Cardinality(all)
           rank == [i \in all |-> Cardinality(Positions(chosen, i))]
<1>1. all \subseteq 1..n /\ IsFiniteSet(all) /\ m \in Nat
  BY Standing
<1>2. ASSUME NEW i \in all
      PROVE  Cardinality(Positions(chosen, i)) \in 1..m
  <2>1. i \in Nat /\ i \in Positions(chosen, i) /\ Positions(chosen, i) \subseteq all
    BY DEF Positions
  <2>2. IsFiniteSet(Positions(chosen, i)) /\ Cardinality(Positions(chosen, i)) \in Nat
    BY <2>1, Standing
  <2>3. Cardinality(Positions(chosen, i)) # 0
    BY <2>1, <2>2, FS_EmptySet
  <2>4. Cardinality(Positions(chosen, i)) <= m
    BY <1>1, <2>1, FS_Subset
  <2> QED BY <1>1, <2>2, <2>3, <2>4
<1>3. ASSUME NEW i \in all, NEW j \in all, rank[i] = rank[j]
      PROVE  i = j
  <2>1. i \in Nat /\ j \in Nat
    BY <1>1
  <2>2. Cardinality(Positions(chosen, i)) = Cardinality(Positions(chosen, j))
    BY <1>3
  <2>3. Cardinality(Positions(chosen, i)) \in Nat
    BY <2>1, Standing
  <2>4. ~(i < j)
    <3> SUFFICES ASSUME i < j PROVE FALSE
      OBVIOUS
    <3>1. Cardinality(Positions(chosen, i)) < Cardinality(Positions(chosen, j))
      BY RankGrows
    <3> QED BY <3>1, <2>2, <2>3
  <2>5. ~(j < i)
    <3> SUFFICES ASSUME j < i PROVE FALSE
      OBVIOUS
    <3>1. Cardinality(Positions(chosen, j)) < Cardinality(Positions(chosen, i))
      BY RankGrows
    <3> QED BY <3>1, <2>2, <2>3
  <2> QED BY <2>1, <2>4, <2>5
<1>4. rank \in Injection(all, 1..m)
  BY <1>2, <1>3 DEF Injection, IsInjective
<1>5. IsFiniteSet(1..m) /\ Cardinality(1..m) = m
  BY <1>1, FS_Interval
<1>6. rank \in Surjection(all, 1..m)
  BY <1>4, <1>5, FS_Injection
<1> QED BY <1>4, <1>6 DEF Bijection

(***************************************************************************)
(* Put in order, a set of paths loses none and gains none.                 *)
(***************************************************************************)
LEMMA OrderedRange ==
    ASSUME NEW chosen
    PROVE  /\ Ordered(chosen) \in Seq(chosen \cap PathSet)
           /\ \A p \in chosen \cap PathSet :
                  \E k \in 1..Len(Ordered(chosen)) : Ordered(chosen)[k] = p
<1> DEFINE n    == Len(Paths)
           all  == Positions(chosen, n)
           m    == Cardinality(all)
           rank == [i \in all |-> Cardinality(Positions(chosen, i))]
           At(k) == CHOOSE i \in all : Cardinality(Positions(chosen, i)) = k
<1>1. Paths \in Seq(STRING) /\ n \in Nat /\ DOMAIN Paths = 1..n
  BY PathsAssumption
<1>2. m \in Nat
  BY <1>1, Standing
<1>3. rank \in Bijection(all, 1..m)
  BY <1>1, RankIsBijection
<1>4. Ordered(chosen) = [k \in 1..m |-> Paths[At(k)]]
  BY DEF Ordered
<1>5. ASSUME NEW k \in 1..m
      PROVE  At(k) \in all /\ rank[At(k)] = k
  <2>1. \E i \in all : rank[i] = k
    BY <1>3 DEF Bijection, Surjection
  <2>2. \E i \in all : Cardinality(Positions(chosen, i)) = k
    BY <2>1
  <2> QED BY <2>2
<1>6. \A i \in all : Paths[i] \in chosen \cap PathSet
  BY <1>1 DEF Positions, PathSet
<1>7. \A k \in 1..m : Paths[At(k)] \in chosen \cap PathSet
  BY <1>5, <1>6
<1>8. Ordered(chosen) \in [1..m -> chosen \cap PathSet]
  BY <1>4, <1>7
<1>9. Ordered(chosen) \in Seq(chosen \cap PathSet) /\ Len(Ordered(chosen)) = m
  BY <1>2, <1>8
<1>10. ASSUME NEW p \in chosen \cap PathSet
       PROVE  \E k \in 1..m : Ordered(chosen)[k] = p
  <2>1. PICK i \in 1..n : Paths[i] = p
    BY <1>1 DEF PathSet
  <2>2. i \in all
    BY <2>1, <1>10 DEF Positions
  <2>3. rank[i] \in 1..m
    BY <1>3, <2>2 DEF Bijection, Surjection
  <2>4. At(rank[i]) \in all /\ rank[At(rank[i])] = rank[i]
    BY <2>3, <1>5
  <2>5. At(rank[i]) = i
    BY <2>2, <2>4, <1>3 DEF Bijection, Injection, IsInjective
  <2> QED BY <1>4, <2>1, <2>3, <2>5
<1> QED BY <1>9, <1>10

-----------------------------------------------------------------------------
(* Addresses *)

LEMMA FirstAndLastKey ==
    ASSUME NEW addr \in Address, Cardinality(KeyedPositions(addr)) <= 1,
           KeyedPositions(addr) # {}
    PROVE  \E k \in DOMAIN addr : KeyedPositions(addr) = {k}
<1>1. KeyedPositions(addr) \subseteq 1..Len(addr) /\ Len(addr) \in Nat
  BY DEF KeyedPositions, Address
<1>2. IsFiniteSet(KeyedPositions(addr))
  <2>1. IsFiniteSet(1..Len(addr))
    BY <1>1, FS_Interval
  <2> QED BY <1>1, <2>1, FS_Subset
<1>3. Cardinality(KeyedPositions(addr)) = 1
  BY <1>2, FS_EmptySet, FS_CardinalityType
<1>4. PICK k : KeyedPositions(addr) = {k}
  BY <1>2, <1>3, FS_Singleton
<1> QED BY <1>4 DEF KeyedPositions

\* Up to one key, nothing but the key is cut away.
LEMMA KeyIsCut ==
    ASSUME NEW addr \in Address, Cardinality(KeyedPositions(addr)) <= 1
    PROVE  /\ Unkeyed(addr) \in Address /\ Len(Unkeyed(addr)) = Len(addr)
           /\ \A i \in 1..Len(addr) : Unkeyed(addr)[i] = Segment(addr[i].name)
<1> DEFINE Segments == [name : STRING, keyed : BOOLEAN]
<1>1. addr \in Seq(Segments) /\ Len(addr) \in Nat /\ DOMAIN addr = 1..Len(addr)
  BY DEF Address
<1>2. \A i \in 1..Len(addr) : addr[i] \in Segments
  BY <1>1, ElementOfSeq
<1>3. \A i \in 1..Len(addr) : Segment(addr[i].name) \in Segments
  BY <1>2 DEF Segment
<1>4. \A i \in 1..Len(addr) : i \notin KeyedPositions(addr) => Segment(addr[i].name) = addr[i]
  BY <1>1, <1>2 DEF Segment, KeyedPositions
<1>5. CASE KeyedPositions(addr) = {}
  <2>1. Unkeyed(addr) = addr
    BY <1>5 DEF Unkeyed
  <2> QED BY <2>1, <1>4, <1>5
<1>6. CASE KeyedPositions(addr) # {}
  <2>1. PICK k \in 1..Len(addr) : KeyedPositions(addr) = {k}
    BY <1>1, <1>6, FirstAndLastKey
  <2> DEFINE before == SubSeq(addr, 1, k - 1)
             after  == SubSeq(addr, k + 1, Len(addr))
  <2>2. Unkeyed(addr) = before \o <<Segment(addr[k].name)>> \o after
    <3>1. (CHOOSE i \in KeyedPositions(addr) : \A j \in KeyedPositions(addr) : i <= j) = k
      BY <2>1
    <3>2. (CHOOSE i \in KeyedPositions(addr) : \A j \in KeyedPositions(addr) : j <= i) = k
      BY <2>1
    <3> QED BY <1>6, <3>1, <3>2 DEF Unkeyed
  <2>3. /\ before \in Seq(Segments) /\ Len(before) = k - 1
        /\ \A i \in 1..(k - 1) : before[i] = addr[i]
        /\ after \in Seq(Segments) /\ Len(after) = Len(addr) - k
        /\ \A i \in 1..(Len(addr) - k) : after[i] = addr[k + i]
    BY <1>1, Pieces
  <2>4. Segment(addr[k].name) \in Segments
    BY <1>3
  <2> HIDE DEF before, after, Segments
  <2>5. /\ Unkeyed(addr) \in Seq(Segments)
        /\ Len(Unkeyed(addr)) = Len(before) + 1 + Len(after)
        /\ \A i \in 1..Len(before) : Unkeyed(addr)[i] = before[i]
        /\ Unkeyed(addr)[Len(before) + 1] = Segment(addr[k].name)
        /\ \A i \in 1..Len(after) : Unkeyed(addr)[Len(before) + 1 + i] = after[i]
    <3> DEFINE e == Segment(addr[k].name)
               u == before \o <<e>> \o after
    <3>1. Unkeyed(addr) = u /\ e \in Segments
      BY <2>2, <2>4
    <3> HIDE DEF e
    <3>2. u \in Seq(Segments) /\ Joined(u, before, e, after)
      BY <2>3, <3>1, Join
    <3> HIDE DEF u
    <3> QED BY <3>1, <3>2 DEF e, Joined
  <2>6. /\ Len(Unkeyed(addr)) = Len(addr)
        /\ \A i \in 1..(k - 1) : Unkeyed(addr)[i] = addr[i]
        /\ Unkeyed(addr)[k] = Segment(addr[k].name)
        /\ \A i \in 1..(Len(addr) - k) : Unkeyed(addr)[k + i] = addr[k + i]
    <3>1. (k - 1) + 1 = k /\ (k - 1) + 1 + (Len(addr) - k) = Len(addr)
      BY <1>1, <2>1
    <3> QED BY <2>3, <2>5, <3>1
  <2>7. ASSUME NEW i \in 1..Len(addr)
        PROVE  Unkeyed(addr)[i] = Segment(addr[i].name)
    <3>1. CASE i < k
      <4>1. Unkeyed(addr)[i] = addr[i] /\ i \notin KeyedPositions(addr)
        BY <1>1, <2>1, <2>6, <3>1
      <4> QED BY <4>1, <1>4
    <3>2. CASE i = k
      BY <2>6, <3>2
    <3>3. CASE i > k
      <4>1. i - k \in 1..(Len(addr) - k) /\ k + (i - k) = i
        BY <1>1, <2>1, <3>3
      <4>2. Unkeyed(addr)[k + (i - k)] = addr[k + (i - k)]
        BY <2>6, <4>1
      <4>3. i \notin KeyedPositions(addr)
        BY <1>1, <2>1, <3>3
      <4> QED BY <4>1, <4>2, <4>3, <1>4
    <3> QED BY <1>1, <2>1, <3>1, <3>2, <3>3
  <2> QED BY <2>5, <2>6, <2>7 DEF Address, Segments
<1> QED BY <1>5, <1>6

-----------------------------------------------------------------------------
(* The rules *)

LEMMA Literals ==
    ASSUME NEW text
    PROVE  Literal(text).value = text /\ Literal(text).literal /\ ~NotLiteral.literal
  BY DEF Literal, NotLiteral

LEMMA OneBlock ==
    ASSUME NEW r, NEW t, Cardinality(BlocksOf(r, t)) = 1
    PROVE  t \in BlockTypes(r)
<1>1. BlocksOf(r, t) # {}
  BY FS_EmptySet
<1> QED BY <1>1 DEF BlocksOf, BlockTypes

LEMMA RulesSay ==
    ASSUME NEW file, NEW scope, NEW f \in FindingsIn(file, scope)
    PROVE  f.rule \in {"unparsable_file", "unparsable_base_file", "force_new_change",
                       "unknown_attribute", "missing_lifecycle"}
<1>1. CASE f \in Unanalysed(file)
  BY <1>1 DEF Unanalysed, Finding
<1>2. CASE f \in UnknownAttributeRule(file.path, file.head.resources)
  BY <1>2 DEF UnknownAttributeRule, Finding
<1>3. CASE f \in MissingLifecycleRule(file.path, file.head.resources)
  BY <1>3 DEF MissingLifecycleRule, Finding
<1>4. CASE f \in ForceNewChangeRule(file.path, file.head.resources, BaseResources(file), scope)
  <2>1. ASSUME NEW path, NEW addr, NEW prefix, NEW names, NEW h, NEW b, NEW severity,
               f \in CompareAll(path, addr, prefix, names, h, b, severity)
        PROVE  f.rule = "force_new_change"
    <3>1. PICK n : f \in Compare(path, addr, prefix \o <<n>>, h[n], b[n], severity)
      BY <2>1 DEF CompareAll
    <3> QED BY <3>1 DEF Compare, Finding
  <2>2. PICK a : f \in ForceNewChanges(file.path, a, file.head.resources[a],
                                       BaseResources(file)[a], scope)
    BY <1>4 DEF ForceNewChangeRule
  <2> DEFINE r == file.head.resources[a]
             b == BaseResources(file)[a]
             spec == Schema[r.type]
             severity == IF spec.critical THEN "critical" ELSE "high"
             top == <<>>
             within(t) == <<t>>
  <2>3. \/ f \in CompareAll(file.path, a, top, spec.top, Evaluated(r.attrs, scope),
                            Evaluated(b.attrs, NoScope), severity)
        \/ \E t : f \in CompareAll(file.path, a, within(t), spec.nested[t],
                                    Evaluated(FindBlock(r, t), scope),
                                    Evaluated(FindBlock(b, t), NoScope), severity)
    BY <2>2 DEF ForceNewChanges
  <2> HIDE DEF r, b, spec, severity, top, within
  <2> QED BY <2>1, <2>3
<1> QED BY <1>1, <1>2, <1>3, <1>4 DEF FindingsIn

LEMMA DriftFrom ==
    ASSUME NEW changes, NEW what, NEW f \in DriftRule(changes, what)
    PROVE  \E c \in changes : \E n \in Updated(c) :
               /\ f = PlanFinding("unexpected_drift", c, <<n>>, "medium")
               /\ <<n>> \notin Explained(c, what)
<1>1. PICK c \in changes :
         f \in {PlanFinding("unexpected_drift", c, <<n>>, "medium") :
                  n \in {m \in Updated(c) \cap Schema[c.type].top : <<m>> \notin Explained(c, what)}}
  BY DEF DriftRule
<1>2. PICK n \in {m \in Updated(c) \cap Schema[c.type].top : <<m>> \notin Explained(c, what)} :
         f = PlanFinding("unexpected_drift", c, <<n>>, "medium")
  BY <1>1
<1> QED BY <1>2

\* The resources a file has in both revisions.
Own(file) ==
    IF file.head.parses THEN DOMAIN file.head.resources \cap DOMAIN BaseResources(file) ELSE {}

\* What is known of the changed attributes after a file.
ChangedBy(new, file, scope, before) ==
    /\ DOMAIN new = Own(file) \cup DOMAIN before
    /\ \A a \in Own(file) :
           new[a] = ChangedAttrs(file.head.resources[a], BaseResources(file)[a], scope)
    /\ \A a \in DOMAIN before \ Own(file) : new[a] = before[a]

LEMMA ChangedInFile ==
    ASSUME NEW file, NEW scope, NEW before
    PROVE  ChangedBy(ChangedIn(file, scope, before), file, scope, before)
  BY DEF ChangedIn, ChangedBy, Own

-----------------------------------------------------------------------------
(* The analysis run *)

Fixing == pc \in {"confirm", "check", "write"}

\* Between the last look at a file and the write it is what was looked at,
\* unless somebody edited it since.
LookedAt ==
    /\ repo \in Repository
    /\ Fixing => fixing.path \in PathSet /\ fixing.text \in Contents
    /\ pc = "write" => repo.disk[fixing.path] = sources[fixing.path] \/ late

LEMMA RevisionsStay ==
    ASSUME repo \in Repository, NEW p \in PathSet, NEW c \in Contents \cup {Missing}
    PROVE  /\ [repo EXCEPT !.disk[p] = c] \in Repository
           /\ [repo EXCEPT !.tip[p] = c] \in Repository
           /\ \A q \in PathSet : [repo EXCEPT !.tip[p] = c].disk[q] = repo.disk[q]
           /\ \A q \in PathSet : q # p => [repo EXCEPT !.disk[p] = c].disk[q] = repo.disk[q]
  BY DEF Repository, Revision

LEMMA SomebodyElse ==
    ASSUME LookedAt, Elsewhere
    PROVE  LookedAt'
<1> USE DEF LookedAt, Fixing
<1>1. ASSUME NEW p \in PathSet, NEW c \in Contents \cup {Missing}, Edit(p, c)
      PROVE  LookedAt'
  <2>1. repo' = [repo EXCEPT !.disk[p] = c] /\ UNCHANGED <<pc, fixing, sources>>
        /\ late' = (late \/ (pc = "write" /\ p = fixing.path))
    BY <1>1 DEF Edit, Change, fixed
  <2>2. CASE p = fixing.path
    BY <2>1, <2>2, RevisionsStay
  <2>3. CASE p # fixing.path
    <3>1. repo' \in Repository
      BY <2>1, RevisionsStay
    <3>2. pc = "write" => repo'.disk[fixing.path] = repo.disk[fixing.path]
      BY <2>1, <2>3, RevisionsStay
    <3>3. late => late'
      BY <2>1
    <3> QED BY <2>1, <3>1, <3>2, <3>3
  <2> QED BY <2>2, <2>3
<1>2. ASSUME NEW p \in PathSet, NEW c \in Contents \cup {Missing}, BaseMoves(p, c)
      PROVE  LookedAt'
  <2>1. repo' = [repo EXCEPT !.tip[p] = c] /\ UNCHANGED <<pc, fixing, sources, late>>
    BY <1>2 DEF BaseMoves, Change, fixed
  <2>2. repo' \in Repository
    BY <2>1, RevisionsStay
  <2>3. pc = "write" => repo'.disk[fixing.path] = repo.disk[fixing.path]
    BY <2>1, RevisionsStay
  <2> QED BY <2>1, <2>2, <2>3
<1>3. ASSUME NEW p \in PathSet, Stage(p)
      PROVE  LookedAt'
  <2>1. repo' = [repo EXCEPT !.index[p] = repo.disk[p]] /\ UNCHANGED <<pc, fixing, sources, late>>
    BY <1>3 DEF Stage, Change, fixed
  <2> QED BY <2>1 DEF Repository, Revision
<1>4. ASSUME Commit
      PROVE  LookedAt'
  <2>1. repo' = [repo EXCEPT !.head = repo.index] /\ UNCHANGED <<pc, fixing, sources, late>>
    BY <1>4 DEF Commit, Change, fixed
  <2> QED BY <2>1 DEF Repository, Revision
<1> QED BY <1>1, <1>2, <1>3, <1>4 DEF Elsewhere

LEMMA TheScan ==
    ASSUME LookedAt, Scan \/ \E j \in Jobs : StartScan(j)
    PROVE  LookedAt'
<1> USE DEF LookedAt, Fixing
<1>1. ASSUME NEW j \in Jobs, StartScan(j) PROVE LookedAt'
  BY <1>1 DEF StartScan, Goto
<1>2. CASE Fail \/ ListFiles \/ ReadNext \/ NothingToRead
  BY <1>2 DEF Fail, ListFiles, ReadNext, NothingToRead, Goto
<1>3. CASE InspectNext \/ Judge \/ ReadPlan
  BY <1>3 DEF InspectNext, Judge, ReadPlan, Goto
<1>4. CASE Others \/ Propose \/ NothingToFix
  BY <1>4 DEF Others, Propose, NothingToFix, Goto
<1>5. ASSUME NEW p \in PathSet, NEW c \in Corrections, Request(p, c)
      PROVE  LookedAt'
  <2>1. repo' = repo /\ pc' \in {"request", "ended", "confirm"}
    BY <1>5 DEF Request, NextFile, Break, Goto
  <2>2. pc' = "confirm" => fixing' = [path |-> p, text |-> c]
    BY <1>5 DEF Request, NextFile, Break, Goto
  <2> QED BY <2>1, <2>2, ContentsAssumption
<1>6. CASE Confirm
  <2>1. repo' = repo /\ fixing' = fixing /\ pc = "confirm" /\ pc' \in {"request", "ended", "check"}
    BY <1>6 DEF Confirm, NextFile, Break, Goto
  <2> QED BY <2>1
<1>7. CASE Check
  <2>1. /\ repo' = repo /\ fixing' = fixing /\ sources' = sources /\ pc = "check"
        /\ pc' \in {"write", "ended"}
        /\ pc' = "write" => repo.disk[fixing.path] = sources[fixing.path]
    BY <1>7 DEF Check, Goto
  <2> QED BY <2>1
<1>8. CASE Write
  <2>1. /\ pc = "write" /\ pc' \in {"request", "ended"}
        /\ repo' \in {repo, [repo EXCEPT !.disk[fixing.path] = fixing.text],
                            [repo EXCEPT !.disk[fixing.path] = Torn]}
    BY <1>8 DEF Write, NextFile, Break, Goto
  <2>2. /\ repo \in Repository /\ fixing.path \in PathSet
        /\ fixing.text \in Contents \cup {Missing} /\ Torn \in Contents \cup {Missing}
    BY <2>1, ContentsAssumption
  <2>3. /\ [repo EXCEPT !.disk[fixing.path] = fixing.text] \in Repository
        /\ [repo EXCEPT !.disk[fixing.path] = Torn] \in Repository
    BY <2>2, RevisionsStay
  <2>4. repo' \in Repository
    BY <2>1, <2>2, <2>3, Zenon
  <2> QED BY <2>1, <2>4
<1> QED BY <1>1, <1>2, <1>3, <1>4, <1>5, <1>6, <1>7, <1>8 DEF Scan

(***************************************************************************)
(* A correction never writes over anything but what it was computed from,  *)
(* save for an edit after the last comparison (accept_local), whatever     *)
(* other people do and however often.                                      *)
(***************************************************************************)
THEOREM NoEditIsLost == Spec => NoEditOverwritten
<1>1. Init => LookedAt
  BY WorldsAssumption DEF Init, LookedAt, Fixing
<1>2. LookedAt /\ [Next]_vars => LookedAt'
  <2>1. CASE UNCHANGED vars
    BY <2>1 DEF LookedAt, Fixing, vars, fixed, history
  <2> QED BY <2>1, SomebodyElse, TheScan DEF Next
<1>3. LookedAt => (pc = "write" => repo.disk[fixing.path] = sources[fixing.path] \/ late)
  BY DEF LookedAt
<1>4. Spec => []LookedAt
  BY <1>1, <1>2, PTL DEF Spec
<1>5. LookedAt /\ [Next]_vars
      => [pc = "write" /\ pc' # "write" /\ repo' # repo
            => repo.disk[fixing.path] = sources[fixing.path] \/ late]_vars
  BY <1>3
<1> QED BY <1>4, <1>5, PTL DEF Spec, NoEditOverwritten

-----------------------------------------------------------------------------
(* What the plan takes out of the report *)

\* Behind the rules, nothing is missing but what was silenced.
Kept ==
    /\ pc = "plan" => findings = DropSilenced(DropContradicted(raised, pins), files, job.ignored)
    /\ OnlyReplacementsGiveWay

\* A step that only adds findings.
LEMMA FindingsStay ==
    ASSUME Kept, Judged, findings \subseteq findings', UNCHANGED <<job, raised, pins, files>>,
           pc' # "plan"
    PROVE  Kept'
<1>1. ASSUME NEW f \in raised
      PROVE  \/ f \in findings'
             \/ f \notin DropSilenced(DropContradicted(raised, pins), files, job.ignored)
             \/ /\ f.rule = "force_new_change"
                /\ \E g \in findings' :
                      /\ g.rule = "confirmed_replace"
                      /\ bare_resource_address(g.address) = bare_resource_address(f.address)
  BY DEF Kept, OnlyReplacementsGiveWay
<1> QED BY <1>1 DEF Kept, OnlyReplacementsGiveWay

LEMMA PlanStep ==
    ASSUME Kept, ReadPlan
    PROVE  Kept'
<1> DEFINE D == DropSilenced(DropContradicted(raised, pins), files, job.ignored)
           P == run_plan_rules(job.plan, changed, job.threshold, job.ignored)
<1>1. findings = D /\ pc' = "others" /\ UNCHANGED <<job, raised, pins, files>>
  BY DEF Kept, ReadPlan, Goto
<1>2. findings' = IF job.plan = {} THEN findings ELSE MergePlan(findings, P)
  BY DEF ReadPlan
<1>3. ASSUME NEW f \in raised, f \in D, f \notin findings'
      PROVE  /\ f.rule = "force_new_change"
             /\ \E g \in findings' :
                   /\ g.rule = "confirmed_replace"
                   /\ bare_resource_address(g.address) = bare_resource_address(f.address)
  <2>1. findings' = {g \in findings : ~Superseded(g, P)} \cup P
    BY <1>1, <1>2, <1>3 DEF MergePlan
  <2>2. Superseded(f, P)
    BY <1>1, <1>3, <2>1
  <2>3. bare_resource_address(f.address) \in Confirmed(P) /\ f.rule = "force_new_change"
    BY <2>2 DEF Superseded
  <2>4. PICK g \in P : /\ g.rule = "confirmed_replace"
                       /\ bare_resource_address(f.address) = bare_resource_address(g.address)
    BY <2>3 DEF Confirmed
  <2> QED BY <2>1, <2>3, <2>4
<1> QED BY <1>1, <1>3 DEF Kept, OnlyReplacementsGiveWay

(***************************************************************************)
(* Whatever plan is given, it hides a finding of the rules only if that is *)
(* a ForceNew guess and the plan itself reports the replacement            *)
(* (deduplicate_force_new_against_plan).                                   *)
(***************************************************************************)
THEOREM PlansHideOnlyWhatTheyConfirm == Spec => []OnlyReplacementsGiveWay
<1>1. Init => Kept
  BY DEF Init, Kept, OnlyReplacementsGiveWay, Judged
<1>2. ASSUME Kept, [Next]_vars
      PROVE  Kept'
  <2>1. CASE UNCHANGED <<pc, job, raised, pins, files, findings>>
    BY <1>2, <2>1 DEF Kept, OnlyReplacementsGiveWay, Judged
  <2>2. CASE Elsewhere \/ UNCHANGED vars
    <3>1. UNCHANGED <<pc, job, raised, pins, files, findings>>
      BY <2>2 DEF Elsewhere, Edit, BaseMoves, Stage, Commit, Change, scanning, vars
    <3> QED BY <3>1, <2>1
  <2>3. ASSUME pc' \notin {"plan", "others", "propose", "request", "confirm", "check", "write"}
        PROVE  Kept'
    BY <2>3 DEF Kept, OnlyReplacementsGiveWay, Judged
  <2>4. CASE Fail \/ ListFiles \/ ReadNext \/ NothingToRead \/ InspectNext \/ NothingToFix
             \/ \E j \in Jobs : StartScan(j)
    <3>1. CASE InspectNext
      <4>1. pc = "inspect" /\ pc' = pc
        BY <3>1 DEF InspectNext
      <4> QED BY <4>1, <2>3
    <3>2. CASE Fail \/ ListFiles \/ ReadNext \/ NothingToRead \/ NothingToFix
               \/ \E j \in Jobs : StartScan(j)
      <4>1. pc' \in {"ended", "read", "inspect", "list"}
        BY <3>2 DEF Fail, ListFiles, ReadNext, NothingToRead, NothingToFix, StartScan, Goto
      <4> QED BY <4>1, <2>3
    <3> QED BY <2>4, <3>1, <3>2
  <2>5. CASE Judge
    BY <2>5 DEF Judge, Kept, OnlyReplacementsGiveWay, Judged, Goto
  <2>6. CASE ReadPlan
    BY <1>2, <2>6, PlanStep
  <2>7. CASE Others
    <3>1. Judged /\ findings \subseteq findings' /\ UNCHANGED <<job, raised, pins, files>> /\ pc' # "plan"
      BY <2>7 DEF Others, Judged, Goto
    <3> QED BY <1>2, <3>1, FindingsStay
  <2>8. CASE Propose \/ (\E p \in PathSet, c \in Corrections : Request(p, c))
             \/ Confirm \/ Check \/ Write
    <3>1. Judged /\ UNCHANGED <<findings, job, raised, pins, files>>
      BY <2>8 DEF Propose, Request, Confirm, Check, Write, Judged, scanning
    <3>2. pc' # "plan"
      BY <2>8 DEF Propose, Request, Confirm, Check, Write, NextFile, Break, Goto
    <3> QED BY <1>2, <3>1, <3>2, FindingsStay
  <2> QED BY <1>2, <2>2, <2>4, <2>5, <2>6, <2>7, <2>8 DEF Next, Scan
<1>3. Kept => OnlyReplacementsGiveWay
  BY DEF Kept
<1> QED BY <1>1, <1>2, <1>3, PTL DEF Spec

-----------------------------------------------------------------------------
(* The types *)

Terraform == {p \in PathSet : KindOf[p] = "terraform"}
File      == [path : PathSet, head : Contents, base : Contents \cup {Missing}]

LEMMA Revisions ==
    ASSUME NEW r \in Repository, NEW mode \in Modes
    PROVE  HeadOf(mode, r) \in Revision /\ BaseOf(mode, r) \in Revision
  BY DEF Repository, Modes, HeadOf, BaseOf

LEMMA ListedTyped ==
    ASSUME NEW changed_ \in SUBSET PathSet
    PROVE  Listed("terraform", changed_) \in Seq(Terraform)
<1> DEFINE chosen == {p \in changed_ : PathspecMatches("terraform", p) /\ p \notin Quoted}
<1>1. chosen \cap PathSet \subseteq Terraform
  BY DEF PathspecMatches, Terraform
<1>2. Ordered(chosen) \in Seq(chosen \cap PathSet)
  BY OrderedRange
<1>3. Ordered(chosen) \in Seq(Terraform)
  BY <1>1, <1>2, WiderSeq
<1> QED BY <1>3 DEF Listed

LEMMA SelectTyped ==
    ASSUME NEW r \in Repository, NEW mode \in Modes
    PROVE  Select(mode, "terraform", r) \in Seq(Terraform)
<1>1. CASE mode = "staged"
  BY <1>1, ListedTyped DEF Select, StagedPaths, Differs
<1>2. CASE mode = "refs"
  BY <1>2, ListedTyped DEF Select, ChangedPaths, Differs
<1>3. CASE mode = "full"
  <2> DEFINE chosen == {p \in PathSet : KindOf[p] = "terraform" /\ r.disk[p] # Missing}
  <2>1. chosen \cap PathSet \subseteq Terraform
    BY DEF Terraform
  <2>2. Ordered(chosen) \in Seq(Terraform)
    BY <2>1, OrderedRange, WiderSeq
  <2> QED BY <1>3, <2>2 DEF Select, AllPaths
<1>4. CASE mode = "uncommitted"
  <2> DEFINE tracked   == {p \in PathSet : r.index[p] # Missing \/ r.head[p] # Missing}
             untracked == {p \in PathSet : r.index[p] = Missing /\ r.disk[p] # Missing}
             changed_  == Differs(r.head, r.disk) \cap tracked
  <2>1. Listed("terraform", changed_) \in Seq(Terraform)
    BY ListedTyped
  <2>2. Listed("terraform", untracked \ changed_) \in Seq(Terraform)
    BY ListedTyped
  <2>3. Select(mode, "terraform", r)
          = Listed("terraform", changed_) \o Listed("terraform", untracked \ changed_)
    BY <1>4 DEF Select, UncommittedPaths
  <2> QED BY <2>1, <2>2, <2>3, ConcatProperties
<1> QED BY <1>1, <1>2, <1>3, <1>4 DEF Modes

LEMMA ReadTyped ==
    ASSUME NEW r \in Repository, NEW mode \in Modes, NEW p \in PathSet, Readable(mode, p, r)
    PROVE  ReadFile(mode, p, r) \in File
<1>1. HeadOf(mode, r)[p] \in Contents /\ BaseOf(mode, r)[p] \in Contents \cup {Missing}
  BY Revisions DEF Revision, Readable
<1> QED BY <1>1 DEF ReadFile, File

LEMMA CollectedTyped ==
    ASSUME NEW r \in Repository, NEW mode \in Modes
    PROVE  Collected(mode, "terraform", r) \subseteq File
<1> DEFINE paths == Select(mode, "terraform", r)
<1>1. ASSUME NEW i \in DOMAIN paths, Readable(mode, paths[i], r)
      PROVE  ReadFile(mode, paths[i], r) \in File
  <2>1. paths \in Seq(Terraform)
    BY SelectTyped
  <2>2. paths[i] \in PathSet
    BY <2>1, ElementOfSeq DEF Terraform
  <2> QED BY <2>2, <1>1, ReadTyped
<1> QED BY <1>1 DEF Collected

JobTyped == job.mode \in Modes

LEMMA JobsTyped ==
    ASSUME job \in Jobs \cup {NoJob}
    PROVE  JobTyped
  BY JobsAssumption DEF NoJob, Modes, JobTyped

\* Until a correction is asked for there is none; while one is written there is.
Typed ==
    /\ TypeOK
    /\ pc \notin {"request", "confirm", "check", "write", "ended"} => fixing = NoFixing /\ fixes = {}
    /\ Fixing => fixing \in [path : DOMAIN sources, text : Contents]

LEMMA TypedElsewhere ==
    ASSUME Typed, Elsewhere
    PROVE  Typed'
<1>1. repo \in Repository /\ edits \in 0 .. Edits
  BY DEF Typed, TypeOK
<1>2. /\ UNCHANGED <<pc, scanning, fixed, seen>>
      /\ edits < Edits /\ edits' = edits + 1
      /\ moved' = (moved \/ pc \in Reading)
  BY DEF Elsewhere, Edit, BaseMoves, Stage, Commit, Change
<1>3. late' = late \/ \E p \in PathSet : late' = (late \/ (pc = "write" /\ p = fixing.path))
  BY DEF Elsewhere, Edit, BaseMoves, Stage, Commit
<1>4. repo' \in Repository
  <2>1. ASSUME NEW p \in PathSet, NEW c \in Contents \cup {Missing}, Edit(p, c) \/ BaseMoves(p, c)
        PROVE  repo' \in Repository
    BY <1>1, <2>1, RevisionsStay DEF Edit, BaseMoves, Change
  <2>2. ASSUME NEW p \in PathSet, Stage(p)
        PROVE  repo' \in Repository
    BY <1>1, <2>2 DEF Stage, Change, Repository, Revision
  <2>3. CASE Commit
    BY <1>1, <2>3 DEF Commit, Change, Repository
  <2> QED BY <2>1, <2>2, <2>3 DEF Elsewhere
<1>5. edits' \in 0 .. Edits
  BY <1>1, <1>2, EditsAssumption
<1>6. late \in BOOLEAN /\ moved \in BOOLEAN
  BY DEF Typed, TypeOK
<1>7. late' \in BOOLEAN
  BY <1>3, <1>6
<1>8. moved' \in BOOLEAN
  BY <1>2, <1>6
<1> QED BY <1>2, <1>4, <1>5, <1>7, <1>8 DEF Typed, TypeOK, Fixing, scanning, fixed

LEMMA TypedCollecting ==
    ASSUME Typed,
           (\E j \in Jobs : StartScan(j)) \/ Fail \/ ListFiles \/ ReadNext \/ NothingToRead
           \/ InspectNext \/ Judge \/ ReadPlan \/ Others
    PROVE  Typed'
<1> USE DEF Goto, history, fixed, scanning
<1>1. ASSUME NEW j \in Jobs, StartScan(j) PROVE Typed'
  BY <1>1 DEF StartScan, Typed, TypeOK, Fixing
<1>2. CASE Fail \/ NothingToRead
  BY <1>2 DEF Fail, NothingToRead, Typed, TypeOK, Fixing
<1>3. CASE ListFiles
  <2>1. todo' \in Seq(PathSet)
    <3>1. JobTyped /\ repo \in Repository
      BY JobsTyped DEF Typed, TypeOK
    <3>2. Select(job.mode, "terraform", repo) \in Seq(Terraform) /\ Terraform \subseteq PathSet
      BY <3>1, SelectTyped DEF Terraform, JobTyped
    <3>3. Select(job.mode, "terraform", repo) \in Seq(PathSet)
      BY <3>2, WiderSeq
    <3> QED BY <1>3, <3>3 DEF ListFiles
  <2> QED BY <1>3, <2>1 DEF ListFiles, Typed, TypeOK, Fixing
<1>4. CASE ReadNext
  <2>1. /\ todo \in Seq(PathSet) /\ todo # <<>> /\ repo \in Repository
        /\ files \in Seq(File) /\ at \in Nat \ {0} /\ at <= Len(files) + 1
        /\ job \in Jobs \cup {NoJob}
    BY <1>4 DEF ReadNext, Typed, TypeOK, File
  <2>2. Head(todo) \in PathSet /\ todo' \in Seq(PathSet)
    BY <1>4, <2>1, HeadTailProperties DEF ReadNext
  <2>3. files' \in Seq(File) /\ at <= Len(files') + 1
    <3>1. CASE Readable(job.mode, Head(todo), repo)
      <4>1. ReadFile(job.mode, Head(todo), repo) \in File
        BY <2>1, <2>2, <3>1, ReadTyped, JobsTyped DEF JobTyped
      <4>2. files' = Append(files, ReadFile(job.mode, Head(todo), repo))
        BY <1>4, <3>1 DEF ReadNext
      <4>3. files' \in Seq(File) /\ Len(files') = Len(files) + 1
        BY <2>1, <4>1, <4>2, AppendProperties
      <4> QED BY <2>1, <4>3
    <3>2. CASE ~Readable(job.mode, Head(todo), repo)
      BY <1>4, <2>1, <3>2 DEF ReadNext
    <3> QED BY <3>1, <3>2
  <2>4. pc = "read" /\ pc' \in {"read", "inspect"}
    BY <1>4 DEF ReadNext
  <2> QED BY <1>4, <2>2, <2>3, <2>4 DEF ReadNext, Typed, TypeOK, File, Fixing
<1>5. CASE InspectNext
  BY <1>5 DEF InspectNext, Typed, TypeOK, Fixing
<1>6. CASE Judge \/ ReadPlan
  BY <1>6 DEF Judge, ReadPlan, Typed, TypeOK, Fixing
<1>7. CASE Others
  BY <1>7 DEF Others, Typed, TypeOK, Fixing
<1> QED BY <1>1, <1>2, <1>3, <1>4, <1>5, <1>6, <1>7

LEMMA TypedCorrecting ==
    ASSUME Typed,
           Propose \/ (\E p \in PathSet, c \in Corrections : Request(p, c)) \/ NothingToFix
           \/ Confirm \/ Check \/ Write
    PROVE  Typed'
<1> USE DEF Goto, history, fixed, scanning
<1>1. CASE Propose
  <2> DEFINE again == Collected(job.mode, "terraform", repo)
             paths == {file.path : file \in again}
  <2>1. again \subseteq File
    BY CollectedTyped, JobsTyped DEF Typed, TypeOK, JobTyped
  <2>2. /\ sources' = [p \in paths |-> (CHOOSE file \in again : file.path = p).head]
        /\ queue' \subseteq paths
    BY <1>1 DEF Propose
  <2>3. ASSUME NEW p \in paths
        PROVE  (CHOOSE file \in again : file.path = p).head \in Contents
    <3>1. \E file \in again : file.path = p
      OBVIOUS
    <3> QED BY <3>1, <2>1 DEF File
  <2>4. paths \subseteq PathSet
    BY <2>1 DEF File
  <2>5. /\ DOMAIN sources' \subseteq PathSet /\ queue' \subseteq DOMAIN sources'
        /\ \A p \in DOMAIN sources' : sources'[p] \in Contents
    BY <2>2, <2>3, <2>4
  <2>6. pc = "propose" /\ pc' = "request"
        /\ UNCHANGED <<repo, edits, scanning, fixing, fixes, history>>
    BY <1>1 DEF Propose
  <2>7. fixing' = NoFixing /\ fixes' = {}
    BY <2>6 DEF Typed
  <2> QED BY <2>5, <2>6, <2>7 DEF Typed, TypeOK, Fixing
<1>2. ASSUME NEW p \in PathSet, NEW c \in Corrections, Request(p, c)
      PROVE  Typed'
  <2>1. /\ p \in DOMAIN sources /\ c \in Contents
        /\ queue' \subseteq queue /\ pc = "request" /\ pc' \in {"request", "ended", "confirm"}
        /\ UNCHANGED <<repo, edits, scanning, sources, history>>
    BY <1>2, ContentsAssumption DEF Request, NextFile, Break, Typed, TypeOK
  <2>2. \/ UNCHANGED fixing /\ pc' # "confirm"
        \/ fixing' = [path |-> p, text |-> c]
    BY <1>2 DEF Request, NextFile, Break
  <2>3. fixes' = fixes \/ fixes' = fixes \cup {p}
    BY <1>2 DEF Request
  <2>4. fixing' = NoFixing \/ fixing' \in [path : DOMAIN sources, text : Contents]
    BY <2>1, <2>2 DEF Typed, TypeOK
  <2>5. Fixing' => fixing' \in [path : DOMAIN sources, text : Contents]
    BY <2>1, <2>2 DEF Fixing
  <2>6. fixes' \subseteq DOMAIN sources
    BY <2>1, <2>3 DEF Typed, TypeOK
  <2> QED BY <2>1, <2>4, <2>5, <2>6 DEF Typed, TypeOK, Fixing
<1>3. CASE NothingToFix
  BY <1>3 DEF NothingToFix, Typed, TypeOK, Fixing
<1>4. CASE Confirm
  <2>1. /\ queue' \subseteq queue /\ pc = "confirm" /\ pc' \in {"request", "ended", "check"}
        /\ UNCHANGED <<repo, edits, scanning, sources, fixing, fixes, history>>
    BY <1>4 DEF Confirm, NextFile, Break
  <2> QED BY <2>1 DEF Typed, TypeOK, Fixing
<1>5. CASE Check
  <2>1. /\ UNCHANGED queue /\ pc = "check" /\ pc' \in {"write", "ended"} /\ late' = FALSE
        /\ UNCHANGED <<repo, edits, scanning, sources, fixing, fixes, seen, moved>>
    BY <1>5 DEF Check
  <2> QED BY <2>1 DEF Typed, TypeOK, Fixing
<1>6. CASE Write
  <2>1. /\ queue' \subseteq queue /\ pc = "write" /\ pc' \in {"request", "ended"}
        /\ repo' \in {repo, [repo EXCEPT !.disk[fixing.path] = fixing.text],
                            [repo EXCEPT !.disk[fixing.path] = Torn]}
        /\ UNCHANGED <<edits, scanning, sources, fixing, fixes, history>>
    BY <1>6 DEF Write, NextFile, Break
  <2>2. /\ repo \in Repository /\ fixing.path \in PathSet
        /\ fixing.text \in Contents \cup {Missing} /\ Torn \in Contents \cup {Missing}
    BY <2>1, ContentsAssumption DEF Typed, TypeOK, Fixing
  <2>3. /\ [repo EXCEPT !.disk[fixing.path] = fixing.text] \in Repository
        /\ [repo EXCEPT !.disk[fixing.path] = Torn] \in Repository
    BY <2>2, RevisionsStay
  <2>4. repo' \in Repository
    BY <2>1, <2>2, <2>3, Zenon
  <2> QED BY <2>1, <2>4 DEF Typed, TypeOK, Fixing
<1> QED BY <1>1, <1>2, <1>3, <1>4, <1>5, <1>6

(***************************************************************************)
(* Whoever edits what in between, a scan lists paths there are, scans      *)
(* files that have the revision under review, and corrects only those      *)
(* (get_changed_files, collect_findings, run_autofix).                     *)
(***************************************************************************)
THEOREM TypeCorrect == Spec => []TypeOK
<1>1. Init => Typed
  <2> SUFFICES ASSUME Init PROVE Typed
    OBVIOUS
  <2>1. /\ repo \in Repository /\ seen \in Repository /\ edits \in 0 .. Edits
        /\ moved \in BOOLEAN /\ late \in BOOLEAN
    <3>1. repo \in Worlds /\ seen = repo /\ edits = 0 /\ moved = FALSE /\ late = FALSE
      BY DEF Init
    <3>2. repo \in Repository
      BY <3>1, WorldsAssumption, Zenon
    <3>3. edits \in 0 .. Edits
      BY <3>1, EditsAssumption
    <3>4. seen \in Repository /\ moved \in BOOLEAN /\ late \in BOOLEAN
      BY <3>1, <3>2, Zenon
    <3> QED BY <3>2, <3>3, <3>4
  <2>2. /\ todo = <<>> /\ files = <<>> /\ at = 1 /\ queue = {} /\ sources = Empty
        /\ fixing = NoFixing /\ fixes = {} /\ pc = "idle" /\ job = NoJob
    BY DEF Init, AtRest
  <2>3. todo \in Seq(PathSet) /\ files \in Seq(File) /\ at <= Len(files) + 1
    BY <2>2
  <2>4. DOMAIN sources = {}
    BY <2>2 DEF Empty
  <2> QED BY <2>1, <2>2, <2>3, <2>4 DEF Typed, TypeOK, Fixing, File
<1>2. Typed /\ [Next]_vars => Typed'
  <2>1. CASE UNCHANGED vars
    BY <2>1 DEF Typed, TypeOK, Fixing, vars, fixed, scanning, history
  <2> QED BY <2>1, TypedElsewhere, TypedCollecting, TypedCorrecting DEF Next, Scan
<1>3. Typed => TypeOK
  BY DEF Typed
<1> QED BY <1>1, <1>2, <1>3, PTL DEF Spec

-----------------------------------------------------------------------------
(* What a confident finding is made from *)

Confident(f) == f.rule = "force_new_change" /\ f.severity # "low"

\* The two values an attribute has, and the new one with a scope put in.
RealChange(old, new, scope) ==
    LET value == attr_to_attribute(new, scope)
    IN  old.ref = "" /\ value.literal /\ value.value # old.text

\* A finding about one of the attributes both revisions have.
FromAttribute(f, path, addr, prefix, new, old, scope) ==
    \E n \in DOMAIN new \cap DOMAIN old :
        /\ f.file = path /\ f.address = addr /\ f.where = prefix \o <<n>>
        /\ RealChange(old[n], new[n], scope)

LEMMA ConfidentAttribute ==
    ASSUME NEW path, NEW addr, NEW prefix, NEW names, NEW new, NEW old, NEW scope, NEW severity,
           NEW f \in CompareAll(path, addr, prefix, names, Evaluated(new, scope),
                                Evaluated(old, NoScope), severity),
           Confident(f)
    PROVE  FromAttribute(f, path, addr, prefix, new, old, scope)
<1> DEFINE h == Evaluated(new, scope)
           b == Evaluated(old, NoScope)
<1>1. DOMAIN h = DOMAIN new /\ DOMAIN b = DOMAIN old
  BY DEF Evaluated
<1>2. PICK n \in DOMAIN new \cap DOMAIN old :
          f \in Compare(path, addr, prefix \o <<n>>, h[n], b[n], severity)
  BY <1>1 DEF CompareAll
<1>3. h[n] = attr_to_attribute(new[n], scope) /\ b[n] = attr_to_attribute(old[n], NoScope)
  BY <1>2 DEF Evaluated
<1> HIDE DEF h, b
<1>4. /\ f = Finding("force_new_change", path, addr, prefix \o <<n>>, severity)
      /\ h[n].literal /\ b[n].literal /\ h[n].value # b[n].value
  BY <1>2 DEF Compare, Finding, Confident
<1>5. DOMAIN NoScope = {}
  BY DEF NoScope
<1>6. old[n].ref = "" /\ b[n].value = old[n].text
  <2>1. old[n].ref \notin DOMAIN NoScope
    BY <1>5
  <2>2. CASE old[n].ref # ""
    <3>1. b[n] = NotLiteral
      BY <1>3, <2>1, <2>2 DEF attr_to_attribute
    <3> QED BY <1>4, <3>1, Literals
  <2>3. CASE old[n].ref = ""
    <3>1. b[n] = Literal(old[n].text)
      BY <1>3, <2>3 DEF attr_to_attribute
    <3> QED BY <2>3, <3>1, Literals
  <2> QED BY <2>2, <2>3
<1>7. /\ f.file = path /\ f.address = addr /\ f.where = prefix \o <<n>>
      /\ RealChange(old[n], new[n], scope)
  BY <1>3, <1>4, <1>6 DEF RealChange, Finding
<1> QED BY <1>2, <1>7 DEF FromAttribute

LEMMA ConfidentResource ==
    ASSUME NEW path, NEW addr, NEW head, NEW base, NEW scope,
           NEW f \in ForceNewChanges(path, addr, head, base, scope), Confident(f)
    PROVE  /\ f.file = path /\ f.address = addr
           /\ RealChange(AttrAt(base, f.where), AttrAt(head, f.where), scope)
<1> DEFINE spec == Schema[head.type]
           severity == IF spec.critical THEN "critical" ELSE "high"
           shared == BlockTypes(head) \cap BlockTypes(base) \cap DOMAIN spec.nested
           top == <<>>
           within(t) == <<t>>
<1>1. \/ f \in CompareAll(path, addr, top, spec.top, Evaluated(head.attrs, scope),
                          Evaluated(base.attrs, NoScope), severity)
      \/ \E t \in shared : f \in CompareAll(path, addr, within(t), spec.nested[t],
                                            Evaluated(FindBlock(head, t), scope),
                                            Evaluated(FindBlock(base, t), NoScope), severity)
  BY DEF ForceNewChanges
<1>2. /\ \A n : top \o <<n>> = <<n>>
      /\ \A t, n : /\ Len(within(t) \o <<n>>) = 2
                   /\ (within(t) \o <<n>>)[1] = t /\ (within(t) \o <<n>>)[2] = n
  BY Prefixes
<1> HIDE DEF spec, severity, shared, top, within
<1>3. CASE f \in CompareAll(path, addr, top, spec.top, Evaluated(head.attrs, scope),
                            Evaluated(base.attrs, NoScope), severity)
  <2>1. PICK n \in DOMAIN head.attrs \cap DOMAIN base.attrs :
              /\ f.file = path /\ f.address = addr /\ f.where = top \o <<n>>
              /\ RealChange(base.attrs[n], head.attrs[n], scope)
    <3>1. FromAttribute(f, path, addr, top, head.attrs, base.attrs, scope)
      BY <1>3, ConfidentAttribute
    <3> QED BY <3>1 DEF FromAttribute
  <2>2. f.where = <<n>>
    BY <2>1, <1>2
  <2>3. Len(f.where) = 1 /\ f.where[1] = n
    BY <2>2
  <2> QED BY <2>1, <2>3 DEF AttrAt
<1>4. ASSUME NEW t \in shared,
             f \in CompareAll(path, addr, within(t), spec.nested[t],
                              Evaluated(FindBlock(head, t), scope),
                              Evaluated(FindBlock(base, t), NoScope), severity)
      PROVE  /\ f.file = path /\ f.address = addr
             /\ RealChange(AttrAt(base, f.where), AttrAt(head, f.where), scope)
  <2>1. PICK n \in DOMAIN FindBlock(head, t) \cap DOMAIN FindBlock(base, t) :
              /\ f.file = path /\ f.address = addr /\ f.where = within(t) \o <<n>>
              /\ RealChange(FindBlock(base, t)[n], FindBlock(head, t)[n], scope)
    <3>1. FromAttribute(f, path, addr, within(t), FindBlock(head, t), FindBlock(base, t), scope)
      BY <1>4, ConfidentAttribute
    <3> QED BY <3>1 DEF FromAttribute
  <2>2. Len(f.where) = 2 /\ f.where[1] = t /\ f.where[2] = n
    BY <2>1, <1>2
  <2> QED BY <2>1, <2>2 DEF AttrAt
<1> QED BY <1>1, <1>3, <1>4

LEMMA ConfidentFinding ==
    ASSUME NEW file, NEW scope, NEW f \in FindingsIn(file, scope), Confident(f)
    PROVE  /\ f.file = file.path
           /\ RealChange(AttrAt(file.base.resources[f.address], f.where),
                         AttrAt(file.head.resources[f.address], f.where), scope)
<1> DEFINE head == file.head.resources
           base == BaseResources(file)
<1>1. f \in ForceNewChangeRule(file.path, head, base, scope)
  BY DEF FindingsIn, Unanalysed, UnknownAttributeRule, MissingLifecycleRule, Finding, Confident
<1>2. PICK a \in Managed(head) \cap DOMAIN base :
          f \in ForceNewChanges(file.path, a, head[a], base[a], scope)
  BY <1>1 DEF ForceNewChangeRule
<1>3. base = file.base.resources
  BY <1>2 DEF BaseResources, NoScope
<1>4. /\ f.file = file.path /\ f.address = a
      /\ RealChange(AttrAt(base[a], f.where), AttrAt(head[a], f.where), scope)
  BY <1>2, ConfidentResource
<1> QED BY <1>3, <1>4

-----------------------------------------------------------------------------
(* The scope a finding was made with *)

LEMMA CachedValue ==
    ASSUME NEW cache, NEW dir, NEW v
    PROVE  /\ DOMAIN Cached(cache, dir, v) = DOMAIN cache \cup {dir}
           /\ \A d \in DOMAIN cache : Cached(cache, dir, v)[d] = cache[d]
           /\ dir \notin DOMAIN cache => Cached(cache, dir, v)[dir] = v
  BY DEF Cached

\* The files a directory has on disk are its scope, if the file is as it is there.
LEMMA ScopeOnDisk ==
    ASSUME NEW disk, NEW p \in Terraform, disk[p] # Missing
    PROVE  ScopeFiles(p, disk[p], disk)
             = [i \in DOMAIN InDirectory(DirOf[p], disk) |-> disk[InDirectory(DirOf[p], disk)[i]]]
<1> DEFINE chosen == {q \in PathSet : DirOf[q] = DirOf[p] /\ disk[q] # Missing
                                        /\ KindOf[q] = "terraform"}
           there  == InDirectory(DirOf[p], disk)
<1>1. p \in chosen \cap PathSet
  BY DEF Terraform
<1>2. there = Ordered(chosen)
  BY DEF InDirectory
<1> HIDE DEF chosen
<1>3. there \in Seq(chosen \cap PathSet) /\ \E k \in 1..Len(there) : there[k] = p
  BY <1>1, <1>2, OrderedRange
<1>4. \E k \in DOMAIN there : there[k] = p
  BY <1>3
<1> HIDE DEF there
<1>5. ScopeFiles(p, disk[p], disk)
        = [i \in DOMAIN there |-> IF there[i] = p THEN disk[p] ELSE disk[there[i]]]
  BY <1>4 DEF ScopeFiles, there
<1>6. \A i \in DOMAIN there : (IF there[i] = p THEN disk[p] ELSE disk[there[i]]) = disk[there[i]]
  OBVIOUS
<1> QED BY <1>5, <1>6 DEF there

\* Where the request has moved nothing beside it, any file of a directory
\* gives it the same scope.
LEMMA OneScopePerDirectory ==
    ASSUME NEW p \in Terraform, NEW q \in Terraform, DirOf[p] = DirOf[q], InStep(p),
           After(p) # Missing, After(q) # Missing
    PROVE  ScopeFiles(p, After(p), seen.disk) = ScopeFiles(q, After(q), seen.disk)
<1>1. After(p) = seen.disk[p] /\ After(q) = seen.disk[q]
  BY DEF InStep, Terraform
<1>2. ScopeFiles(p, seen.disk[p], seen.disk)
        = [i \in DOMAIN InDirectory(DirOf[p], seen.disk) |-> seen.disk[InDirectory(DirOf[p], seen.disk)[i]]]
  BY <1>1, ScopeOnDisk
<1>3. ScopeFiles(q, seen.disk[q], seen.disk)
        = [i \in DOMAIN InDirectory(DirOf[q], seen.disk) |-> seen.disk[InDirectory(DirOf[q], seen.disk)[i]]]
  BY <1>1, ScopeOnDisk
<1> QED BY <1>1, <1>2, <1>3

-----------------------------------------------------------------------------
(* Nothing changes while it is read *)

DirOfFile(i) == DirOf[files[i].path]

\* The file at i was read as the listing found it.
AsListed(i) ==
    /\ files[i].path \in Terraform
    /\ ~moved => files[i] = ReadFile(job.mode, files[i].path, seen)

\* A scope is one of a file of the directory.
ScopeOf(d) ==
    \E i \in DOMAIN files :
        /\ DirOfFile(i) = d
        /\ ~moved => scopes[d] = build_scope(ScopeFiles(files[i].path, files[i].head, seen.disk))

RaisedBy(f, i) ==
    DirOfFile(i) \in DOMAIN scopes /\ f \in FindingsIn(files[i], scopes[DirOfFile(i)])

Steady ==
    /\ pc \in {"idle", "list"} => files = <<>> /\ scopes = Empty /\ raised = {}
    /\ todo \in Seq(Terraform)
    /\ pc \in {"read", "inspect"} /\ ~moved => repo = seen
    /\ \A i \in DOMAIN files : AsListed(i)
    /\ \A d \in DOMAIN scopes : ScopeOf(d)
    /\ \A f \in raised : Confident(f) => \E i \in DOMAIN files : RaisedBy(f, i)
    /\ \A f \in findings : f.rule = "force_new_change" => f \in raised

LEMMA SteadyIsReal ==
    ASSUME TypeOK, Steady
    PROVE  ConfidentChangesAreReal
<1> SUFFICES ASSUME Still, Current, NEW f \in findings,
                    f.rule = "force_new_change", f.severity # "low", InStep(f.file)
             PROVE  RealChange(AttrAt(Before(f.file).resources[f.address], f.where),
                               AttrAt(After(f.file).resources[f.address], f.where),
                               build_scope(ScopeFiles(f.file, After(f.file), seen.disk)))
  BY DEF ConfidentChangesAreReal, RealChange
<1>1. ~moved /\ Confident(f)
  BY DEF Still, Confident
<1>2. PICK i \in DOMAIN files : RaisedBy(f, i)
  BY <1>1 DEF Steady, Confident
<1>3. PICK j \in DOMAIN files :
          /\ DirOfFile(j) = DirOfFile(i)
          /\ scopes[DirOfFile(i)] = build_scope(ScopeFiles(files[j].path, files[j].head, seen.disk))
  BY <1>1, <1>2 DEF Steady, ScopeOf, RaisedBy
<1>4. /\ files[i].path \in Terraform /\ files[j].path \in Terraform
      /\ files[i] = ReadFile(job.mode, files[i].path, seen)
      /\ files[j] = ReadFile(job.mode, files[j].path, seen)
  BY <1>1, <1>2, <1>3 DEF Steady, AsListed
<1>5. /\ files[i].head = After(files[i].path) /\ files[i].base = BaseOf(job.mode, seen)[files[i].path]
      /\ files[j].head = After(files[j].path)
  BY <1>4 DEF ReadFile, After
<1>6. /\ f.file = files[i].path
      /\ RealChange(AttrAt(files[i].base.resources[f.address], f.where),
                    AttrAt(files[i].head.resources[f.address], f.where), scopes[DirOfFile(i)])
  BY <1>1, <1>2, ConfidentFinding DEF RaisedBy
<1>7. files[i].base = Before(files[i].path)
  BY <1>5 DEF Before, BaseOf, Current
<1>8. files[i].head \in Contents /\ files[j].head \in Contents
  <2>1. files \in Seq(File) /\ i \in 1..Len(files) /\ j \in 1..Len(files)
    BY <1>2, <1>3 DEF TypeOK, File
  <2>2. files[i] \in File /\ files[j] \in File
    BY <2>1, ElementOfSeq
  <2> QED BY <2>2 DEF File
<1>9. After(files[i].path) # Missing /\ After(files[j].path) # Missing
  BY <1>5, <1>8, ContentsAssumption
<1>10. ScopeFiles(files[i].path, After(files[i].path), seen.disk)
         = ScopeFiles(files[j].path, After(files[j].path), seen.disk)
  BY <1>3, <1>4, <1>6, <1>9, OneScopePerDirectory DEF DirOfFile
<1> QED BY <1>3, <1>5, <1>6, <1>7, <1>10

\* A step that reads nothing and raises nothing.
LEMMA SteadyStays ==
    ASSUME Steady, UNCHANGED <<job, todo, files, scopes, raised, seen>>, moved => moved',
           pc' \notin {"idle", "list"} \/ pc' = pc,
           pc' \in {"read", "inspect"} => pc \in {"read", "inspect"} /\ (~moved' => repo' = repo),
           \A f \in findings' : f.rule = "force_new_change" => f \in raised
    PROVE  Steady'
<1>1. \A i \in DOMAIN files : AsListed(i)'
  BY DEF Steady, AsListed
<1>2. \A d \in DOMAIN scopes : ScopeOf(d)'
  BY DEF Steady, ScopeOf, DirOfFile
<1>3. \A f \in raised : Confident(f) => \E i \in DOMAIN files : RaisedBy(f, i)'
  <2>1. \A f, i : RaisedBy(f, i) <=> RaisedBy(f, i)'
    BY DEF RaisedBy, DirOfFile
  <2> QED BY <2>1 DEF Steady
<1>4. pc' \in {"idle", "list"} => files' = <<>> /\ scopes' = Empty /\ raised' = {}
  BY DEF Steady
<1>5. todo' \in Seq(Terraform)
  BY DEF Steady
<1>6. pc' \in {"read", "inspect"} /\ ~moved' => repo' = seen'
  BY DEF Steady
<1> QED BY <1>1, <1>2, <1>3, <1>4, <1>5, <1>6 DEF Steady

LEMMA SteadyListing ==
    ASSUME Steady, TypeOK, (\E j \in Jobs : StartScan(j)) \/ ListFiles
    PROVE  Steady'
<1>1. /\ pc \in {"idle", "list"} /\ files' = <<>> /\ scopes' = Empty /\ raised' = {}
      /\ findings' = findings
  BY DEF StartScan, ListFiles, Steady
<1>2. todo' \in Seq(Terraform)
  <2>1. CASE ListFiles
    <3>1. JobTyped /\ repo \in Repository
      BY JobsTyped DEF TypeOK
    <3> QED BY <2>1, <3>1, SelectTyped DEF ListFiles, JobTyped
  <2>2. CASE \E j \in Jobs : StartScan(j)
    BY <2>2 DEF StartScan, Steady
  <2> QED BY <2>1, <2>2
<1>3. pc' \in {"read", "inspect"} => repo' = seen'
  BY DEF StartScan, ListFiles, Goto
<1>4. \A f \in findings' : f.rule = "force_new_change" => f \in raised'
  BY <1>1 DEF Steady
<1>5. DOMAIN files' = {} /\ DOMAIN scopes' = {}
  BY <1>1 DEF Empty
<1> QED BY <1>1, <1>2, <1>3, <1>4, <1>5 DEF Steady

LEMMA SteadyReading ==
    ASSUME Steady, TypeOK, ReadNext
    PROVE  Steady'
<1> DEFINE p == Head(todo)
           file == ReadFile(job.mode, p, repo)
<1>1. /\ pc = "read" /\ pc' \in {"read", "inspect"} /\ todo # <<>> /\ todo \in Seq(Terraform)
      /\ UNCHANGED <<repo, job, scopes, raised, findings, seen, moved>>
  BY DEF ReadNext, Goto, Steady, history
<1>2. p \in Terraform /\ todo' \in Seq(Terraform)
  BY <1>1, HeadTailProperties DEF ReadNext
<1>3. CASE ~Readable(job.mode, p, repo)
  <2>1. files' = files
    BY <1>3 DEF ReadNext
  <2>2. \A i \in DOMAIN files : AsListed(i)'
    BY <1>1, <2>1 DEF Steady, AsListed
  <2>3. \A d \in DOMAIN scopes : ScopeOf(d)'
    BY <1>1, <2>1 DEF Steady, ScopeOf, DirOfFile
  <2>4. \A f, i : RaisedBy(f, i) <=> RaisedBy(f, i)'
    BY <1>1, <2>1 DEF RaisedBy, DirOfFile
  <2>5. \A f \in raised' : Confident(f) => \E i \in DOMAIN files' : RaisedBy(f, i)'
    BY <1>1, <2>1, <2>4 DEF Steady
  <2>6. \A f \in findings' : f.rule = "force_new_change" => f \in raised'
    BY <1>1 DEF Steady
  <2>7. ~moved' => repo' = seen'
    BY <1>1 DEF Steady
  <2> QED BY <1>1, <1>2, <2>1, <2>2, <2>3, <2>5, <2>6, <2>7 DEF Steady
<1>4. CASE Readable(job.mode, p, repo)
  <2>1. files' = Append(files, file) /\ files \in Seq(File) /\ file \in File
    <3>1. files \in Seq(File) /\ repo \in Repository /\ JobTyped /\ p \in PathSet
      BY <1>2, JobsTyped DEF TypeOK, File, Terraform
    <3>2. file \in File
      BY <1>4, <3>1, ReadTyped DEF JobTyped
    <3> QED BY <1>4, <3>1, <3>2 DEF ReadNext
  <2>0. PICK n \in Nat : n = Len(files) + 1
    BY <2>1
  <2>2. /\ DOMAIN files = 1..(n - 1) /\ DOMAIN files' = 1..n /\ n # 0
        /\ \A i \in DOMAIN files : files'[i] = files[i]
        /\ files'[n] = file
    BY <2>0, <2>1, AppendProperties
  <2>3. \A i \in DOMAIN files : i \in DOMAIN files' /\ files'[i] = files[i]
    BY <2>2
  <2>4. \A i \in DOMAIN files : AsListed(i)'
    BY <1>1, <2>3 DEF Steady, AsListed
  <2>5. AsListed(n)'
    <3>1. file.path = p /\ (~moved => repo = seen)
      BY <1>1 DEF Steady, ReadFile
    <3>2. files'[n] = file /\ file = ReadFile(job.mode, p, repo)
      BY <2>2
    <3> HIDE DEF p, file
    <3>3. /\ files'[n].path \in Terraform
          /\ ~moved' => files'[n] = ReadFile(job'.mode, files'[n].path, seen')
      BY <1>1, <1>2, <3>1, <3>2
    <3> QED BY <3>3, <2>2, <1>1 DEF AsListed
  <2>6. \A i \in DOMAIN files' : AsListed(i)'
    BY <2>2, <2>4, <2>5
  <2>7. \A d \in DOMAIN scopes' : ScopeOf(d)'
    BY <1>1, <2>3 DEF Steady, ScopeOf, DirOfFile
  <2>8. \A f \in raised' : Confident(f) => \E i \in DOMAIN files' : RaisedBy(f, i)'
    <3>1. \A f : \A i \in DOMAIN files : RaisedBy(f, i) => RaisedBy(f, i)'
      BY <1>1, <2>3 DEF RaisedBy, DirOfFile
    <3> QED BY <1>1, <2>3, <3>1 DEF Steady
  <2>9. \A f \in findings' : f.rule = "force_new_change" => f \in raised'
    BY <1>1 DEF Steady
  <2>10. ~moved' => repo' = seen'
    BY <1>1 DEF Steady
  <2> QED BY <1>1, <1>2, <2>6, <2>7, <2>8, <2>9, <2>10 DEF Steady
<1> QED BY <1>3, <1>4

LEMMA SteadyInspecting ==
    ASSUME Steady, TypeOK, InspectNext
    PROVE  Steady'
<1>0. PICK k \in DOMAIN files : k = at
  <2>1. at \in Nat \ {0} /\ at <= Len(files) /\ files \in Seq(File)
    BY DEF InspectNext, TypeOK, File
  <2> QED BY <2>1
<1> DEFINE file == files[k]
           dir == DirOf[file.path]
           value == build_scope(ScopeFiles(file.path, file.head, repo.disk))
<1>1. /\ pc = "inspect"
      /\ UNCHANGED <<repo, pc, job, todo, files, findings, seen, moved>>
      /\ scopes' = Cached(scopes, dir, value)
      /\ raised' = raised \cup FindingsIn(file, scopes'[dir])
  BY <1>0 DEF InspectNext, history
<1>2. /\ DOMAIN scopes' = DOMAIN scopes \cup {dir}
      /\ \A d \in DOMAIN scopes : scopes'[d] = scopes[d]
      /\ dir \notin DOMAIN scopes => scopes'[dir] = value
  <2>1. /\ DOMAIN Cached(scopes, dir, value) = DOMAIN scopes \cup {dir}
        /\ \A d \in DOMAIN scopes : Cached(scopes, dir, value)[d] = scopes[d]
        /\ dir \notin DOMAIN scopes => Cached(scopes, dir, value)[dir] = value
    BY CachedValue, Zenon
  <2> HIDE DEF dir, value
  <2> QED BY <1>1, <2>1
<1>3. \A i \in DOMAIN files : AsListed(i)'
  BY <1>1 DEF Steady, AsListed
<1>4. ASSUME NEW d \in DOMAIN scopes'
      PROVE  ScopeOf(d)'
  <2>1. CASE d \in DOMAIN scopes
    BY <1>1, <1>2, <2>1 DEF Steady, ScopeOf, DirOfFile
  <2>2. CASE d \notin DOMAIN scopes
    <3>1. d = dir /\ scopes'[d] = value
      BY <1>2, <2>2
    <3>2. ~moved => value = build_scope(ScopeFiles(files[k].path, files[k].head, seen.disk))
      BY <1>1 DEF Steady
    <3> QED BY <1>1, <3>1, <3>2 DEF ScopeOf, DirOfFile
  <2> QED BY <2>1, <2>2
<1>5. ASSUME NEW f \in raised', Confident(f)
      PROVE  \E i \in DOMAIN files' : RaisedBy(f, i)'
  <2>1. CASE f \in raised
    <3>1. PICK i \in DOMAIN files : RaisedBy(f, i)
      BY <1>5, <2>1 DEF Steady
    <3>2. RaisedBy(f, i)'
      BY <1>1, <1>2, <3>1 DEF RaisedBy, DirOfFile
    <3> QED BY <1>1, <3>2
  <2>2. CASE f \in FindingsIn(file, scopes'[dir])
    <3>1. dir \in DOMAIN scopes'
      BY <1>2
    <3>2. RaisedBy(f, k)'
      <4>1. files'[k] = file /\ DirOf[files'[k].path] = dir
        BY <1>1
      <4>2. k \in DOMAIN files
        BY <1>0
      <4> QED BY <2>2, <3>1, <4>1 DEF RaisedBy, DirOfFile
    <3> QED BY <1>1, <3>2
  <2> QED BY <1>1, <1>5, <2>1, <2>2
<1>6. \A f \in findings' : f.rule = "force_new_change" => f \in raised'
  BY <1>1 DEF Steady
<1> QED BY <1>1, <1>3, <1>4, <1>5, <1>6 DEF Steady

LEMMA SteadyJudging ==
    ASSUME Steady, Judge \/ ReadPlan \/ Others
    PROVE  Steady'
<1>1. /\ UNCHANGED <<repo, job, todo, files, scopes, raised, seen, moved>>
      /\ pc' \notin {"idle", "list", "read", "inspect"}
  BY DEF Judge, ReadPlan, Others, Goto, fixed, history
<1>2. ASSUME NEW f \in findings', f.rule = "force_new_change"
      PROVE  f \in raised
  <2>1. CASE Judge
    BY <2>1 DEF Judge, DropSilenced, DropContradicted
  <2>2. CASE ReadPlan
    <3> DEFINE P == run_plan_rules(job.plan, changed, job.threshold, job.ignored)
    <3>1. f \notin P
      <4>1. f \notin ConfirmedReplaceRule(job.plan)
        BY <1>2 DEF ConfirmedReplaceRule, PlanFinding, Finding
      <4>2. f \notin DriftRule(job.plan, changed)
        <5> SUFFICES ASSUME f \in DriftRule(job.plan, changed) PROVE FALSE
          OBVIOUS
        <5>1. PICK c \in job.plan :
                 f \in {PlanFinding("unexpected_drift", c, <<n>>, "medium") :
                          n \in {m \in Updated(c) \cap Schema[c.type].top :
                                   <<m>> \notin Explained(c, changed)}}
          BY DEF DriftRule
        <5>2. PICK n : f = PlanFinding("unexpected_drift", c, <<n>>, "medium")
          BY <5>1
        <5> QED BY <1>2, <5>2 DEF PlanFinding, Finding
      <4>3. f \notin BlastRadiusRule(job.plan, job.threshold)
        BY <1>2 DEF BlastRadiusRule, Finding
      <4> QED BY <4>1, <4>2, <4>3 DEF run_plan_rules
    <3>2. f \in findings
      BY <2>2, <3>1 DEF ReadPlan, MergePlan
    <3> QED BY <1>2, <3>2 DEF Steady
  <2>3. CASE Others
    <3>1. \A file : f \notin FindingsOutside(file)
      BY <1>2 DEF FindingsOutside, Finding
    <3>2. f \in findings
      BY <2>3, <3>1 DEF Others
    <3> QED BY <1>2, <3>2 DEF Steady
  <2> QED BY <2>1, <2>2, <2>3
<1> QED BY <1>1, <1>2, SteadyStays

LEMMA SteadyAlways == Spec => []Steady
<1>1. Init => Steady
  BY DEF Init, AtRest, Steady, Empty
<1>2. TypeOK /\ Steady /\ [Next]_vars => Steady'
  <2> SUFFICES ASSUME TypeOK, Steady, [Next]_vars
               PROVE  Steady'
    OBVIOUS
  <2>0. \A f \in findings : f.rule = "force_new_change" => f \in raised
    BY DEF Steady
  <2>1. CASE Elsewhere \/ UNCHANGED vars
    <3>1. /\ UNCHANGED <<pc, job, todo, files, scopes, raised, findings, seen>>
          /\ moved => moved'
          /\ pc \in {"read", "inspect"} /\ ~moved' => repo' = repo
      <4>1. CASE UNCHANGED vars
        BY <4>1 DEF scanning, history, vars
      <4>2. CASE Elsewhere
        <5>1. /\ UNCHANGED <<pc, scanning, fixed, seen>>
              /\ moved' = (moved \/ pc \in Reading)
          BY <4>2 DEF Elsewhere, Edit, BaseMoves, Stage, Commit, Change
        <5> QED BY <5>1 DEF scanning, Reading
      <4> QED BY <2>1, <4>1, <4>2
    <3> QED BY <2>0, <3>1, SteadyStays
  <2>2. CASE (\E j \in Jobs : StartScan(j)) \/ ListFiles
    BY <2>2, SteadyListing
  <2>3. CASE Fail \/ NothingToRead \/ Propose \/ NothingToFix
             \/ (\E p \in PathSet, c \in Corrections : Request(p, c)) \/ Confirm \/ Check \/ Write
    <3>1. /\ UNCHANGED <<scanning, seen, moved>>
          /\ pc' \in {"ended", "inspect", "request", "confirm", "check", "write"}
          /\ pc' = "inspect" => pc = "read" /\ repo' = repo
      BY <2>3 DEF Fail, NothingToRead, Propose, NothingToFix, Request, Confirm, Check, Write,
                  NextFile, Break, Goto, history
    <3>2. UNCHANGED <<job, todo, files, scopes, raised, findings, seen, moved>>
      BY <3>1 DEF scanning
    <3>3. \A f \in findings' : f.rule = "force_new_change" => f \in raised
      BY <2>0, <3>2
    <3> QED BY <3>1, <3>2, <3>3, SteadyStays
  <2>4. CASE ReadNext
    BY <2>4, SteadyReading
  <2>5. CASE InspectNext
    BY <2>5, SteadyInspecting
  <2>6. CASE Judge \/ ReadPlan \/ Others
    BY <2>6, SteadyJudging
  <2> QED BY <2>1, <2>2, <2>3, <2>4, <2>5, <2>6 DEF Next, Scan
<1> QED BY <1>1, <1>2, TypeCorrect, PTL DEF Spec

(***************************************************************************)
(* For every repository, schema and job: a ForceNew finding that is not    *)
(* marked low is about two values that are written out and differ, the new *)
(* one with the defaults of its own directory, as long as nobody changed   *)
(* the files while they were read (schema_checks._compare_attr,            *)
(* engine.ScopeCache).                                                     *)
(***************************************************************************)
THEOREM ConfidenceIsEarned == Spec => []ConfidentChangesAreReal
<1>1. TypeOK /\ Steady => ConfidentChangesAreReal
  BY SteadyIsReal
<1> QED BY <1>1, SteadyAlways, TypeCorrect, PTL

-----------------------------------------------------------------------------
(* Addresses of the plan *)

LEMMA BareAddress ==
    ASSUME NEW addr \in Address, Len(addr) >= 2, Cardinality(KeyedPositions(addr)) <= 1
    PROVE  bare_resource_address(addr) = TypeAndName(addr)
<1> DEFINE u == Unkeyed(addr)
           n == Len(addr)
<1>1. /\ u \in Address /\ Len(u) = n /\ n \in Nat
      /\ u[n - 1] = Segment(addr[n - 1].name) /\ u[n] = Segment(addr[n].name)
  BY KeyIsCut DEF Address
<1> HIDE DEF u
<1>2. LastTwo(u) = SubSeq(u, n - 1, n)
  BY <1>1 DEF LastTwo
<1>3. SubSeq(u, n - 1, n) = <<u[n - 1], u[n]>>
  BY <1>1, LastPair DEF Address
<1> QED BY <1>1, <1>2, <1>3 DEF bare_resource_address, TypeAndName, u

-----------------------------------------------------------------------------
(* What the files changed, and what the plan calls drift *)

Unaltered(new, old, n) ==
    /\ n \in DOMAIN new <=> n \in DOMAIN old
    /\ n \in DOMAIN new => ~(new[n].ref = "" /\ old[n].ref = "" /\ new[n].text # old[n].text)

LEMMA NotChanged ==
    ASSUME NEW head, NEW base, NEW scope, NEW n, <<n>> \notin ChangedAttrs(head, base, scope)
    PROVE  Unaltered(head.attrs, base.attrs, n)
<1> DEFINE h == Evaluated(head.attrs, scope)
           b == Evaluated(base.attrs, NoScope)
           Differing == {m \in DOMAIN h \cup DOMAIN b :
                            \/ m \notin DOMAIN h \cap DOMAIN b
                            \/ ~h[m].literal \/ ~b[m].literal
                            \/ h[m].value # b[m].value}
           none == <<>>
<1>1. DOMAIN h = DOMAIN head.attrs /\ DOMAIN b = DOMAIN base.attrs
  BY DEF Evaluated
<1>2. n \notin Differing
  <2> SUFFICES ASSUME n \in Differing PROVE FALSE
    OBVIOUS
  <2>1. none \o <<n>> = <<n>>
    BY Prefixes
  <2>2. DiffAttrMaps(h, b, none) = {none \o <<m>> : m \in Differing}
    BY DEF DiffAttrMaps
  <2>3. DiffAttrMaps(h, b, none) \subseteq ChangedAttrs(head, base, scope)
    BY DEF ChangedAttrs
  <2> HIDE DEF none, Differing
  <2> QED BY <2>1, <2>2, <2>3
<1>3. ASSUME n \in DOMAIN head.attrs, n \in DOMAIN base.attrs,
             head.attrs[n].ref = "", base.attrs[n].ref = ""
      PROVE  head.attrs[n].text = base.attrs[n].text
  <2>1. h[n] = Literal(head.attrs[n].text) /\ b[n] = Literal(base.attrs[n].text)
    BY <1>3 DEF Evaluated, attr_to_attribute
  <2>2. h[n].value = b[n].value
    BY <1>1, <1>2, <1>3
  <2> HIDE DEF h, b
  <2> QED BY <2>1, <2>2, Literals
<1>4. n \in DOMAIN head.attrs <=> n \in DOMAIN base.attrs
  BY <1>1, <1>2
<1> QED BY <1>3, <1>4 DEF Unaltered

\* An address that only one of the inspected files has: its changes are kept.
Alone(a, i) == i < at /\ \A j \in Holders(a) : j < at => j = i

Recorded(a, i) ==
    /\ a \in DOMAIN changed /\ DirOfFile(i) \in DOMAIN scopes
    /\ changed[a] = ChangedAttrs(files[i].head.resources[a], BaseResources(files[i])[a],
                                 scopes[DirOfFile(i)])

Drifted(f) ==
    \E c \in job.plan : \E n \in Updated(c) :
        /\ f = PlanFinding("unexpected_drift", c, <<n>>, "medium")
        /\ <<n>> \notin Explained(c, changed)

Traced ==
    /\ pc \in {"idle", "list", "read"} => at = 1 /\ findings = {}
    /\ pc = "inspect" => findings = {}
    /\ pc = "plan" \/ Judged => at > Len(files)
    /\ \A f \in raised : f.rule # "unexpected_drift"
    /\ \A i \in DOMAIN files : \A a \in Own(files[i]) : Alone(a, i) => Recorded(a, i)
    /\ \A f \in findings : f.rule = "unexpected_drift" => Drifted(f)

LEMMA TracedIsElsewhere ==
    ASSUME TypeOK, Traced
    PROVE  DriftIsElsewhere
<1> SUFFICES ASSUME Still, NEW f \in findings, f.rule = "unexpected_drift",
                    Cardinality(KeyedPositions(f.address)) <= 1,
                    NEW i \in Holders(TypeAndName(f.address)),
                    Holders(TypeAndName(f.address)) = {i},
                    TypeAndName(f.address) \in DOMAIN BaseResources(files[i])
             PROVE  Unaltered(files[i].head.resources[TypeAndName(f.address)].attrs,
                              files[i].base.resources[TypeAndName(f.address)].attrs, f.where[1])
  BY DEF DriftIsElsewhere, Unaltered
<1> DEFINE a == TypeAndName(f.address)
<1>1. Judged /\ Drifted(f)
  BY DEF Still, Traced
<1>2. PICK c \in job.plan : \E n \in Updated(c) :
          /\ f = PlanFinding("unexpected_drift", c, <<n>>, "medium")
          /\ <<n>> \notin Explained(c, changed)
  BY <1>1 DEF Drifted
<1>3. PICK n \in Updated(c) :
          /\ f = PlanFinding("unexpected_drift", c, <<n>>, "medium")
          /\ <<n>> \notin Explained(c, changed)
  BY <1>2
<1>4. f.address = c.address /\ f.where = <<n>>
  BY <1>3 DEF PlanFinding, Finding
<1>5. bare_resource_address(c.address) = a
  <2>1. job \in Jobs
    BY <1>2 DEF TypeOK, NoJob
  <2>2. c.address \in Address /\ Len(c.address) >= 2
    BY <1>2, <2>1, AddressesAssumption
  <2> QED BY <2>2, <1>4, BareAddress
<1>6. i \in DOMAIN files /\ files[i].head.parses /\ a \in DOMAIN files[i].head.resources
  BY DEF Holders
<1>7. a \in Own(files[i])
  BY <1>6 DEF Own
<1>8. Alone(a, i)
  <2>1. at > Len(files) /\ at \in Nat /\ i \in 1..Len(files)
    BY <1>1, <1>6 DEF Traced, TypeOK
  <2> QED BY <2>1 DEF Alone
<1>9. Recorded(a, i)
  BY <1>6, <1>7, <1>8 DEF Traced
<1>10. <<n>> \notin changed[a]
  BY <1>3, <1>5, <1>9 DEF Explained, Recorded
<1>11. Unaltered(files[i].head.resources[a].attrs, BaseResources(files[i])[a].attrs, n)
  BY <1>9, <1>10, NotChanged DEF Recorded
<1>12. BaseResources(files[i]) = files[i].base.resources
  BY <1>7 DEF Own, BaseResources, NoScope
<1> QED BY <1>4, <1>11, <1>12

LEMMA TracedInspecting ==
    ASSUME Traced, TypeOK, InspectNext
    PROVE  Traced'
<1>0. PICK k \in DOMAIN files : k = at
  <2>1. at \in Nat \ {0} /\ at <= Len(files) /\ files \in Seq(File)
    BY DEF InspectNext, TypeOK, File
  <2> QED BY <2>1
<1> DEFINE file == files[k]
           dir == DirOf[file.path]
           value == build_scope(ScopeFiles(file.path, file.head, repo.disk))
<1>1. /\ pc = "inspect" /\ UNCHANGED <<pc, job, todo, files, findings>>
      /\ scopes' = Cached(scopes, dir, value)
      /\ raised' = raised \cup FindingsIn(file, scopes'[dir])
      /\ changed' = ChangedIn(file, scopes'[dir], changed)
      /\ at' = k + 1 /\ findings = {}
  BY <1>0 DEF InspectNext, Traced
<1>2. /\ DOMAIN scopes' = DOMAIN scopes \cup {dir}
      /\ \A d \in DOMAIN scopes : scopes'[d] = scopes[d]
  <2>1. /\ DOMAIN Cached(scopes, dir, value) = DOMAIN scopes \cup {dir}
        /\ \A d \in DOMAIN scopes : Cached(scopes, dir, value)[d] = scopes[d]
        /\ dir \notin DOMAIN scopes => Cached(scopes, dir, value)[dir] = value
    BY CachedValue, Zenon
  <2> HIDE DEF dir, value
  <2> QED BY <1>1, <2>1
<1>3. /\ DOMAIN changed' = Own(file) \cup DOMAIN changed
      /\ \A a \in Own(file) : changed'[a] = ChangedAttrs(file.head.resources[a],
                                                        BaseResources(file)[a], scopes'[dir])
      /\ \A a \in DOMAIN changed \ Own(file) : changed'[a] = changed[a]
  <2>1. ChangedBy(changed', file, scopes'[dir], changed)
    BY <1>1, ChangedInFile
  <2> HIDE DEF file, dir
  <2> QED BY <2>1 DEF ChangedBy
<1>4. \A f \in raised' : f.rule # "unexpected_drift"
  BY <1>1, RulesSay DEF Traced
<1>5. ASSUME NEW i \in DOMAIN files, NEW a \in Own(files[i]), Alone(a, i)'
      PROVE  Recorded(a, i)'
  <2>1. /\ i < k + 1 /\ i \in Nat /\ k \in Nat
        /\ \A j \in Holders(a) : j < k + 1 => j = i
    <3>1. Holders(a)' = Holders(a)
      BY <1>1 DEF Holders
    <3>2. DOMAIN files \subseteq Nat
      BY DEF TypeOK
    <3> QED BY <1>0, <1>1, <1>5, <3>1, <3>2 DEF Alone
  <2>2. CASE i = k
    <3>1. a \in Own(file) /\ DirOfFile(i) = dir /\ files[i] = file
      BY <1>5, <2>2 DEF DirOfFile
    <3>2. a \in DOMAIN changed' /\ dir \in DOMAIN scopes'
      BY <1>2, <1>3, <3>1
    <3>3. DirOfFile(i)' = dir /\ files'[i] = file
      BY <1>1, <3>1 DEF DirOfFile
    <3> QED BY <1>3, <3>1, <3>2, <3>3 DEF Recorded
  <2>3. CASE i # k
    <3>1. i < k
      BY <2>1, <2>3
    <3>2. k \notin Holders(a) /\ Alone(a, i)
      <4>1. k \notin Holders(a)
        BY <2>1, <2>3
      <4>2. \A j \in Holders(a) : j \in Nat
        BY DEF Holders, TypeOK
      <4>3. \A j \in Holders(a) : j < k => j < k + 1
        BY <2>1, <4>2
      <4> QED BY <1>0, <2>1, <3>1, <4>1, <4>3 DEF Alone
    <3>3. a \notin Own(file)
      BY <1>0, <3>2 DEF Own, Holders
    <3>4. Recorded(a, i)
      BY <1>5, <3>2 DEF Traced
    <3>5. /\ changed'[a] = changed[a] /\ a \in DOMAIN changed'
          /\ DirOfFile(i) \in DOMAIN scopes' /\ scopes'[DirOfFile(i)] = scopes[DirOfFile(i)]
      BY <1>2, <1>3, <3>3, <3>4 DEF Recorded
    <3>6. DirOfFile(i)' = DirOfFile(i) /\ files'[i] = files[i]
      BY <1>1 DEF DirOfFile
    <3> QED BY <3>4, <3>5, <3>6 DEF Recorded
  <2> QED BY <2>2, <2>3
<1>6. \A i \in DOMAIN files' : \A a \in Own(files'[i]) : Alone(a, i)' => Recorded(a, i)'
  BY <1>1, <1>5
<1>7. ~Judged'
  BY <1>1 DEF Judged
<1> QED BY <1>1, <1>4, <1>6, <1>7 DEF Traced

\* A step of no consequence for what the files changed.
LEMMA TracedStays ==
    ASSUME Traced, UNCHANGED <<job, files, at, scopes, raised, changed>>,
           pc' \in {"idle", "list", "read"} => pc = pc' /\ findings' = findings,
           pc' = "inspect" => pc \in {"read", "inspect"} /\ findings' = findings,
           pc' = "plan" \/ Judged' => pc = "plan" \/ Judged \/ at > Len(files),
           \A f \in findings' : f.rule = "unexpected_drift" => Drifted(f)
    PROVE  Traced'
<1>1. \A i \in DOMAIN files : \A a \in Own(files[i]) : Alone(a, i)' => Recorded(a, i)'
  BY DEF Traced, Alone, Recorded, Holders, DirOfFile
<1>2. \A f \in findings' : f.rule = "unexpected_drift" => Drifted(f)'
  BY DEF Drifted
<1> QED BY <1>1, <1>2 DEF Traced

LEMMA TracedBefore ==
    ASSUME Traced, TypeOK, (\E j \in Jobs : StartScan(j)) \/ ListFiles \/ ReadNext
    PROVE  Traced'
<1>1. /\ at' = 1 /\ findings' = {} /\ raised' = raised
      /\ pc' \in {"list", "read", "inspect"}
  BY DEF StartScan, ListFiles, ReadNext, Goto, Traced
<1>2. \A i \in DOMAIN files' : i \in Nat /\ i # 0
  <2>1. files' = files \/ files' = Append(files, ReadFile(job.mode, Head(todo), repo))
    BY DEF StartScan, ListFiles, ReadNext
  <2>2. /\ Len(files) \in Nat /\ DOMAIN files = 1..Len(files)
        /\ DOMAIN Append(files, ReadFile(job.mode, Head(todo), repo)) = 1..(Len(files) + 1)
    BY DEF TypeOK
  <2> QED BY <2>1, <2>2
<1>3. \A i \in DOMAIN files' : \A a : ~Alone(a, i)'
  BY <1>1, <1>2 DEF Alone
<1> QED BY <1>1, <1>3 DEF Traced, Judged

LEMMA TracedJudging ==
    ASSUME Traced, Judge \/ ReadPlan \/ Others
    PROVE  Traced'
<1>1. CASE Judge
  <2>1. /\ UNCHANGED <<job, files, at, scopes, raised, changed>> /\ pc' = "plan"
        /\ at > Len(files) /\ findings' \subseteq raised
    BY <1>1 DEF Judge, Goto, DropSilenced, DropContradicted
  <2>2. \A f \in findings' : f.rule = "unexpected_drift" => Drifted(f)
    BY <2>1 DEF Traced
  <2> QED BY <2>1, <2>2, TracedStays
<1>2. CASE ReadPlan
  <2> DEFINE P == run_plan_rules(job.plan, changed, job.threshold, job.ignored)
  <2>1. /\ UNCHANGED <<job, files, at, scopes, raised, changed>> /\ pc' = "others" /\ pc = "plan"
        /\ findings' = findings \/ findings' = MergePlan(findings, P)
    BY <1>2 DEF ReadPlan, Goto
  <2>2. ASSUME NEW f \in findings', f.rule = "unexpected_drift"
        PROVE  Drifted(f)
    <3>1. f \in findings \/ f \in P
      BY <2>1, <2>2 DEF MergePlan
    <3>2. CASE f \in P
      <4>1. f \notin ConfirmedReplaceRule(job.plan)
        BY <2>2 DEF ConfirmedReplaceRule, PlanFinding, Finding
      <4>2. f \notin BlastRadiusRule(job.plan, job.threshold)
        BY <2>2 DEF BlastRadiusRule, Finding
      <4>3. f \in DriftRule(job.plan, changed)
        BY <3>2, <4>1, <4>2 DEF run_plan_rules
      <4> QED BY <4>3, DriftFrom DEF Drifted
    <3> QED BY <2>2, <3>1, <3>2 DEF Traced
  <2> QED BY <2>1, <2>2, TracedStays
<1>3. CASE Others
  <2>1. /\ UNCHANGED <<job, files, at, scopes, raised, changed>> /\ pc' \in {"propose", "ended"}
        /\ pc = "others"
        /\ \A f \in findings' : f \in findings \/ \E file : f \in FindingsOutside(file)
    BY <1>3 DEF Others, Goto
  <2>2. \A f : (\E file : f \in FindingsOutside(file)) => f.rule # "unexpected_drift"
    BY DEF FindingsOutside, Finding
  <2>3. \A f \in findings' : f.rule = "unexpected_drift" => Drifted(f)
    BY <2>1, <2>2 DEF Traced
  <2>4. Judged
    BY <2>1 DEF Judged
  <2> QED BY <2>1, <2>3, <2>4, TracedStays
<1> QED BY <1>1, <1>2, <1>3

LEMMA TracedAlways == Spec => []Traced
<1>1. Init => Traced
  BY DEF Init, AtRest, Traced, Judged
<1>2. TypeOK /\ Traced /\ [Next]_vars => Traced'
  <2> SUFFICES ASSUME TypeOK, Traced, [Next]_vars
               PROVE  Traced'
    OBVIOUS
  <2>0. \A f \in findings : f.rule = "unexpected_drift" => Drifted(f)
    BY DEF Traced
  <2>1. CASE Elsewhere \/ UNCHANGED vars
    <3>1. UNCHANGED <<pc, scanning>>
      BY <2>1 DEF Elsewhere, Edit, BaseMoves, Stage, Commit, Change, vars
    <3>2. UNCHANGED <<pc, job, files, at, scopes, raised, changed, findings>>
      BY <3>1 DEF scanning
    <3> QED BY <2>0, <3>2, TracedStays DEF Judged
  <2>2. CASE (\E j \in Jobs : StartScan(j)) \/ ListFiles \/ ReadNext
    BY <2>2, TracedBefore
  <2>3. CASE Fail \/ NothingToRead \/ Propose \/ NothingToFix
             \/ (\E p \in PathSet, c \in Corrections : Request(p, c)) \/ Confirm \/ Check \/ Write
    <3>1. /\ UNCHANGED scanning
          /\ pc' \in {"ended", "inspect", "request", "confirm", "check", "write"}
          /\ pc' = "inspect" => pc = "read"
          /\ Judged' => Judged
      BY <2>3 DEF Fail, NothingToRead, Propose, NothingToFix, Request, Confirm, Check, Write,
                  NextFile, Break, Goto, Judged
    <3>2. UNCHANGED <<job, files, at, scopes, raised, changed, findings>>
      BY <3>1 DEF scanning
    <3>3. \A f \in findings' : f.rule = "unexpected_drift" => Drifted(f)
      BY <2>0, <3>2
    <3> QED BY <3>1, <3>2, <3>3, TracedStays
  <2>4. CASE InspectNext
    BY <2>4, TracedInspecting
  <2>5. CASE Judge \/ ReadPlan \/ Others
    BY <2>5, TracedJudging
  <2> QED BY <2>1, <2>2, <2>3, <2>4, <2>5 DEF Next, Scan
<1> QED BY <1>1, <1>2, TypeCorrect, PTL DEF Spec

(***************************************************************************)
(* For every plan and every set of files: what is called drift is not an   *)
(* attribute the one file with that resource changed, whatever modules and *)
(* keys stand before the name in the plan (rules/plan.py:138,              *)
(* changedattrs.bare_resource_address).                                    *)
(***************************************************************************)
THEOREM DriftIsNotTheRequest == Spec => []DriftIsElsewhere
<1>1. TypeOK /\ Traced => DriftIsElsewhere
  BY TracedIsElsewhere
<1> QED BY <1>1, TracedAlways, TypeCorrect, PTL

-----------------------------------------------------------------------------
(* From a change to the report: what is listed *)

\* The listing names the file, and there is something to read in it.
Wanted(p) ==
    /\ \E k \in DOMAIN Select(job.mode, "terraform", seen) :
           Select(job.mode, "terraform", seen)[k] = p
    /\ Readable(job.mode, p, seen)

LEMMA DifferenceListed ==
    ASSUME NEW set \in SUBSET PathSet, NEW p \in set, KindOf[p] = "terraform", p \notin Quoted
    PROVE  \E k \in DOMAIN Listed("terraform", set) : Listed("terraform", set)[k] = p
<1> DEFINE chosen == {q \in set : PathspecMatches("terraform", q) /\ q \notin Quoted}
<1>1. p \in chosen \cap PathSet
  BY DEF PathspecMatches
<1>2. Listed("terraform", set) = Ordered(chosen)
  BY DEF Listed
<1> HIDE DEF chosen
<1>3. /\ Ordered(chosen) \in Seq(chosen \cap PathSet)
      /\ \E k \in 1..Len(Ordered(chosen)) : Ordered(chosen)[k] = p
  BY <1>1, OrderedRange
<1> QED BY <1>2, <1>3

LEMMA ChangedFileWanted ==
    ASSUME TypeOK, NEW p \in PathSet \ Quoted, KindOf[p] = "terraform",
           Before(p) # After(p), Before(p) # Missing, After(p) # Missing
    PROVE  Wanted(p)
<1>1. Readable(job.mode, p, seen)
  BY DEF After, Readable
<1>2. job.mode \in Modes
  BY JobsTyped DEF TypeOK, JobTyped
<1>3. CASE job.mode = "refs"
  <2>1. p \in Differs(seen.fork, seen.head)
    BY <1>3 DEF Before, After, HeadOf, Differs
  <2>2. Select(job.mode, "terraform", seen) = Listed("terraform", Differs(seen.fork, seen.head))
    BY <1>3 DEF Select, ChangedPaths
  <2> QED BY <1>1, <2>1, <2>2, DifferenceListed DEF Wanted, Differs
<1>4. CASE job.mode = "staged"
  <2>1. p \in Differs(seen.head, seen.index)
    BY <1>4 DEF Before, After, HeadOf, BaseOf, Differs
  <2>2. Select(job.mode, "terraform", seen) = Listed("terraform", Differs(seen.head, seen.index))
    BY <1>4 DEF Select, StagedPaths
  <2> QED BY <1>1, <2>1, <2>2, DifferenceListed DEF Wanted, Differs
<1>5. CASE job.mode = "uncommitted"
  <2> DEFINE tracked   == {q \in PathSet : seen.index[q] # Missing \/ seen.head[q] # Missing}
             untracked == {q \in PathSet : seen.index[q] = Missing /\ seen.disk[q] # Missing}
             set       == Differs(seen.head, seen.disk) \cap tracked
             first     == Listed("terraform", set)
             second    == Listed("terraform", untracked \ set)
  <2>1. p \in set
    BY <1>5 DEF Before, After, HeadOf, BaseOf, Differs
  <2>2. Select(job.mode, "terraform", seen) = first \o second
    BY <1>5 DEF Select, UncommittedPaths
  <2>3. first \in Seq(Terraform) /\ second \in Seq(Terraform)
    BY ListedTyped DEF Differs
  <2>4. \E k \in DOMAIN first : first[k] = p
    BY <2>1, DifferenceListed
  <2> HIDE DEF first, second
  <2>5. \E k \in DOMAIN (first \o second) : (first \o second)[k] = p
    <3>1. PICK k \in 1..Len(first) : first[k] = p
      BY <2>3, <2>4
    <3>2. k \in 1..Len(first \o second) /\ (first \o second)[k] = first[k]
      BY <2>3
    <3>3. first \o second \in Seq(Terraform)
      BY <2>3, ConcatProperties
    <3> QED BY <3>1, <3>2, <3>3
  <2> QED BY <1>1, <2>2, <2>5 DEF Wanted
<1>6. CASE job.mode = "full"
  BY <1>6 DEF Before, After, HeadOf, BaseOf
<1> QED BY <1>2, <1>3, <1>4, <1>5, <1>6 DEF Modes

-----------------------------------------------------------------------------
(* From a change to the report: what the rule raises *)

Tells(F, path, addr, where) ==
    \E f \in F : /\ f.rule = "force_new_change" /\ f.file = path
                 /\ f.address = addr /\ f.where = where

LEMMA AttributeFound ==
    ASSUME NEW path, NEW addr, NEW prefix, NEW names, NEW new, NEW old, NEW scope, NEW severity,
           NEW n \in names, n \in DOMAIN new, n \in DOMAIN old, MayDiffer(old[n], new[n])
    PROVE  Tells(CompareAll(path, addr, prefix, names, Evaluated(new, scope),
                            Evaluated(old, NoScope), severity), path, addr, prefix \o <<n>>)
<1> DEFINE h == Evaluated(new, scope)
           b == Evaluated(old, NoScope)
           where == prefix \o <<n>>
<1>1. n \in names \cap DOMAIN h \cap DOMAIN b
  BY DEF Evaluated
<1>2. h[n] = attr_to_attribute(new[n], scope) /\ b[n] = attr_to_attribute(old[n], NoScope)
  BY DEF Evaluated
<1>3. CompareAll(path, addr, prefix, names, h, b, severity)
        = UNION {Compare(path, addr, prefix \o <<m>>, h[m], b[m], severity) :
                   m \in names \cap DOMAIN h \cap DOMAIN b}
  BY DEF CompareAll
<1>4. Compare(path, addr, where, h[n], b[n], severity)
        \subseteq CompareAll(path, addr, prefix, names, h, b, severity)
  BY <1>1, <1>3
<1> HIDE DEF h, b, where
<1>5. Tells(Compare(path, addr, where, h[n], b[n], severity), path, addr, where)
  <2>1. CASE ~h[n].literal \/ ~b[n].literal
    BY <2>1 DEF Compare, Tells, Finding
  <2>2. CASE h[n].literal /\ b[n].literal
    <3>1. old[n].ref = ""
      <4> SUFFICES ASSUME old[n].ref # "" PROVE FALSE
        OBVIOUS
      <4>1. old[n].ref \notin DOMAIN NoScope
        BY DEF NoScope
      <4>2. b[n] = NotLiteral
        BY <1>2, <4>1 DEF attr_to_attribute
      <4> QED BY <2>2, <4>2, Literals
    <3>2. new[n].ref = "" /\ new[n].text # old[n].text
      BY <3>1 DEF MayDiffer
    <3>3. h[n] = Literal(new[n].text) /\ b[n] = Literal(old[n].text)
      BY <1>2, <3>1, <3>2 DEF attr_to_attribute
    <3>4. h[n].value # b[n].value
      BY <3>2, <3>3, Literals
    <3> QED BY <2>2, <3>4 DEF Compare, Tells, Finding
  <2> QED BY <2>1, <2>2
<1> QED BY <1>4, <1>5 DEF Tells, h, b, where

\* Replacing, for the two revisions of a resource.
ReplacingIn(head, base) ==
    LET One(t) == Cardinality(BlocksOf(head, t)) = 1 /\ Cardinality(BlocksOf(base, t)) = 1
    IN  IF head.type \notin DOMAIN Schema THEN {}
        ELSE {<<n>> : n \in {m \in Schema[head.type].top \cap DOMAIN head.attrs
                                       \cap DOMAIN base.attrs :
                               MayDiffer(base.attrs[m], head.attrs[m])}}
             \cup UNION {{<<t, n>> :
                  n \in {m \in Schema[head.type].nested[t] \cap DOMAIN FindBlock(head, t)
                                  \cap DOMAIN FindBlock(base, t) :
                           MayDiffer(FindBlock(base, t)[m], FindBlock(head, t)[m])}} :
                  t \in {b \in DOMAIN Schema[head.type].nested : One(b)}}

LEMMA ResourceFound ==
    ASSUME NEW path, NEW addr, NEW head, NEW base, NEW scope, NEW w \in ReplacingIn(head, base)
    PROVE  Tells(ForceNewChanges(path, addr, head, base, scope), path, addr, w)
<1> DEFINE spec == Schema[head.type]
           severity == IF spec.critical THEN "critical" ELSE "high"
           shared == BlockTypes(head) \cap BlockTypes(base) \cap DOMAIN spec.nested
           top == <<>>
           within(t) == <<t>>
           F == ForceNewChanges(path, addr, head, base, scope)
           AtTop == CompareAll(path, addr, top, spec.top, Evaluated(head.attrs, scope),
                               Evaluated(base.attrs, NoScope), severity)
           In(t) == CompareAll(path, addr, within(t), spec.nested[t],
                               Evaluated(FindBlock(head, t), scope),
                               Evaluated(FindBlock(base, t), NoScope), severity)
<1>1. head.type \in DOMAIN Schema
  BY DEF ReplacingIn
<1>2. AtTop \subseteq F /\ \A t \in shared : In(t) \subseteq F
  <2>1. F = AtTop \cup UNION {In(t) : t \in shared}
    BY <1>1 DEF ForceNewChanges
  <2> HIDE DEF AtTop, In, F, shared
  <2> QED BY <2>1
<1>3. /\ \A n : top \o <<n>> = <<n>>
      /\ \A t, n : within(t) \o <<n>> = <<t, n>>
  BY Prefixes, Pair
<1>4. \/ \E n \in spec.top : /\ n \in DOMAIN head.attrs /\ n \in DOMAIN base.attrs
                             /\ MayDiffer(base.attrs[n], head.attrs[n]) /\ w = <<n>>
      \/ \E t \in DOMAIN spec.nested :
             /\ Cardinality(BlocksOf(head, t)) = 1 /\ Cardinality(BlocksOf(base, t)) = 1
             /\ \E n \in spec.nested[t] :
                   /\ n \in DOMAIN FindBlock(head, t) /\ n \in DOMAIN FindBlock(base, t)
                   /\ MayDiffer(FindBlock(base, t)[n], FindBlock(head, t)[n]) /\ w = <<t, n>>
  BY <1>1 DEF ReplacingIn
<1>5. ASSUME NEW n \in spec.top, n \in DOMAIN head.attrs, n \in DOMAIN base.attrs,
             MayDiffer(base.attrs[n], head.attrs[n]), w = <<n>>
      PROVE  Tells(F, path, addr, w)
  <2> HIDE DEF spec, severity, top, F
  <2>1. Tells(AtTop, path, addr, top \o <<n>>)
    BY <1>5, AttributeFound
  <2> HIDE DEF AtTop
  <2> QED BY <1>2, <1>3, <1>5, <2>1 DEF Tells
<1>6. ASSUME NEW t \in DOMAIN spec.nested,
             Cardinality(BlocksOf(head, t)) = 1, Cardinality(BlocksOf(base, t)) = 1,
             NEW n \in spec.nested[t],
             n \in DOMAIN FindBlock(head, t), n \in DOMAIN FindBlock(base, t),
             MayDiffer(FindBlock(base, t)[n], FindBlock(head, t)[n]), w = <<t, n>>
      PROVE  Tells(F, path, addr, w)
  <2>1. t \in shared
    BY <1>6, OneBlock
  <2> HIDE DEF spec, severity, within, F, shared
  <2>2. Tells(In(t), path, addr, within(t) \o <<n>>)
    BY <1>6, AttributeFound
  <2> HIDE DEF In
  <2> QED BY <1>2, <1>3, <1>6, <2>1, <2>2 DEF Tells
<1> HIDE DEF F, spec
<1>7. Tells(F, path, addr, w)
  BY <1>4, <1>5, <1>6, Zenon
<1> QED BY <1>7 DEF F

LEMMA ChangeFound ==
    ASSUME NEW file, NEW scope, file.head.parses, file.base # Missing, file.base.parses,
           NEW a \in Managed(file.head.resources), a \in DOMAIN file.base.resources,
           NEW w \in ReplacingIn(file.head.resources[a], file.base.resources[a])
    PROVE  Tells(FindingsIn(file, scope), file.path, a, w)
<1>1. BaseResources(file) = file.base.resources
  BY DEF BaseResources
<1> DEFINE F == ForceNewChanges(file.path, a, file.head.resources[a],
                                file.base.resources[a], scope)
<1>2. Tells(F, file.path, a, w)
  BY ResourceFound
<1>3. F \subseteq FindingsIn(file, scope)
  <2>1. F \subseteq ForceNewChangeRule(file.path, file.head.resources, BaseResources(file), scope)
    BY <1>1 DEF ForceNewChangeRule
  <2> HIDE DEF F
  <2> QED BY <2>1 DEF FindingsIn
<1> HIDE DEF F
<1> QED BY <1>2, <1>3 DEF Tells

-----------------------------------------------------------------------------
(* From a change to the report: nothing is lost on the way *)

ToRead(p)  == \E k \in DOMAIN todo : todo[k] = p
WasRead(p) == \E i \in DOMAIN files : files[i].path = p

\* The engine has been through the file at i.
Heard(i) ==
    /\ DirOfFile(i) \in DOMAIN scopes /\ DirOfFile(i) \in DOMAIN pins
    /\ FindingsIn(files[i], scopes[DirOfFile(i)]) \subseteq raised

Complete ==
    /\ pc # "read" => todo = <<>>
    /\ pc \in {"idle", "list", "read"} => pins = Empty
    /\ pc \notin {"idle", "list", "ended"} /\ ~moved =>
           \A p \in PathSet : Wanted(p) => ToRead(p) \/ WasRead(p)
    /\ ~moved => \A d \in DOMAIN pins : pins[d] = ConstraintIn(d, files, seen.disk)
    /\ \A i \in DOMAIN files : i < at => Heard(i)

LEMMA CompleteStays ==
    ASSUME Complete, UNCHANGED <<job, todo, files, at, scopes, pins, raised, seen>>,
           moved => moved',
           pc' = pc \/ pc' = "ended" \/ (pc' \notin {"idle", "list", "read", "ended"}
                                         /\ pc \notin {"idle", "list", "ended"}),
           pc' # "read" => todo = <<>>
    PROVE  Complete'
<1>1. \A p : (Wanted(p)' <=> Wanted(p)) /\ (ToRead(p)' <=> ToRead(p)) /\ (WasRead(p)' <=> WasRead(p))
  BY DEF Wanted, ToRead, WasRead
<1>2. \A i : Heard(i)' <=> Heard(i)
  BY DEF Heard, DirOfFile
<1>3. pc' \in {"idle", "list", "read"} => pins' = Empty
  BY DEF Complete
<1>4. pc' \notin {"idle", "list", "ended"} /\ ~moved' =>
           \A p \in PathSet : Wanted(p)' => ToRead(p)' \/ WasRead(p)'
  BY <1>1 DEF Complete
<1>5. ~moved' => \A d \in DOMAIN pins' : pins'[d] = ConstraintIn(d, files', seen'.disk)
  BY DEF Complete
<1>6. \A i \in DOMAIN files' : i < at' => Heard(i)'
  BY <1>2 DEF Complete
<1> QED BY <1>3, <1>4, <1>5, <1>6 DEF Complete

LEMMA CompleteListing ==
    ASSUME Complete, Steady, Traced, TypeOK, (\E j \in Jobs : StartScan(j)) \/ ListFiles
    PROVE  Complete'
<1>1. files' = <<>> /\ pins' = Empty /\ DOMAIN pins' = {} /\ DOMAIN files' = {}
  BY DEF StartScan, ListFiles, Steady, Complete, Empty
<1>2. CASE \E j \in Jobs : StartScan(j)
  BY <1>1, <1>2 DEF StartScan, Goto, Complete
<1>3. CASE ListFiles
  <2>1. todo' = Select(job.mode, "terraform", repo) /\ seen' = repo /\ job' = job /\ pc' = "read"
    BY <1>3 DEF ListFiles, Goto
  <2>2. ASSUME NEW p \in PathSet, Wanted(p)'
        PROVE  ToRead(p)'
    BY <2>1, <2>2 DEF Wanted, ToRead
  <2> QED BY <1>1, <2>1, <2>2 DEF Complete
<1> QED BY <1>2, <1>3

LEMMA CompleteReading ==
    ASSUME Complete, Steady, Traced, TypeOK, ReadNext
    PROVE  Complete'
<1>1. /\ pc = "read" /\ pc' = IF Tail(todo) = <<>> THEN "inspect" ELSE "read"
      /\ todo # <<>> /\ todo' = Tail(todo) /\ todo \in Seq(Terraform) /\ at = 1 /\ pins = Empty
      /\ UNCHANGED <<repo, job, at, scopes, pins, raised, seen, moved>>
  BY DEF ReadNext, Goto, Steady, Traced, Complete, history
<1>2. pc' # "read" => todo' = <<>>
  BY <1>1
<1>3. files \in Seq(File) /\ Len(files) \in Nat /\ DOMAIN files = 1..Len(files)
  BY DEF TypeOK, File
<1>4. \A i \in DOMAIN files' : ~(i < at')
  <2>1. files' = files \/ files' = Append(files, ReadFile(job.mode, Head(todo), repo))
    BY DEF ReadNext
  <2>2. DOMAIN Append(files, ReadFile(job.mode, Head(todo), repo)) = 1..(Len(files) + 1)
    BY <1>3
  <2> QED BY <1>1, <1>3, <2>1, <2>2
<1>5. ASSUME ~moved', NEW p \in PathSet, Wanted(p)'
      PROVE  ToRead(p)' \/ WasRead(p)'
  <2>1. Wanted(p) /\ repo = seen
    BY <1>1, <1>5 DEF Wanted, Steady
  <2>2. ToRead(p) \/ WasRead(p)
    BY <1>1, <1>5, <2>1 DEF Complete
  <2>3. CASE WasRead(p)
    <3>1. PICK i \in 1..Len(files) : files[i].path = p
      BY <1>3, <2>3 DEF WasRead
    <3>2. CASE files' = files
      BY <1>3, <3>1, <3>2 DEF WasRead
    <3>3. CASE files' = Append(files, ReadFile(job.mode, Head(todo), repo))
      <4>1. i \in 1..(Len(files) + 1) /\ DOMAIN files' = 1..(Len(files) + 1) /\ files'[i] = files[i]
        BY <1>3, <3>1, <3>3
      <4> QED BY <3>1, <4>1 DEF WasRead
    <3> QED BY <3>2, <3>3 DEF ReadNext
  <2>4. CASE ToRead(p)
    <3>1. PICK k \in 1..Len(todo) : todo[k] = p
      BY <1>1, <2>4 DEF ToRead
    <3>2. CASE k = 1
      <4>1. Head(todo) = p
        BY <1>1, <3>1, <3>2
      <4>2. files' = Append(files, ReadFile(job.mode, p, repo))
        BY <2>1, <4>1 DEF ReadNext, Wanted
      <4>3. PICK n \in Nat : n = Len(files) + 1
        BY <1>3
      <4>4. n \in DOMAIN files' /\ files'[n] = ReadFile(job.mode, p, repo)
        BY <1>3, <4>2, <4>3
      <4>5. files'[n].path = p
        BY <4>4 DEF ReadFile
      <4> QED BY <4>4, <4>5 DEF WasRead
    <3>3. CASE k # 1
      <4>1. PICK m \in Nat : m = k - 1
        BY <3>1, <3>3
      <4>2. /\ Tail(todo) \in Seq(Terraform) /\ Len(Tail(todo)) = Len(todo) - 1
            /\ \A i \in 1..Len(Tail(todo)) : Tail(todo)[i] = todo[i + 1]
        BY <1>1, HeadTailProperties
      <4>3. m \in 1..Len(Tail(todo)) /\ m + 1 = k
        BY <1>1, <3>1, <3>3, <4>1, <4>2
      <4>4. m \in DOMAIN Tail(todo) /\ Tail(todo)[m] = p
        BY <3>1, <4>2, <4>3
      <4> QED BY <1>1, <4>4 DEF ToRead
    <3> QED BY <3>2, <3>3
  <2> QED BY <2>2, <2>3, <2>4
<1>6. DOMAIN pins' = {} /\ pins' = Empty
  BY <1>1 DEF Empty
<1> QED BY <1>2, <1>4, <1>5, <1>6 DEF Complete

LEMMA CompleteInspecting ==
    ASSUME Complete, Steady, TypeOK, InspectNext
    PROVE  Complete'
<1>0. PICK k \in DOMAIN files : k = at
  <2>1. at \in Nat \ {0} /\ at <= Len(files) /\ files \in Seq(File)
    BY DEF InspectNext, TypeOK, File
  <2> QED BY <2>1
<1> DEFINE file == files[k]
           dir == DirOf[file.path]
           value == build_scope(ScopeFiles(file.path, file.head, repo.disk))
           pin == ConstraintIn(dir, files, repo.disk)
<1>1. /\ pc = "inspect" /\ UNCHANGED <<repo, pc, job, todo, files, seen, moved>>
      /\ scopes' = Cached(scopes, dir, value) /\ pins' = Cached(pins, dir, pin)
      /\ raised' = raised \cup FindingsIn(file, scopes'[dir])
      /\ at' = k + 1
  BY <1>0 DEF InspectNext, history
<1>2. /\ DOMAIN scopes' = DOMAIN scopes \cup {dir}
      /\ \A d \in DOMAIN scopes : scopes'[d] = scopes[d]
  <2>1. /\ DOMAIN Cached(scopes, dir, value) = DOMAIN scopes \cup {dir}
        /\ \A d \in DOMAIN scopes : Cached(scopes, dir, value)[d] = scopes[d]
        /\ dir \notin DOMAIN scopes => Cached(scopes, dir, value)[dir] = value
    BY CachedValue, Zenon
  <2> HIDE DEF dir, value
  <2> QED BY <1>1, <2>1
<1>3. /\ DOMAIN pins' = DOMAIN pins \cup {dir}
      /\ \A d \in DOMAIN pins : pins'[d] = pins[d]
      /\ dir \notin DOMAIN pins => pins'[dir] = pin
  <2>1. /\ DOMAIN Cached(pins, dir, pin) = DOMAIN pins \cup {dir}
        /\ \A d \in DOMAIN pins : Cached(pins, dir, pin)[d] = pins[d]
        /\ dir \notin DOMAIN pins => Cached(pins, dir, pin)[dir] = pin
    BY CachedValue, Zenon
  <2> HIDE DEF dir, pin
  <2> QED BY <1>1, <2>1
<1>4. ASSUME ~moved', NEW d \in DOMAIN pins'
      PROVE  pins'[d] = ConstraintIn(d, files', seen'.disk)
  <2>1. repo = seen /\ ~moved
    BY <1>1, <1>4 DEF Steady
  <2>2. CASE d \in DOMAIN pins
    BY <1>1, <1>3, <2>1, <2>2 DEF Complete
  <2>3. CASE d \notin DOMAIN pins
    BY <1>1, <1>3, <2>1, <2>3
  <2> QED BY <2>2, <2>3
<1>5. ASSUME NEW i \in DOMAIN files, i < k + 1
      PROVE  Heard(i)'
  <2>1. DirOfFile(i)' = DirOfFile(i) /\ files'[i] = files[i]
    BY <1>1 DEF DirOfFile
  <2>2. CASE i = k
    <3>1. files[i] = file /\ DirOfFile(i) = dir
      BY <2>2 DEF DirOfFile
    <3>2. dir \in DOMAIN scopes' /\ dir \in DOMAIN pins'
      BY <1>2, <1>3
    <3>3. FindingsIn(file, scopes'[dir]) \subseteq raised'
      BY <1>1
    <3> HIDE DEF file, dir
    <3> QED BY <2>1, <3>1, <3>2, <3>3 DEF Heard
  <2>3. CASE i # k
    <3>1. i < at
      <4>1. i \in Nat /\ k \in Nat
        BY DEF TypeOK
      <4> QED BY <1>0, <1>5, <2>3, <4>1
    <3>2. Heard(i)
      BY <3>1 DEF Complete
    <3>3. /\ DirOfFile(i) \in DOMAIN scopes' /\ DirOfFile(i) \in DOMAIN pins'
          /\ scopes'[DirOfFile(i)] = scopes[DirOfFile(i)]
      BY <1>2, <1>3, <3>2 DEF Heard
    <3>4. raised \subseteq raised'
      BY <1>1
    <3> QED BY <2>1, <3>2, <3>3, <3>4 DEF Heard
  <2> QED BY <2>2, <2>3
<1>6. \A i \in DOMAIN files' : i < at' => Heard(i)'
  BY <1>1, <1>5
<1>7. ASSUME ~moved', NEW p \in PathSet, Wanted(p)'
      PROVE  ToRead(p)' \/ WasRead(p)'
  <2>1. Wanted(p) /\ ~moved
    BY <1>1, <1>7 DEF Wanted
  <2>2. ToRead(p) \/ WasRead(p)
    BY <1>1, <2>1 DEF Complete
  <2> QED BY <1>1, <2>2 DEF ToRead, WasRead
<1> QED BY <1>1, <1>4, <1>6, <1>7 DEF Complete

LEMMA CompleteAlways == Spec => []Complete
<1>1. Init => Complete
  BY DEF Init, AtRest, Complete, Empty
<1>2. TypeOK /\ Steady /\ Traced /\ Complete /\ [Next]_vars => Complete'
  <2> SUFFICES ASSUME TypeOK, Steady, Traced, Complete, [Next]_vars
               PROVE  Complete'
    OBVIOUS
  <2>1. CASE Elsewhere \/ UNCHANGED vars
    <3>1. UNCHANGED <<pc, scanning, seen>> /\ (moved => moved')
      <4>1. CASE UNCHANGED vars
        BY <4>1 DEF vars, history
      <4>2. CASE Elsewhere
        BY <4>2 DEF Elsewhere, Edit, BaseMoves, Stage, Commit, Change
      <4> QED BY <2>1, <4>1, <4>2
    <3>2. UNCHANGED <<pc, job, todo, files, at, scopes, pins, raised, seen>>
      BY <3>1 DEF scanning
    <3>3. pc' # "read" => todo = <<>>
      BY <3>2 DEF Complete
    <3> QED BY <3>1, <3>2, <3>3, CompleteStays
  <2>2. CASE (\E j \in Jobs : StartScan(j)) \/ ListFiles
    BY <2>2, CompleteListing
  <2>3. CASE ReadNext
    BY <2>3, CompleteReading
  <2>4. CASE InspectNext
    BY <2>4, CompleteInspecting
  <2>5. CASE Judge \/ ReadPlan \/ Others
    <3>1. /\ UNCHANGED <<job, todo, files, at, scopes, pins, raised, seen, moved>>
          /\ pc \in {"inspect", "plan", "others"} /\ pc' \in {"plan", "others", "propose", "ended"}
      BY <2>5 DEF Judge, ReadPlan, Others, Goto, history
    <3>2. todo = <<>>
      BY <3>1 DEF Complete
    <3> QED BY <3>1, <3>2, CompleteStays
  <2>6. CASE Fail \/ NothingToRead \/ Propose \/ NothingToFix
             \/ (\E p \in PathSet, c \in Corrections : Request(p, c)) \/ Confirm \/ Check \/ Write
    <3>1. /\ UNCHANGED <<scanning, seen, moved>>
          /\ \/ pc' = "ended"
             \/ /\ pc \in {"read", "propose", "request", "confirm", "check", "write"}
                /\ pc' \in {"inspect", "request", "confirm", "check", "write"}
          /\ pc = "read" => todo = <<>>
      BY <2>6 DEF Fail, NothingToRead, Propose, NothingToFix, Request, Confirm, Check, Write,
                  NextFile, Break, Goto, history
    <3>2. UNCHANGED <<job, todo, files, at, scopes, pins, raised, seen, moved>>
      BY <3>1 DEF scanning
    <3>3. todo = <<>>
      BY <3>1 DEF Complete
    <3> QED BY <3>1, <3>2, <3>3, CompleteStays
  <2> QED BY <2>1, <2>2, <2>3, <2>4, <2>5, <2>6 DEF Next, Scan
<1> QED BY <1>1, <1>2, TypeCorrect, SteadyAlways, TracedAlways, PTL DEF Spec

-----------------------------------------------------------------------------
(* From a change to the report: what the provider and the directives leave *)

\* A constraint is one of a file of the directory, as scanned or as it lies there.
LEMMA PinFrom ==
    ASSUME NEW dir, NEW disk, ConstraintIn(dir, files, disk) = "out"
    PROVE  \E q \in PathSet : /\ DirOf[q] = dir
                              /\ \/ disk[q] # Missing /\ disk[q].pin = "out"
                                 \/ \E i \in DOMAIN files : files[i].path = q /\ files[i].head # Missing
                                                               /\ files[i].head.pin = "out"
<1> DEFINE scanned(p) == {i \in DOMAIN files : files[i].path = p}
           Held(p) == IF scanned(p) # {} THEN files[CHOOSE i \in scanned(p) : TRUE].head ELSE disk[p]
           chosen == {p \in PathSet : /\ DirOf[p] = dir /\ KindOf[p] = "terraform"
                                      /\ Held(p) # Missing
                                      /\ Held(p).pin # "none"}
           pinning == Ordered(chosen)
<1>1. ConstraintIn(dir, files, disk) = IF pinning = <<>> THEN "none" ELSE Held(Head(pinning)).pin
  BY DEF ConstraintIn
<1>2. \A p : \/ Held(p) = disk[p]
             \/ \E i \in DOMAIN files : files[i].path = p /\ Held(p) = files[i].head
  <2> SUFFICES ASSUME NEW p, scanned(p) # {}
               PROVE  \E i \in DOMAIN files : files[i].path = p /\ Held(p) = files[i].head
    OBVIOUS
  <2>1. (CHOOSE i \in scanned(p) : TRUE) \in scanned(p)
    OBVIOUS
  <2> QED BY <2>1
<1>3. \A p \in chosen : p \in PathSet /\ DirOf[p] = dir /\ Held(p) # Missing
  OBVIOUS
<1> HIDE DEF Held, chosen
<1>4. pinning # <<>> /\ Held(Head(pinning)).pin = "out"
  BY <1>1
<1>5. Head(pinning) \in chosen
  <2>1. pinning \in Seq(chosen \cap PathSet)
    BY OrderedRange
  <2> QED BY <1>4, <2>1, HeadTailProperties
<1> QED BY <1>2, <1>3, <1>4, <1>5

LEMMA BareAddressOfFile ==
    ASSUME NEW c \in Contents, c.parses, NEW a \in Managed(c.resources)
    PROVE  bare_resource_address(a) = a
<1>1. a \in Address /\ Len(a) = 2 /\ KeyedPositions(a) = {}
  BY AddressesAssumption
<1>2. LastTwo(a) = SubSeq(a, 1, 2)
  BY <1>1 DEF LastTwo
<1>3. SubSeq(a, 1, 2) = <<a[1], a[2]>> /\ a = <<a[1], a[2]>>
  <2>1. a \in Seq([name : STRING, keyed : BOOLEAN])
    BY <1>1 DEF Address
  <2>2. a = <<a[1], a[2]>>
    BY <1>1, <2>1, TwoLong
  <2>3. PICK n \in Nat : n = Len(a) /\ n >= 2
    BY <1>1
  <2>4. SubSeq(a, n - 1, n) = <<a[n - 1], a[n]>>
    BY <2>1, <2>3, LastPair
  <2>5. n - 1 = 1 /\ n = 2
    BY <1>1, <2>3
  <2> QED BY <2>2, <2>3, <2>4, <2>5
<1> QED BY <1>1, <1>2, <1>3 DEF bare_resource_address, Unkeyed

LEMMA CompleteIsReported ==
    ASSUME TypeOK, Steady, Traced, Complete, OnlyReplacementsGiveWay
    PROVE  ForceNewReported
<1> SUFFICES ASSUME Still, Current, NEW p \in PathSet \ Quoted, KindOf[p] = "terraform",
                    Before(p) # After(p), BothParse(p), ~Silenced(p),
                    NEW a \in Both(p), NEW w \in Replacing(p, a)
             PROVE  Reported(p, a, w)
  BY DEF ForceNewReported
<1>1. ~moved /\ Judged /\ pc \notin {"idle", "list", "read", "ended"} /\ at > Len(files)
  BY DEF Still, Judged, Traced
<1>2. /\ Before(p) # Missing /\ After(p) # Missing /\ Before(p).parses /\ After(p).parses
      /\ a \in Managed(After(p).resources) /\ a \in DOMAIN Before(p).resources
  BY DEF BothParse, Both
<1>3. WasRead(p)
  <2>1. Wanted(p)
    BY <1>2, ChangedFileWanted
  <2>2. todo = <<>>
    BY <1>1 DEF Complete
  <2>3. ~ToRead(p)
    BY <2>2 DEF ToRead
  <2> QED BY <1>1, <2>1, <2>3 DEF Complete
<1>4. PICK i \in DOMAIN files : files[i].path = p
  BY <1>3 DEF WasRead
<1>5. \A j \in DOMAIN files : files[j].head = After(files[j].path)
  <2>1. \A j \in DOMAIN files : files[j] = ReadFile(job.mode, files[j].path, seen)
    BY <1>1 DEF Steady, AsListed
  <2>2. \A j \in DOMAIN files : files[j].head = HeadOf(job.mode, seen)[files[j].path]
    BY <2>1 DEF ReadFile
  <2> QED BY <2>2 DEF After
<1>6. files[i].head = After(p) /\ files[i].base = Before(p)
  <2>1. files[i].base = BaseOf(job.mode, seen)[p]
    BY <1>1, <1>4 DEF Steady, AsListed, ReadFile
  <2>2. files[i].base = Before(p)
    BY <2>1 DEF Before, BaseOf, Current
  <2> QED BY <1>4, <1>5, <2>2
<1>7. Heard(i)
  <2>1. i < at
    BY <1>1 DEF TypeOK
  <2> QED BY <2>1 DEF Complete
<1>8. w \in ReplacingIn(files[i].head.resources[a], files[i].base.resources[a])
  BY <1>6 DEF Replacing, ReplacingIn
<1>9. PICK f \in raised : /\ f.rule = "force_new_change" /\ f.file = p
                          /\ f.address = a /\ f.where = w
  <2>1. Tells(FindingsIn(files[i], scopes[DirOfFile(i)]), files[i].path, a, w)
    BY <1>2, <1>6, <1>8, ChangeFound
  <2> QED BY <1>4, <1>7, <2>1 DEF Tells, Heard
<1>10. f \in DropSilenced(DropContradicted(raised, pins), files, job.ignored)
  <2>1. f.rule \notin job.ignored /\ f.rule \notin After(p).ignored
    BY <1>9 DEF Silenced
  <2>2. pins[DirOf[p]] # "out"
    <3> SUFFICES ASSUME pins[DirOf[p]] = "out" PROVE FALSE
      OBVIOUS
    <3>1. DirOf[p] \in DOMAIN pins
      BY <1>4, <1>7 DEF Heard, DirOfFile
    <3>2. ConstraintIn(DirOf[p], files, seen.disk) = "out"
      BY <1>1, <3>1 DEF Complete
    <3>3. PICK q \in PathSet :
              /\ DirOf[q] = DirOf[p]
              /\ \/ seen.disk[q] # Missing /\ seen.disk[q].pin = "out"
                 \/ \E j \in DOMAIN files : files[j].path = q /\ files[j].head # Missing
                                               /\ files[j].head.pin = "out"
      BY <3>2, PinFrom
    <3>4. \E c \in {After(q), seen.disk[q]} : c # Missing /\ c.pin = "out"
      BY <1>5, <3>3
    <3> QED BY <3>3, <3>4 DEF Silenced
  <2>3. f \in DropContradicted(raised, pins)
    BY <1>9, <2>2 DEF DropContradicted
  <2>4. \A j \in DOMAIN files : files[j].path = f.file => f.rule \notin files[j].head.ignored
    BY <1>5, <1>9, <2>1
  <2> QED BY <2>1, <2>3, <2>4 DEF DropSilenced
<1>11. \/ f \in findings
       \/ \E g \in findings : /\ g.rule = "confirmed_replace"
                              /\ bare_resource_address(g.address) = bare_resource_address(f.address)
  BY <1>1, <1>9, <1>10 DEF OnlyReplacementsGiveWay
<1>12. bare_resource_address(a) = a
  <2>1. files \in Seq(File) /\ i \in 1..Len(files)
    BY DEF TypeOK, File
  <2>2. files[i] \in File
    BY <2>1, ElementOfSeq
  <2>3. After(p) \in Contents
    BY <1>6, <2>2 DEF File
  <2> QED BY <1>2, <2>3, BareAddressOfFile
<1> QED BY <1>9, <1>11, <1>12 DEF Reported

(***************************************************************************)
(* For every repository, mode, schema and plan: a change to a ForceNew     *)
(* attribute that is there between the two revisions a request is about    *)
(* gets into the report, unless a directive silences it or a pinned        *)
(* provider contradicts the schema (schema_checks.py:84).                  *)
(***************************************************************************)
THEOREM ForceNewIsReported == Spec => []ForceNewReported
<1>1. TypeOK /\ Steady /\ Traced /\ Complete /\ OnlyReplacementsGiveWay => ForceNewReported
  BY CompleteIsReported
<1> QED BY <1>1, TypeCorrect, SteadyAlways, TracedAlways, CompleteAlways,
           PlansHideOnlyWhatTheyConfirm, PTL
=============================================================================
