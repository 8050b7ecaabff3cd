--------------------------- MODULE KnowledgeProofs ---------------------------
(***************************************************************************)
(* Theorems about Knowledge, for every set of packs, files and answers.    *)
(***************************************************************************)
EXTENDS Knowledge, SequenceTheorems, WellFoundedInduction, TLAPS

---------------------------------------------------------------------------
(* The pessimistic operator                                                *)

\* b is v without its last component and with the one before it raised.
Bumps(v, n, b) ==
    /\ Len(v) = n + 1
    /\ Len(b) = n
    /\ \A i \in 1..n : b[i] = IF i = n THEN v[i] + 1 ELSE v[i]

LEMMA CeilingIsASequence ==
    ASSUME NEW v \in Seq(Nat), Len(v) > 1
    PROVE  /\ Ceiling(v) \in Seq(Nat)
           /\ Len(Ceiling(v)) = Len(v) - 1
           /\ \A i \in 1..(Len(v) - 1) :
                 Ceiling(v)[i] = IF i = Len(v) - 1 THEN v[i] + 1 ELSE v[i]
<1>1. Len(v) - 1 \in Nat
  OBVIOUS
<1>2. PICK n \in Nat : n = Len(v) - 1
  BY <1>1
<1>3. PICK b : b = [i \in 1..n |-> IF i = n THEN v[i] + 1 ELSE v[i]]
  OBVIOUS
<1>4. Ceiling(v) = b
  BY <1>2, <1>3 DEF Ceiling
<1>5. \A i \in 1..n : v[i] \in Nat
  BY <1>2
<1>6. b \in [1..n -> Nat]
  BY <1>3, <1>5
<1>7. b \in Seq(Nat)
  BY <1>6
<1>8. DOMAIN b = 1..n /\ DOMAIN b = 1..Len(b) /\ Len(b) \in Nat
  BY <1>6, <1>7
<1>9. Len(b) = n
  BY <1>8
<1> QED BY <1>2, <1>3, <1>4, <1>7, <1>9

(***************************************************************************)
(* Comparing with the release that "~>" excludes first is the same as      *)
(* holding every component but the last (Term.allows).                     *)
(***************************************************************************)
LEMMA PrefixIsHeld ==
    ASSUME NEW n \in Nat, n >= 1, NEW v \in Seq(Nat), NEW b \in Seq(Nat), NEW c \in Seq(Nat),
           Bumps(v, n, b), ~Before(c, v)
    PROVE  Before(c, b) <=> \A i \in 1..n : Component(c, i) = v[i]
<1>0. Len(v) = n + 1 /\ Len(b) = n /\ \A i \in 1..n : b[i] = IF i = n THEN v[i] + 1 ELSE v[i]
  BY DEF Bumps
<1>1. Len(c) \in Nat
  OBVIOUS
<1>2. \A i \in Nat : i >= 1 => Component(c, i) \in Nat
  BY DEF Component
<1>3. \A i \in 1..n : Component(v, i) = v[i] /\ v[i] \in Nat
  <2>1. \A i \in 1..n : i \in 1..Len(v) /\ i <= Len(v)
    BY <1>0
  <2>2. \A i \in 1..n : v[i] \in Nat
    BY <2>1, ElementOfSeq
  <2>3. \A i \in 1..n : Component(v, i) = v[i]
    BY <2>1 DEF Component
  <2> QED BY <2>2, <2>3
<1>4. \A i \in 1..n : Component(b, i) = IF i = n THEN v[i] + 1 ELSE v[i]
  BY <1>0 DEF Component
<1>5. \A i \in Nat : i > n => Component(b, i) = 0
  BY <1>0 DEF Component
<1>6. 1..n \subseteq 1..Width(c, v) /\ n \in 1..Width(c, b) /\ Width(c, b) \in Nat
  BY <1>0, <1>1 DEF Width
<1>7. \A i \in 1..n : (\A j \in 1..(i - 1) : Component(c, j) = v[j]) => ~(Component(c, i) < v[i])
  <2> SUFFICES ASSUME NEW i \in 1..n, \A j \in 1..(i - 1) : Component(c, j) = v[j],
                      Component(c, i) < v[i]
               PROVE  FALSE
    OBVIOUS
  <2>0. \A j \in 1..(i - 1) : j \in 1..n
    OBVIOUS
  <2>1. \A j \in 1..(i - 1) : Component(c, j) = Component(v, j)
    BY <1>3, <2>0
  <2>2. Component(c, i) < Component(v, i)
    BY <1>3
  <2> QED BY <1>6, <2>1, <2>2 DEF Before
<1>8. ASSUME Before(c, b) PROVE \A i \in 1..n : Component(c, i) = v[i]
  <2>1. PICK k \in 1..Width(c, b) :
            /\ Component(c, k) < Component(b, k)
            /\ \A j \in 1..(k - 1) : Component(c, j) = Component(b, j)
    BY <1>8 DEF Before
  <2>2. k \in Nat /\ k >= 1
    BY <1>6
  <2>3. Component(c, k) \in Nat
    BY <2>2, <1>2
  <2>4. k <= n
    BY <2>1, <2>2, <2>3, <1>5
  <2>5. \A j \in 1..(k - 1) : Component(c, j) = v[j]
    BY <2>1, <2>2, <2>4, <1>4
  <2>6. ~(Component(c, k) < v[k])
    BY <2>2, <2>4, <2>5, <1>7
  <2>7. v[k] \in Nat /\ Component(b, k) = IF k = n THEN v[k] + 1 ELSE v[k]
    BY <2>2, <2>4, <1>3, <1>4
  <2>8. k = n /\ Component(c, k) = v[k]
    BY <2>1, <2>2, <2>3, <2>6, <2>7
  <2> QED BY <2>5, <2>8
<1>9. ASSUME \A i \in 1..n : Component(c, i) = v[i] PROVE Before(c, b)
  <2>1. n \in 1..n
    OBVIOUS
  <2>2. Component(c, n) = v[n] /\ v[n] \in Nat /\ Component(b, n) = v[n] + 1
    BY <2>1, <1>3, <1>4, <1>9
  <2>3. Component(c, n) < Component(b, n)
    BY <2>2
  <2>4. \A j \in 1..(n - 1) : Component(c, j) = Component(b, j)
    BY <1>9, <1>4
  <2> QED BY <1>6, <2>3, <2>4 DEF Before
<1> QED BY <1>8, <1>9

LEMMA PessimisticIsTheReference ==
    ASSUME NEW piece \in Piece, NEW c \in Seq(Nat),
           piece.operator = "~>", piece.version # <<>>
    PROVE  Allows(piece, c) <=> Pessimistic(piece.version, c)
<1>0. PICK v : v = piece.version
  OBVIOUS
<1>1. v \in Seq(Nat) /\ v # <<>>
  BY <1>0 DEF Piece
<1>5. Len(v) \in Nat /\ Len(v) > 0
  BY <1>1
<1>2. Allows(piece, c) <=> ~Before(c, v) /\ (Len(v) > 1 => Before(c, Ceiling(v)))
  BY <1>0 DEF Allows
<1>3. CASE Len(v) > 1
  <2>1. Len(v) - 1 \in Nat /\ Len(v) - 1 >= 1 /\ Len(v) = (Len(v) - 1) + 1
    BY <1>5, <1>3
  <2>2. ~Before(c, v) => (Before(c, Ceiling(v))
                             <=> \A i \in 1..(Len(v) - 1) : Component(c, i) = v[i])
    <3> SUFFICES ASSUME ~Before(c, v)
                 PROVE  Before(c, Ceiling(v))
                            <=> \A i \in 1..(Len(v) - 1) : Component(c, i) = v[i]
      OBVIOUS
    <3>1. PICK n \in Nat : n = Len(v) - 1 /\ n >= 1
      BY <2>1
    <3>2. PICK b \in Seq(Nat) : /\ b = Ceiling(v) /\ Len(b) = n
                               /\ \A i \in 1..n : b[i] = IF i = n THEN v[i] + 1 ELSE v[i]
      BY <3>1, <1>1, <1>3, CeilingIsASequence
    <3>3. Len(v) = n + 1
      BY <3>1, <1>5
    <3>4. Before(c, b) <=> \A i \in 1..n : Component(c, i) = v[i]
      <4>1. Bumps(v, n, b)
        BY <3>2, <3>3 DEF Bumps
      <4>2. n >= 1 /\ v \in Seq(Nat)
        BY <3>1, <1>1
      <4> QED BY <4>1, <4>2, PrefixIsHeld, ZenonT(60)
    <3> QED BY <3>1, <3>2, <3>4
  <2> QED BY <1>0, <1>2, <1>3, <2>2 DEF Pessimistic
<1>4. CASE ~(Len(v) > 1)
  <2>1. 1..(Len(v) - 1) = {}
    BY <1>5, <1>4
  <2> QED BY <1>0, <1>2, <1>4, <2>1 DEF Pessimistic
<1> QED BY <1>3, <1>4

---------------------------------------------------------------------------
(* What a step leaves alone                                                *)

Loading == {"overlay", "announce", "judge", "done"}

LEMMA InputsStand == [Next]_vars => args' = args /\ files' = files
BY DEF Next, vars, LoadShipped, Skip, Unavailable, Receive, StartOverlays, Overlay, Reject,
       Break, Loaded, Announce, Judge

LEMMA InputsDecide ==
    ASSUME args' = args, files' = files
    PROVE  /\ Asked' = Asked
           /\ NothingToFetch' <=> NothingToFetch
           /\ \A p : Wanted(p)' <=> Wanted(p)
           /\ detect_providers' = detect_providers
<1>1. detect_providers' = detect_providers
  BY DEF detect_providers
<1>2. Asked' = Asked
  BY DEF Asked
<1>3. \A p : Wanted(p)' <=> Wanted(p)
  BY <1>1 DEF Wanted
<1>4. NothingToFetch' <=> NothingToFetch
  BY <1>2, <1>3 DEF NothingToFetch
<1> QED BY <1>1, <1>2, <1>3, <1>4

LEMMA AskedIsASequence ==
    ASSUME args \in Arguments
    PROVE  Asked \in Seq(Providers)
BY KnowledgeAssumption DEF Asked

---------------------------------------------------------------------------
(* Types                                                                   *)

Lines == Kinds \X (Providers \cup {Nothing}) \X Nat

SoundPacks == {pack \in Shipped \cup Bodies : pack.condition = "sound"}

LEMMA TypeStep == TypeOK /\ [Next]_vars => TypeOK'
<1> SUFFICES ASSUME TypeOK, [Next]_vars PROVE TypeOK'
  OBVIOUS
<1>0. /\ args \in Arguments /\ files \in Repositories /\ pc \in Steps
      /\ turn \in Nat /\ turn # 0 /\ turn + 1 \in Nat \ {0}
      /\ overlays \in Seq([asked : Providers, body : Bodies])
      /\ packs \in Seq(SoundPacks)
      /\ warned \subseteq Lines
  BY DEF TypeOK, SoundPacks, Lines
<1>1. Asked \in Seq(Providers) /\ (turn <= Len(Asked) => Asked[turn] \in Providers)
  BY <1>0, AskedIsASequence, ElementOfSeq
<1>2. Embedded \in Seq(SoundPacks)
  BY KnowledgeAssumption DEF SoundPacks
<1>3. \A k \in Kinds : \A p \in Providers \cup {Nothing} : \A n \in Nat :
          warned \cup {<<k, p, n>>} \subseteq Lines
  BY <1>0 DEF Lines
<1>4. {"unavailable", "cached", "rejected", "uncovered"} = Kinds
  BY DEF Kinds
<1>5. CASE LoadShipped
  BY <1>0, <1>2, <1>5 DEF LoadShipped, TypeOK, SoundPacks, Lines, Steps
<1>6. CASE Skip
  BY <1>0, <1>6 DEF Skip, TypeOK, SoundPacks, Lines
<1>7. CASE Unavailable
  <2>1. warned' \subseteq Lines
    BY <1>0, <1>1, <1>3, <1>4, <1>7 DEF Unavailable
  <2> QED BY <1>0, <1>7, <2>1 DEF Unavailable, TypeOK, SoundPacks, Lines
<1>8. CASE Receive
  <2>1. warned' \subseteq Lines
    BY <1>0, <1>1, <1>3, <1>4, <1>8 DEF Receive
  <2>2. PICK body \in Answers[Asked[turn]] :
            overlays' = Append(overlays, [asked |-> Asked[turn], body |-> body])
    BY <1>8 DEF Receive
  <2>3. body \in Bodies
    BY <1>1, <1>8, <2>2 DEF Receive, Bodies
  <2>4. [asked |-> Asked[turn], body |-> body] \in [asked : Providers, body : Bodies]
    BY <1>1, <1>8, <2>3 DEF Receive
  <2>5. overlays' \in Seq([asked : Providers, body : Bodies])
    BY <1>0, <2>2, <2>4
  <2> QED BY <1>0, <1>8, <2>1, <2>5 DEF Receive, TypeOK, SoundPacks, Lines
<1>9. CASE StartOverlays
  BY <1>0, <1>2, <1>9 DEF StartOverlays, TypeOK, SoundPacks, Lines, Steps
<1>10. CASE Overlay
  <2>0. turn \in 1..Len(overlays)
    BY <1>0, <1>10 DEF Overlay
  <2>1. overlays[turn] \in [asked : Providers, body : Bodies]
    BY <1>0, <2>0, ElementOfSeq
  <2>2. Body \in SoundPacks
    BY <2>1, <1>10 DEF Overlay, Body, SoundPacks
  <2>3. packs' \in Seq(SoundPacks)
    BY <1>0, <1>10, <2>2 DEF Overlay
  <2> QED BY <1>0, <1>10, <2>3 DEF Overlay, TypeOK, SoundPacks, Lines
<1>11. CASE Reject
  <2>0. turn \in 1..Len(overlays)
    BY <1>0, <1>11 DEF Reject
  <2>1. overlays[turn] \in [asked : Providers, body : Bodies]
    BY <1>0, <2>0, ElementOfSeq
  <2>2. Body \in Bodies
    BY <2>1 DEF Body
  <2>3. IsPack(Body)
    BY <2>2, KnowledgeAssumption
  <2>4. Subject(Body) \in Providers \cup {Nothing}
    BY <2>3 DEF Subject, IsPack
  <2>5. warned' \subseteq Lines
    BY <1>0, <1>3, <1>4, <1>11, <2>4 DEF Reject
  <2> QED BY <1>0, <1>11, <2>5 DEF Reject, TypeOK, SoundPacks, Lines
<1>12. CASE Break
  BY <1>0, <1>12 DEF Break, TypeOK, SoundPacks, Lines, Steps
<1>13. CASE Loaded
  BY <1>0, <1>13 DEF Loaded, TypeOK, SoundPacks, Lines, Steps
<1>14. CASE Announce
  <2>1. \A p \in Uncovered(packs) : p \in Providers
    <3>1. \A path \in DOMAIN files : files[path].named \subseteq Providers
      BY <1>0, KnowledgeAssumption DEF IsFile
    <3> QED BY <3>1 DEF Uncovered, detect_providers
  <2>2. warned' \subseteq Lines
    <3>1. \A p \in Uncovered(packs) : <<"uncovered", p, 0>> \in Lines
      BY <1>4, <2>1 DEF Lines
    <3> QED BY <1>0, <1>14, <3>1 DEF Announce
  <2> QED BY <1>0, <1>14, <2>2 DEF Announce, TypeOK, SoundPacks, Lines, Steps
<1>15. CASE Judge
  BY <1>0, <1>15 DEF Judge, TypeOK, SoundPacks, Lines, Steps
<1>16. CASE UNCHANGED vars
  BY <1>0, <1>16 DEF vars, TypeOK, SoundPacks, Lines
<1> QED BY <1>5, <1>6, <1>7, <1>8, <1>9, <1>10, <1>11, <1>12, <1>13, <1>14, <1>15, <1>16 DEF Next

(***************************************************************************)
(* Whatever the service answers, every variable keeps its kind, and only   *)
(* packs that parse become part of the knowledge (load_with).              *)
(***************************************************************************)
THEOREM TypeCorrect == Spec => []TypeOK
<1>1. Init => TypeOK
  BY DEF Init, TypeOK, Steps
<1> QED BY <1>1, TypeStep, PTL DEF Spec

---------------------------------------------------------------------------
(* Versions                                                                *)

(***************************************************************************)
(* For every constraint of a file and every pack in force, "~>" means what *)
(* Terraform says it means (Term.allows).                                  *)
(***************************************************************************)
THEOREM PessimisticIsRight == Spec => []PessimisticPinsThePrefix
<1>1. ASSUME TypeOK PROVE PessimisticPinsThePrefix
  <2> SUFFICES ASSUME NEW path \in DOMAIN files, NEW p \in Providers,
                      NEW piece \in files[path].pins[p], NEW k \in 1..Len(packs),
                      piece.operator = "~>", piece.version # <<>>
               PROVE  Allows(piece, packs[k].version) <=> Pessimistic(piece.version, packs[k].version)
    BY DEF PessimisticPinsThePrefix
  <2>1. IsFile(files[path])
    BY <1>1, KnowledgeAssumption DEF TypeOK
  <2>2. piece \in Piece
    BY <2>1 DEF IsFile
  <2>3. packs \in Seq(SoundPacks)
    BY <1>1 DEF TypeOK, SoundPacks
  <2>4. packs[k] \in SoundPacks
    BY <2>3, ElementOfSeq
  <2>5. packs[k].version \in Seq(Nat)
    BY <2>4, KnowledgeAssumption DEF SoundPacks, IsPack
  <2> QED BY <2>2, <2>5, PessimisticIsTheReference
<1> QED BY <1>1, TypeCorrect, PTL

---------------------------------------------------------------------------
(* What is in force                                                        *)

\* An overlay that has had its turn is in force, or was rejected aloud.
Accounted(n) ==
    \/ \E k \in (Len(Embedded) + 1)..Len(packs) : packs[k] = overlays[n].body
    \/ <<"rejected", Subject(overlays[n].body), n>> \in warned

\* A provider that has had its turn came back with something, or without.
Met(i) ==
    \/ <<"unavailable", Asked[i], i>> \in warned
    \/ \E n \in 1..Len(overlays) : overlays[n].asked = Asked[i]

\* The shipped packs lie at the bottom, in place.
ShippedBelow ==
    /\ Len(Embedded) <= Len(packs)
    /\ \A k \in 1..Len(Embedded) : packs[k] = Embedded[k]

Inv ==
    /\ NothingToFetch => overlays = <<>>
    /\ pc = "fetch" => \A i \in 1..Len(Asked) : i < turn /\ Wanted(Asked[i]) => Met(i)
    /\ pc \in Loading => ShippedBelow
    /\ pc \in Loading /\ ~NothingToFetch =>
          \A i \in 1..Len(Asked) : Wanted(Asked[i]) => Met(i)
    /\ pc = "overlay" => \A n \in 1..Len(overlays) : n < turn => Accounted(n)
    /\ pc \in Loading \ {"overlay"} => \A n \in 1..Len(overlays) : Accounted(n)
    /\ pc \in {"judge", "done"} => \A p \in Uncovered(packs) : <<"uncovered", p, 0>> \in warned
    /\ pc = "done" => findings = Judged(packs)

LEMMA InvInit == Init => Inv
<1> SUFFICES ASSUME Init PROVE Inv
  OBVIOUS
<1>1. pc = "fetch" /\ turn = 1 /\ overlays = <<>>
  BY DEF Init
<1>2. \A i \in 1..Len(Asked) : ~(i < turn)
  BY <1>1
<1> QED BY <1>1, <1>2 DEF Inv, Loading

\* What was met, or accounted for, stays so while the two lists and the
\* warnings only grow.
LEMMA MetStays ==
    ASSUME Asked' = Asked, warned \subseteq warned', Len(overlays) \in Nat, Len(overlays') \in Nat,
           Len(overlays) <= Len(overlays'),
           \A n \in 1..Len(overlays) : overlays'[n] = overlays[n],
           NEW i, Met(i)
    PROVE  Met(i)'
<1>1. CASE <<"unavailable", Asked[i], i>> \in warned
  BY <1>1 DEF Met
<1>2. CASE \E n \in 1..Len(overlays) : overlays[n].asked = Asked[i]
  <2>1. PICK n \in 1..Len(overlays) : overlays[n].asked = Asked[i]
    BY <1>2
  <2>2. n \in 1..Len(overlays') /\ overlays'[n].asked = Asked'[i]
    BY <2>1
  <2> QED BY <2>2 DEF Met
<1> QED BY <1>1, <1>2 DEF Met

LEMMA AccountedStays ==
    ASSUME overlays' = overlays, warned \subseteq warned', Len(packs) \in Nat, Len(packs') \in Nat,
           Len(Embedded) \in Nat, Len(packs) <= Len(packs'),
           \A k \in 1..Len(packs) : packs'[k] = packs[k],
           NEW n, Accounted(n)
    PROVE  Accounted(n)'
<1>1. CASE <<"rejected", Subject(overlays[n].body), n>> \in warned
  BY <1>1 DEF Accounted
<1>2. CASE \E k \in (Len(Embedded) + 1)..Len(packs) : packs[k] = overlays[n].body
  <2>1. PICK k \in (Len(Embedded) + 1)..Len(packs) : packs[k] = overlays[n].body
    BY <1>2
  <2>2. k \in (Len(Embedded) + 1)..Len(packs') /\ k \in 1..Len(packs)
    OBVIOUS
  <2>3. packs'[k] = overlays'[n].body
    BY <2>1, <2>2
  <2> QED BY <2>2, <2>3 DEF Accounted
<1> QED BY <1>1, <1>2 DEF Accounted

LEMMA InvStep == TypeOK /\ Inv /\ [Next]_vars => Inv'
<1> SUFFICES ASSUME TypeOK, Inv, [Next]_vars PROVE Inv'
  OBVIOUS
<1>1. args' = args /\ files' = files
  BY InputsStand
<1>2. /\ Asked' = Asked
      /\ NothingToFetch' <=> NothingToFetch
      /\ \A p : Wanted(p)' <=> Wanted(p)
      /\ detect_providers' = detect_providers
  BY <1>1, InputsDecide
<1>3. \A i : Wanted(Asked[i])' <=> Wanted(Asked[i])
  BY <1>1, <1>2 DEF Wanted
<1>4. /\ turn \in Nat /\ turn >= 1 /\ Len(Asked) \in Nat /\ Len(Embedded) \in Nat
      /\ Len(overlays) \in Nat /\ Len(packs) \in Nat
      /\ overlays \in Seq([asked : Providers, body : Bodies]) /\ packs \in Seq(SoundPacks)
  <2>1. Asked \in Seq(Providers)
    BY AskedIsASequence DEF TypeOK
  <2>2. Embedded \in Seq(Shipped)
    BY KnowledgeAssumption
  <2>3. turn \in Nat /\ turn # 0
    BY DEF TypeOK
  <2> QED BY <2>1, <2>2, <2>3 DEF TypeOK, SoundPacks
<1>0. PICK t : t = turn
  OBVIOUS
<1>5. CASE LoadShipped
  <2>1. pc' = "announce" /\ packs' = Embedded /\ NothingToFetch /\ overlays' = <<>>
    BY <1>5 DEF LoadShipped, Inv
  <2>2. ShippedBelow'
    BY <1>4, <2>1 DEF ShippedBelow
  <2> QED BY <1>2, <2>1, <2>2 DEF Inv, Loading
<1>6. CASE Skip
  <2>1. /\ pc = "fetch" /\ pc' = "fetch" /\ turn' = turn + 1 /\ ~Wanted(Asked[turn])
        /\ overlays' = overlays /\ warned' = warned /\ ~NothingToFetch
    BY <1>6 DEF Skip
  <2>2. \A i \in 1..Len(Asked) : i < turn' /\ Wanted(Asked[i]) => Met(i)
    BY <1>4, <2>1 DEF Inv
  <2>3. \A i : Met(i)' <=> Met(i)
    BY <1>2, <2>1 DEF Met
  <2>4. \A i \in 1..Len(Asked') : i < turn' /\ Wanted(Asked[i])' => Met(i)'
    BY <1>2, <1>3, <2>2, <2>3
  <2> QED BY <1>2, <2>1, <2>4 DEF Inv, Loading
<1>7. CASE Unavailable
  <2>1. /\ pc = "fetch" /\ pc' = "fetch" /\ turn' = turn + 1 /\ ~NothingToFetch
        /\ overlays' = overlays /\ warned' = warned \cup {<<"unavailable", Asked[turn], turn>>}
    BY <1>7 DEF Unavailable
  <2>2. \A i \in 1..Len(Asked) : i < turn /\ Wanted(Asked[i]) => Met(i)'
    BY <1>2, <1>4, <2>1, MetStays DEF Inv
  <2>3. Met(t)'
    BY <1>0, <1>2, <2>1 DEF Met
  <2>4. \A i \in 1..Len(Asked) : i < turn' /\ Wanted(Asked[i]) => Met(i)'
    BY <1>0, <1>4, <2>1, <2>2, <2>3
  <2>5. \A i \in 1..Len(Asked') : i < turn' /\ Wanted(Asked[i])' => Met(i)'
    BY <1>2, <1>3, <2>4
  <2> QED BY <1>2, <2>1, <2>5 DEF Inv, Loading
<1>8. CASE Receive
  <2>1. /\ pc = "fetch" /\ pc' = "fetch" /\ turn' = turn + 1 /\ ~NothingToFetch
        /\ warned \subseteq warned'
    BY <1>8 DEF Receive
  <2>2. PICK body : overlays' = Append(overlays, [asked |-> Asked[turn], body |-> body])
    BY <1>8 DEF Receive
  <2>3. PICK entry : entry = [asked |-> Asked[turn], body |-> body]
    OBVIOUS
  <2>4. /\ Len(overlays') = Len(overlays) + 1
        /\ overlays'[Len(overlays) + 1] = entry
        /\ \A n \in 1..Len(overlays) : overlays'[n] = overlays[n]
    BY <1>4, <2>2, <2>3
  <2>5. \A i \in 1..Len(Asked) : i < turn /\ Wanted(Asked[i]) => Met(i)'
    BY <1>2, <1>4, <2>1, <2>4, MetStays DEF Inv
  <2>6. Met(t)'
    <3>1. overlays'[Len(overlays) + 1].asked = Asked'[t]
      BY <1>0, <1>2, <2>3, <2>4
    <3>2. Len(overlays) + 1 \in 1..Len(overlays')
      BY <1>4, <2>4
    <3> QED BY <3>1, <3>2 DEF Met
  <2>7. \A i \in 1..Len(Asked) : i < turn' /\ Wanted(Asked[i]) => Met(i)'
    BY <1>0, <1>4, <2>1, <2>5, <2>6
  <2>8. \A i \in 1..Len(Asked') : i < turn' /\ Wanted(Asked[i])' => Met(i)'
    BY <1>2, <1>3, <2>7
  <2> QED BY <1>2, <2>1, <2>8 DEF Inv, Loading
<1>9. CASE StartOverlays
  <2>1. /\ pc = "fetch" /\ pc' = "overlay" /\ turn > Len(Asked) /\ turn' = 1 /\ packs' = Embedded
        /\ overlays' = overlays /\ warned' = warned /\ ~NothingToFetch
    BY <1>9 DEF StartOverlays
  <2>2. \A i \in 1..Len(Asked) : Wanted(Asked[i]) => Met(i)
    BY <1>4, <2>1 DEF Inv
  <2>3. \A i : Met(i)' <=> Met(i)
    BY <1>2, <2>1 DEF Met
  <2>4. \A i \in 1..Len(Asked') : Wanted(Asked[i])' => Met(i)'
    BY <1>2, <1>3, <2>2, <2>3
  <2>5. ShippedBelow'
    BY <1>4, <2>1 DEF ShippedBelow
  <2>6. \A n \in 1..Len(overlays') : ~(n < turn')
    BY <2>1
  <2> QED BY <1>2, <2>1, <2>4, <2>5, <2>6 DEF Inv, Loading
<1>10. CASE Overlay
  <2>1. /\ pc = "overlay" /\ pc' = "overlay" /\ turn' = turn + 1 /\ turn <= Len(overlays)
        /\ overlays' = overlays /\ warned' = warned /\ packs' = Append(packs, Body)
    BY <1>10 DEF Overlay
  <2>2. /\ Len(packs') = Len(packs) + 1
        /\ packs'[Len(packs) + 1] = Body
        /\ \A k \in 1..Len(packs) : packs'[k] = packs[k]
    BY <1>4, <2>1
  <2>3. ShippedBelow /\ Len(Embedded) <= Len(packs)
    BY <2>1 DEF Inv, Loading, ShippedBelow
  <2>4. ShippedBelow'
    BY <1>4, <2>2, <2>3 DEF ShippedBelow
  <2>5. \A n \in 1..Len(overlays) : n < turn => Accounted(n)'
    BY <1>4, <2>1, <2>2, AccountedStays DEF Inv
  <2>6. Accounted(t)'
    <3>1. Len(packs) + 1 \in (Len(Embedded) + 1)..Len(packs')
      BY <1>4, <2>2, <2>3
    <3>2. packs'[Len(packs) + 1] = overlays'[t].body
      BY <1>0, <2>1, <2>2 DEF Body
    <3> QED BY <3>1, <3>2 DEF Accounted
  <2>7. \A n \in 1..Len(overlays') : n < turn' => Accounted(n)'
    BY <1>0, <1>4, <2>1, <2>5, <2>6
  <2>8. \A i : Met(i)' <=> Met(i)
    BY <1>2, <2>1 DEF Met
  <2>9. ~NothingToFetch => \A i \in 1..Len(Asked') : Wanted(Asked[i])' => Met(i)'
    BY <1>2, <1>3, <2>1, <2>8 DEF Inv, Loading
  <2>10. NothingToFetch => overlays = <<>>
    BY DEF Inv
  <2> QED BY <1>2, <2>1, <2>4, <2>7, <2>9, <2>10 DEF Inv, Loading
<1>11. CASE Reject
  <2>1. /\ pc = "overlay" /\ pc' = "overlay" /\ turn' = turn + 1 /\ turn <= Len(overlays)
        /\ overlays' = overlays /\ packs' = packs
        /\ warned' = warned \cup {<<"rejected", Subject(Body), turn>>}
    BY <1>11 DEF Reject
  <2>2. ShippedBelow'
    BY <2>1 DEF Inv, Loading, ShippedBelow
  <2>3. \A n \in 1..Len(overlays) : n < turn => Accounted(n)'
    BY <1>4, <2>1, AccountedStays DEF Inv
  <2>4. Accounted(t)'
    BY <1>0, <2>1 DEF Accounted, Subject, Body
  <2>5. \A n \in 1..Len(overlays') : n < turn' => Accounted(n)'
    BY <1>0, <1>4, <2>1, <2>3, <2>4
  <2>6. \A i : Met(i) => Met(i)'
    BY <1>2, <1>4, <2>1, MetStays
  <2>7. ~NothingToFetch => \A i \in 1..Len(Asked') : Wanted(Asked[i])' => Met(i)'
    BY <1>2, <1>3, <2>1, <2>6 DEF Inv, Loading
  <2>8. NothingToFetch => overlays = <<>>
    BY DEF Inv
  <2> QED BY <1>2, <2>1, <2>2, <2>5, <2>7, <2>8 DEF Inv, Loading
<1>12. CASE Break
  BY <1>2, <1>12 DEF Break, Inv, Loading
<1>13. CASE Loaded
  <2>1. /\ pc = "overlay" /\ pc' = "announce" /\ turn > Len(overlays)
        /\ overlays' = overlays /\ packs' = packs /\ warned' = warned
    BY <1>13 DEF Loaded
  <2>2. ShippedBelow'
    BY <2>1 DEF Inv, Loading, ShippedBelow
  <2>3. \A n \in 1..Len(overlays) : Accounted(n)
    BY <1>4, <2>1 DEF Inv
  <2>4. \A n : Accounted(n)' <=> Accounted(n)
    BY <2>1 DEF Accounted
  <2>5. \A i : Met(i)' <=> Met(i)
    BY <1>2, <2>1 DEF Met
  <2>6. ~NothingToFetch => \A i \in 1..Len(Asked') : Wanted(Asked[i])' => Met(i)'
    BY <1>2, <1>3, <2>1, <2>5 DEF Inv, Loading
  <2>7. NothingToFetch => overlays = <<>>
    BY DEF Inv
  <2> QED BY <1>2, <2>1, <2>2, <2>3, <2>4, <2>6, <2>7 DEF Inv, Loading
<1>14. CASE Announce
  <2>1. /\ pc = "announce" /\ pc' = "judge" /\ overlays' = overlays /\ packs' = packs
        /\ warned' = warned \cup {<<"uncovered", p, 0>> : p \in Uncovered(packs)}
    BY <1>14 DEF Announce
  <2>2. ShippedBelow'
    BY <2>1 DEF Inv, Loading, ShippedBelow
  <2>3. \A n \in 1..Len(overlays) : Accounted(n)
    BY <2>1 DEF Inv, Loading
  <2>4. \A n : Accounted(n) => Accounted(n)'
    BY <2>1 DEF Accounted
  <2>5. \A i : Met(i) => Met(i)'
    BY <1>2, <1>4, <2>1, MetStays
  <2>6. ~NothingToFetch => \A i \in 1..Len(Asked') : Wanted(Asked[i])' => Met(i)'
    BY <1>2, <1>3, <2>1, <2>5 DEF Inv, Loading
  <2>7. NothingToFetch => overlays = <<>>
    BY DEF Inv
  <2>8. \A p \in Uncovered(packs)' : <<"uncovered", p, 0>> \in warned'
    <3>1. Uncovered(packs)' = Uncovered(packs)
      BY <1>2, <2>1 DEF Uncovered
    <3> QED BY <3>1, <2>1
  <2> QED BY <1>2, <2>1, <2>2, <2>3, <2>4, <2>6, <2>7, <2>8 DEF Inv, Loading
<1>15. CASE Judge
  <2>1. /\ pc = "judge" /\ pc' = "done" /\ overlays' = overlays /\ packs' = packs
        /\ warned' = warned /\ findings' = Judged(packs)
    BY <1>15 DEF Judge
  <2>2. ShippedBelow'
    BY <2>1 DEF Inv, Loading, ShippedBelow
  <2>3. \A n \in 1..Len(overlays) : Accounted(n)
    BY <2>1 DEF Inv, Loading
  <2>4. \A n : Accounted(n) => Accounted(n)'
    BY <2>1 DEF Accounted
  <2>5. \A i : Met(i)' <=> Met(i)
    BY <1>2, <2>1 DEF Met
  <2>6. ~NothingToFetch => \A i \in 1..Len(Asked') : Wanted(Asked[i])' => Met(i)'
    BY <1>2, <1>3, <2>1, <2>5 DEF Inv, Loading
  <2>7. NothingToFetch => overlays = <<>>
    BY DEF Inv
  <2>8. \A p \in Uncovered(packs)' : <<"uncovered", p, 0>> \in warned'
    <3>1. Uncovered(packs)' = Uncovered(packs)
      BY <1>2, <2>1 DEF Uncovered
    <3> QED BY <3>1, <2>1 DEF Inv
  <2>9. Judged(packs)' = Judged(packs)
    BY <1>1, <2>1 DEF Judged, Raised, Contradicts, Pin
  <2> QED BY <1>2, <2>1, <2>2, <2>3, <2>4, <2>6, <2>7, <2>8, <2>9 DEF Inv, Loading
<1>16. CASE UNCHANGED vars
  <2>1. /\ pc' = pc /\ turn' = turn /\ overlays' = overlays /\ packs' = packs /\ warned' = warned
        /\ findings' = findings
    BY <1>16 DEF vars
  <2>2. /\ \A n : Accounted(n)' <=> Accounted(n)
        /\ \A i : Met(i)' <=> Met(i)
        /\ ShippedBelow' <=> ShippedBelow
        /\ Uncovered(packs)' = Uncovered(packs)
        /\ Judged(packs)' = Judged(packs)
    <3>1. Judged(packs)' = Judged(packs)
      BY <1>1, <2>1 DEF Judged, Raised, Contradicts, Pin
    <3>2. Uncovered(packs)' = Uncovered(packs)
      BY <1>2, <2>1 DEF Uncovered
    <3> QED BY <1>2, <2>1, <3>1, <3>2 DEF Accounted, Met, ShippedBelow
  <2>3. \A i : (Wanted(Asked[i])' => Met(i)') <=> (Wanted(Asked[i]) => Met(i))
    BY <1>3, <2>2
  <2> QED BY <1>2, <1>3, <2>1, <2>2, <2>3 DEF Inv, Loading
<1> QED BY <1>5, <1>6, <1>7, <1>8, <1>9, <1>10, <1>11, <1>12, <1>13, <1>14, <1>15, <1>16 DEF Next

(***************************************************************************)
(* At every step the shipped packs lie below the licensed ones, and each   *)
(* provider the loops have passed is accounted for (load_knowledge_base).  *)
(***************************************************************************)
THEOREM Invariance == Spec => []Inv
BY InvInit, InvStep, TypeCorrect, PTL DEF Spec

---------------------------------------------------------------------------
(* Claims                                                                  *)

\* A claim is made from the entry of the pack that resolves its type.
LEMMA ClaimsComeFromAnEntry ==
    ASSUME NEW base, NEW f \in Raised(base)
    PROVE  \E path \in DOMAIN files : \E type \in DOMAIN files[path].blocks :
               \E k \in 1..Len(base) :
                  /\ Resolves(base, k, type)
                  /\ f \in ClaimsAbout(base[k].resources[type], files[path].blocks[type], path, type)
                  /\ f.file = path /\ f.type = type
<1>1. PICK path \in DOMAIN files : \E type \in DOMAIN files[path].blocks :
          \E k \in {j \in 1..Len(base) : Resolves(base, j, type)} :
             f \in ClaimsAbout(base[k].resources[type], files[path].blocks[type], path, type)
  BY DEF Raised
<1>2. PICK type \in DOMAIN files[path].blocks :
          \E k \in {j \in 1..Len(base) : Resolves(base, j, type)} :
             f \in ClaimsAbout(base[k].resources[type], files[path].blocks[type], path, type)
  BY <1>1
<1>3. PICK k \in {j \in 1..Len(base) : Resolves(base, j, type)} :
          f \in ClaimsAbout(base[k].resources[type], files[path].blocks[type], path, type)
  BY <1>2
<1>4. \E rule, attribute : f = Claim(rule, path, type, attribute)
  BY <1>3 DEF ClaimsAbout
<1>5. f.file = path /\ f.type = type
  BY <1>4 DEF Claim
<1> QED BY <1>3, <1>5

LEMMA EntriesMakeClaims ==
    ASSUME NEW base, NEW path \in DOMAIN files, NEW type \in DOMAIN files[path].blocks,
           NEW k \in 1..Len(base), Resolves(base, k, type),
           NEW f \in ClaimsAbout(base[k].resources[type], files[path].blocks[type], path, type)
    PROVE  f \in Raised(base)
<1>1. k \in {j \in 1..Len(base) : Resolves(base, j, type)}
  OBVIOUS
<1> QED BY <1>1 DEF Raised

LEMMA LeastOf ==
    ASSUME NEW S \in SUBSET Nat, S # {}
    PROVE  \E n \in S : \A m \in S : n <= m
<1> DEFINE R == {p \in Nat \X Nat : p[1] < p[2]}
<1>1. IsWellFoundedOn(R, Nat)
  BY NatLessThanWellFounded DEF OpToRel
<1> HIDE DEF R
<1>2. PICK n \in S : \A m \in S : ~(<<m, n>> \in R)
  BY <1>1, WFMin
<1>3. \A m \in S : ~(m < n)
  BY <1>2 DEF R
<1> QED BY <1>3

\* Where a provider has a pack, the last of them is recorded.
LEMMA SomeIsRecorded ==
    ASSUME NEW base, Len(base) \in Nat, NEW provider, NEW i \in 1..Len(base),
           base[i].provider = provider
    PROVE  \E m : Records(base, m, provider)
<1> DEFINE Above(j) == Len(base) - j
           S == {n \in Nat : \E j \in 1..Len(base) : base[j].provider = provider /\ n = Above(j)}
<1>1. S \in SUBSET Nat /\ Above(i) \in S
  OBVIOUS
<1>2. S # {}
  BY <1>1
<1>3. PICK n \in S : \A m \in S : n <= m
  BY <1>1, <1>2, LeastOf
<1>4. PICK j \in 1..Len(base) : base[j].provider = provider /\ n = Above(j)
  BY <1>3
<1>5. ASSUME NEW m \in (j + 1)..Len(base), base[m].provider = provider PROVE FALSE
  <2>1. m \in 1..Len(base) /\ Above(m) \in Nat /\ Above(m) < n
    BY <1>4
  <2>2. Above(m) \in S
    BY <1>5, <2>1
  <2>3. n <= Above(m) /\ n \in Nat
    BY <1>3, <2>2
  <2> HIDE DEF Above
  <2> QED BY <2>1, <2>3
<1>6. Records(base, j, provider)
  BY <1>4, <1>5 DEF Records
<1> QED BY <1>6

LEMMA FilesNameTypes ==
    ASSUME files \in Repositories, NEW path \in DOMAIN files
    PROVE  DOMAIN files[path].blocks \subseteq Types
BY KnowledgeAssumption DEF IsFile

(***************************************************************************)
(* For any packs and any pins, a claim is kept exactly if its file uses    *)
(* the release it was made from, but for packs of another provider than    *)
(* the type's and for packs above it that leave the type out               *)
(* (drop_findings_the_pinned_provider_contradicts, Coverage.version_of).   *)
(***************************************************************************)
THEOREM PinsJudgeTheRightRelease == Spec => []JudgedByThePinnedRelease
<1>1. ASSUME TypeOK, Inv PROVE JudgedByThePinnedRelease
  <2> SUFFICES ASSUME pc = "done", NEW f \in Raised(packs),
                      NEW k \in 1..Len(packs), Resolves(packs, k, f.type),
                      packs[k].provider = ProviderOf[f.type],
                      \A j \in (k + 1)..Len(packs) :
                         packs[j].provider = ProviderOf[f.type] /\ ~Describes(packs[j], f.type)
                            => (Fits(f, packs[j]) <=> Fits(f, packs[k]))
               PROVE  f \in findings <=> Fits(f, packs[k])
    BY DEF JudgedByThePinnedRelease
  <2>1. findings = Judged(packs)
    BY <1>1 DEF Inv
  <2>2. Len(packs) \in Nat
    BY <1>1 DEF TypeOK
  <2>3. \A j \in (k + 1)..Len(packs) : ~Describes(packs[j], f.type)
    BY DEF Resolves
  <2>4. PICK m : Records(packs, m, ProviderOf[f.type])
    BY <2>2, SomeIsRecorded
  <2>5. ASSUME NEW j, Records(packs, j, ProviderOf[f.type])
        PROVE  Fits(f, packs[j]) <=> Fits(f, packs[k])
    <3>1. j \in 1..Len(packs) /\ packs[j].provider = ProviderOf[f.type]
      BY <2>5 DEF Records
    <3>2. ~(j < k)
      <4> SUFFICES ASSUME j < k PROVE FALSE
        OBVIOUS
      <4>1. k \in (j + 1)..Len(packs)
        BY <3>1
      <4> QED BY <2>5, <4>1 DEF Records
    <3>3. CASE j = k
      BY <3>3
    <3>4. CASE j > k
      <4>1. j \in (k + 1)..Len(packs)
        BY <3>1, <3>4
      <4> QED BY <2>3, <3>1, <4>1
    <3> QED BY <3>1, <3>2, <3>3, <3>4
  <2>6. Contradicts(packs, f) <=> \E j : Records(packs, j, ProviderOf[f.type]) /\ ~Fits(f, packs[j])
    BY DEF Contradicts, Fits, Records
  <2>7. Contradicts(packs, f) <=> ~Fits(f, packs[k])
    BY <2>4, <2>5, <2>6
  <2> QED BY <2>1, <2>7 DEF Judged
<1> QED BY <1>1, TypeCorrect, Invariance, PTL

(***************************************************************************)
(* A license takes away what the shipped packs would report in two cases   *)
(* only: a licensed pack describes the type itself, or is of the type's    *)
(* provider and of a release the file does not use (load_with lays packs   *)
(* over one another).                                                      *)
(***************************************************************************)
THEOREM LicensesOnlyAdd == Spec => []FreeFindingsStay
<1>1. ASSUME TypeOK, Inv PROVE FreeFindingsStay
  <2> SUFFICES ASSUME pc = "done", NEW f \in Judged(Embedded),
                      ~ \E k \in (Len(Embedded) + 1)..Len(packs) : Describes(packs[k], f.type),
                      ~ \E k \in (Len(Embedded) + 1)..Len(packs) :
                            /\ packs[k].provider = ProviderOf[f.type]
                            /\ f.rule \in SchemaDerived
                            /\ ~allows(Pin(f), packs[k].version)
               PROVE  f \in findings
    BY DEF FreeFindingsStay, Describes
  <2>1. findings = Judged(packs) /\ ShippedBelow
    BY <1>1 DEF Inv, Loading
  <2>2. Len(packs) \in Nat /\ Len(Embedded) \in Nat
    BY <1>1, KnowledgeAssumption DEF TypeOK
  <2>3. f \in Raised(Embedded) /\ ~Contradicts(Embedded, f)
    BY DEF Judged
  <2>a. PICK path \in DOMAIN files : \E type \in DOMAIN files[path].blocks : \E k \in 1..Len(Embedded) :
            /\ Resolves(Embedded, k, type)
            /\ f \in ClaimsAbout(Embedded[k].resources[type], files[path].blocks[type], path, type)
            /\ f.file = path /\ f.type = type
    BY <2>3, ClaimsComeFromAnEntry
  <2>b. PICK type \in DOMAIN files[path].blocks : \E k \in 1..Len(Embedded) :
            /\ Resolves(Embedded, k, type)
            /\ f \in ClaimsAbout(Embedded[k].resources[type], files[path].blocks[type], path, type)
            /\ f.file = path /\ f.type = type
    BY <2>a
  <2>4. PICK k \in 1..Len(Embedded) :
            /\ Resolves(Embedded, k, type)
            /\ f \in ClaimsAbout(Embedded[k].resources[type], files[path].blocks[type], path, type)
            /\ f.file = path /\ f.type = type
    BY <2>b
  <2>5. k \in 1..Len(packs) /\ packs[k] = Embedded[k]
    BY <2>1, <2>2 DEF ShippedBelow
  <2>6. Resolves(packs, k, type)
    <3>1. Describes(packs[k], type)
      BY <2>4, <2>5 DEF Resolves
    <3>2. ASSUME NEW j \in (k + 1)..Len(packs) PROVE ~Describes(packs[j], type)
      <4>1. CASE j <= Len(Embedded)
        <5>1. j \in (k + 1)..Len(Embedded) /\ packs[j] = Embedded[j]
          BY <2>1, <2>2, <4>1 DEF ShippedBelow
        <5> QED BY <2>4, <5>1 DEF Resolves
      <4>2. CASE ~(j <= Len(Embedded))
        <5>1. j \in (Len(Embedded) + 1)..Len(packs)
          BY <2>2, <4>2
        <5> QED BY <2>4, <5>1
      <4> QED BY <4>1, <4>2
    <3> QED BY <2>5, <3>1, <3>2 DEF Resolves
  <2>7. f \in Raised(packs)
    BY <2>4, <2>5, <2>6, EntriesMakeClaims
  <2>8. ~Contradicts(packs, f)
    <3> SUFFICES ASSUME f.rule \in SchemaDerived, NEW j \in 1..Len(packs),
                        Records(packs, j, ProviderOf[f.type]),
                        packs[j].version # <<>>, ~allows(Pin(f), packs[j].version)
                 PROVE  FALSE
      BY DEF Contradicts
    <3>1. CASE j <= Len(Embedded)
      <4>1. j \in 1..Len(Embedded) /\ packs[j] = Embedded[j]
        BY <2>1, <2>2, <3>1 DEF ShippedBelow
      <4>2. \A i \in (j + 1)..Len(Embedded) : i \in (j + 1)..Len(packs) /\ packs[i] = Embedded[i]
        BY <2>1, <2>2, <4>1 DEF ShippedBelow
      <4>3. Records(Embedded, j, ProviderOf[f.type])
        BY <4>1, <4>2 DEF Records
      <4> QED BY <2>3, <4>1, <4>3 DEF Contradicts
    <3>2. CASE ~(j <= Len(Embedded))
      <4>1. j \in (Len(Embedded) + 1)..Len(packs)
        BY <2>2, <3>2
      <4>2. packs[j].provider = ProviderOf[f.type]
        BY DEF Records
      <4> QED BY <4>1, <4>2
    <3> QED BY <3>1, <3>2
  <2> QED BY <2>1, <2>7, <2>8 DEF Judged
<1> QED BY <1>1, TypeCorrect, Invariance, PTL

(***************************************************************************)
(* For any answers: a provider asked for has a pack that came or a line    *)
(* that says none did, a pack that came is in force or has a rejection     *)
(* line of its own, and a provider that the search finds in the files is   *)
(* covered, declares nothing, or is named (load_knowledge_base,            *)
(* warn_uncovered_providers).                                              *)
(***************************************************************************)
THEOREM LossesAreAnnounced == Spec => []LossIsAnnounced
<1>1. ASSUME Inv PROVE LossIsAnnounced
  <2> SUFFICES ASSUME pc = "done" PROVE LossIsAnnounced
    BY DEF LossIsAnnounced
  <2>1. /\ ~NothingToFetch => \A i \in 1..Len(Asked) : Wanted(Asked[i]) => Met(i)
        /\ \A n \in 1..Len(overlays) : Accounted(n)
        /\ \A p \in Uncovered(packs) : <<"uncovered", p, 0>> \in warned
    BY <1>1 DEF Inv, Loading
  <2>2. ASSUME NEW p \in detect_providers
        PROVE  \/ p \in Schemaless
               \/ <<"uncovered", p, 0>> \in warned
               \/ \E k \in 1..Len(packs) : packs[k].provider = p
    <3>1. p \in Uncovered(packs) \/ p \in covered(packs) \/ p \in Schemaless
      BY DEF Uncovered
    <3> QED BY <2>1, <3>1 DEF covered
  <2> QED BY <2>1, <2>2 DEF LossIsAnnounced, Met, Accounted
<1> QED BY <1>1, Invariance, PTL
=============================================================================
