---------------------------- MODULE PublishProofs ----------------------------
(***************************************************************************)
(* Theorems about Publish: types and anchors for any number of pipelines;  *)
(* as long as one runs at a time, no duplicate of a suggestion and no      *)
(* second summary within the pages the clients read.                       *)
(***************************************************************************)
EXTENDS Publish, SequenceTheorems, FiniteSetTheorems, TLAPS

\* What a client reads of a list is so many entries.
LEMMA ReachNat == Reach \in Nat /\ SummaryReach \in Nat
  <1>1. \A m, n \in Nat : m * n \in Nat
    OBVIOUS
  <1> QED
    BY <1>1, PublishAssumption DEF Reach, SummaryReach

\* A comment a job posts for a fix it offers is one of the host's comments.
LEMMA CommentType ==
    ASSUME TypeOK, NEW j \in Jobs, NEW i \in Offered(rev[j]), NEW id \in Nat
    PROVE  Comment(j, i, id) \in
               [id : Nat, marker : Markers, from : 1..Pushes, named : BOOLEAN, at : 1..Pushes]
  <1> USE DEF TypeOK
  <1>1. rev[j] \in 1..Pushes /\ Anchor(j) \in 1..Pushes
    BY DEF Anchor
  <1>2. named[j] \in BOOLEAN
    OBVIOUS
  <1>3. Fixes[rev[j]][i].marker \in Markers
    BY <1>1 DEF Markers, Offered
  <1> QED
    BY <1>1, <1>2, <1>3 DEF Comment

\* What is offered are indexes of fixes, so natural numbers.
LEMMA OfferedNat ==
    ASSUME NEW r \in 1..Pushes PROVE Offered(r) \subseteq Nat
  BY PublishAssumption DEF Offered

\* There are finitely many, so each has a rank and the batch a size.
LEMMA RankType ==
    ASSUME NEW r \in 1..Pushes, NEW S, S \subseteq Offered(r), NEW i \in S
    PROVE  /\ Cardinality(S) \in Nat /\ Rank(i, S) \in Nat
           /\ 1 <= Rank(i, S) /\ Rank(i, S) <= Cardinality(S)
  <1>1. S \subseteq 1..Cap
    BY PublishAssumption DEF Offered
  <1>2. IsFiniteSet(S)
    <2>1. IsFiniteSet(1..Cap)
      BY PublishAssumption, FS_Interval
    <2> QED
      BY <1>1, <2>1, FS_Subset
  <1> DEFINE T == {k \in S : k <= i}
  <1>3. T \subseteq S /\ i \in T
    BY <1>1
  <1>4. IsFiniteSet(T) /\ Cardinality(T) <= Cardinality(S)
    BY <1>2, <1>3, FS_Subset
  <1>5. Cardinality(T) # 0
    BY <1>3, <1>4, FS_EmptySet
  <1>6. Cardinality(S) \in Nat /\ Cardinality(T) \in Nat
    BY <1>2, <1>4, FS_CardinalityType
  <1> QED
    BY <1>4, <1>5, <1>6 DEF Rank

LEMMA SizeType ==
    ASSUME NEW r \in 1..Pushes, NEW S, S \subseteq Offered(r)
    PROVE  Cardinality(S) \in Nat
  <1>1. S \subseteq 1..Cap
    BY PublishAssumption DEF Offered
  <1>2. IsFiniteSet(1..Cap)
    BY PublishAssumption, FS_Interval
  <1> QED
    BY <1>1, <1>2, FS_Subset, FS_CardinalityType

\* A job posts what it offers: without it a suggestion could be of no fix.
OffersOnly == \A j \in Jobs : pc[j] = "post" => batch[j] \subseteq Offered(rev[j])

\* Every step keeps to the offered fixes.
LEMMA OffersStep ==
    ASSUME TypeOK, OffersOnly, [Next]_vars PROVE OffersOnly'
  <1> USE DEF Goto, End, forge, local, TypeOK, OffersOnly, Offered
  <1>1. CASE Push \/ Chat \/ UNCHANGED vars
    BY <1>1 DEF Push, Chat, vars
  <1>2. ASSUME NEW j \in Jobs, Step(j) \/ Kill(j) PROVE OffersOnly'
    <2>1. CASE ReadExisting(j)
      BY <2>1 DEF ReadExisting, Payload
    <2>2. CASE PostDiscussion(j)
      BY <2>2 DEF PostDiscussion
    <2>3. CASE Start(j) \/ FindComment(j) \/ WriteComment(j) \/ PostNote(j)
      BY <2>3 DEF Start, FindComment, WriteComment, PostNote
    <2>4. CASE CheckHead(j) \/ OfferNothing(j) \/ ReadLines(j) \/ RequestFails(j) \/ Kill(j)
      BY <2>4 DEF CheckHead, OfferNothing, ReadLines, RequestFails, Kill
    <2>5. CASE PostReview(j) \/ DiscussionAnswerLost(j)
      BY <2>5 DEF PostReview, DiscussionAnswerLost
    <2> QED
      BY <1>2, <2>1, <2>2, <2>3, <2>4, <2>5 DEF Step
  <1> QED
    BY <1>1, <1>2 DEF Next

\* A thread that gains a comment is one longer.
LEMMA ThreadGrows ==
    ASSUME NEW t \in Seq(0..Pushes), NEW r \in 0..Pushes
    PROVE  Append(t, r) \in Seq(0..Pushes) /\ Len(Append(t, r)) = Len(t) + 1
  BY AppendProperties

\* Replacing a comment in it leaves its length alone.
LEMMA ThreadReplaced ==
    ASSUME NEW t \in Seq(0..Pushes), NEW r \in 0..Pushes, NEW i \in 1..Len(t)
    PROVE  [t EXCEPT ![i] = r] \in Seq(0..Pushes) /\ Len([t EXCEPT ![i] = r]) = Len(t)
  BY ExceptSeq

\* A job that has ended holds initial values.
LEMMA EndType ==
    ASSUME TypeOK, NEW j \in Jobs, End(j), Len(thread) <= Len(thread')
    PROVE  /\ pc' \in [Jobs -> {"idle", "find", "write", "refs", "lines", "existing", "post",
                                "note"}]
           /\ named' \in [Jobs -> BOOLEAN]
           /\ rev' \in [Jobs -> 1..Pushes] /\ at' \in [Jobs -> 1..Pushes]
           /\ found' \in [Jobs -> Nat] /\ \A k \in Jobs : found'[k] <= Len(thread')
           /\ lines' \in [Jobs -> {{}} \cup {InDiff(r) : r \in 1..Pushes}]
           /\ batch' \in [Jobs -> SUBSET Nat]
  <1> USE DEF TypeOK, End, Goto
  <1>1. Len(thread) \in Nat /\ Len(thread') >= Len(thread) /\ 1 \in 1..Pushes
    BY PublishAssumption
  <1>2. lines' \in [Jobs -> {{}} \cup {InDiff(r) : r \in 1..Pushes}]
    OBVIOUS
  <1>3. found' \in [Jobs -> Nat] /\ \A k \in Jobs : found'[k] = found[k] \/ found'[k] = 0
    OBVIOUS
  <1>4. \A k \in Jobs : found'[k] <= Len(thread')
    <2>1. \A k \in Jobs : found[k] <= Len(thread) /\ found[k] \in Nat
      OBVIOUS
    <2>2. Len(thread') \in Int
      BY <1>1
    <2> QED
      BY <1>1, <1>3, <2>1, <2>2
  <1> QED
    BY <1>1, <1>2, <1>3, <1>4

\* Every step keeps the types.
LEMMA TypeStep ==
    ASSUME TypeOK, OffersOnly, [Next]_vars PROVE TypeOK'
  <1> USE DEF Goto, forge, local, TypeOK
  <1>0. /\ 0 \in 0..Pushes /\ \A r \in 1..Pushes : r \in 0..Pushes
        /\ 1 \in 1..Pushes /\ Len(thread) \in Nat
    BY PublishAssumption
  <1>1. CASE Push
    <2>1. head' \in 1..Pushes
      BY <1>1, PublishAssumption DEF Push
    <2> QED
      BY <1>1, <2>1 DEF Push
  <1>2. CASE Chat
    <2>1. thread' \in Seq(0..Pushes) /\ Len(thread) <= Len(thread')
      <3>1. CASE thread' = Append(thread, 0)
        BY <1>0, <3>1, ThreadGrows
      <3>2. CASE thread' = thread
        BY <1>0, <3>2
      <3> QED
        BY <1>2, <3>1, <3>2 DEF Chat
    <2>2. \A j \in Jobs : found[j] <= Len(thread')
      BY <1>0, <2>1
    <2>3. ids' \in Nat /\ chats' \in 0..Chats
      BY <1>2, PublishAssumption DEF Chat
    <2> QED
      BY <1>2, <2>1, <2>2, <2>3 DEF Chat
  <1>3. ASSUME NEW j \in Jobs, Step(j) \/ Kill(j) PROVE TypeOK'
    <2>1. CASE Start(j)
      <3>1. named' \in [Jobs -> BOOLEAN]
        BY <2>1, PublishAssumption DEF Start
      <3> QED
        BY <2>1, <3>1 DEF Start
    <2>2. CASE FindComment(j)
      <3>1. \A i \in Marked : i \in Nat /\ i <= Len(thread)
        BY <1>0 DEF Marked
      <3>2. PICK i \in Nat : i <= Len(thread) /\ found' = [found EXCEPT ![j] = i]
        BY <1>0, <2>2, <3>1 DEF FindComment
      <3> QED
        BY <2>2, <3>2 DEF FindComment
    <2>3. CASE WriteComment(j)
      <3>1. rev[j] \in 0..Pushes /\ (found[j] # 0 => found[j] \in 1..Len(thread))
        BY <1>0
      <3>2. thread' \in Seq(0..Pushes) /\ Len(thread) <= Len(thread')
        <4>1. CASE thread' = thread
          BY <1>0, <4>1
        <4>2. CASE thread' = Append(thread, rev[j])
          BY <1>0, <3>1, <4>2, ThreadGrows
        <4>3. CASE found[j] # 0 /\ thread' = [thread EXCEPT ![found[j]] = rev[j]]
          BY <1>0, <3>1, <4>3, ThreadReplaced
        <4> QED
          BY <2>3, <4>1, <4>2, <4>3 DEF WriteComment
      <3>3. \A k \in Jobs : found'[k] <= Len(thread')
        BY <1>0, <2>3, <3>2 DEF WriteComment
      <3> QED
        BY <2>3, <3>2, <3>3 DEF WriteComment
    <2>4. CASE CheckHead(j)
      BY <2>4 DEF CheckHead
    <2>5. CASE OfferNothing(j) \/ Kill(j) \/ RequestFails(j)
      <3>1. CASE End(j) /\ UNCHANGED forge
        <4>1. Len(thread) <= Len(thread')
          BY <1>0, <3>1
        <4> QED
          BY <3>1, <4>1, EndType
      <3>2. CASE Goto(j, "refs") /\ UNCHANGED <<forge, local>>
        BY <3>2
      <3> QED
        BY <2>5, <3>1, <3>2 DEF OfferNothing, Kill, RequestFails
    <2>6. CASE ReadLines(j)
      BY <2>6 DEF ReadLines
    <2>7. CASE ReadExisting(j)
      <3>1. Payload(rev[j], lines[j], Existing) \subseteq Nat
        BY OfferedNat DEF Payload
      <3> QED
        BY <2>7, <3>1 DEF ReadExisting
    <2>8. CASE PostReview(j)
      <3> DEFINE Id(i) == ids + Rank(i, batch[j])
      <3>1. batch[j] \subseteq Offered(rev[j]) /\ rev[j] \in 1..Pushes
        BY <2>8 DEF PostReview, OffersOnly
      <3>2. ASSUME NEW i \in batch[j] PROVE Id(i) \in Nat /\ i \in Offered(rev[j])
        <4>1. Rank(i, batch[j]) \in Nat
          BY <3>1, RankType
        <4> QED
          BY <3>1, <4>1
      <3> HIDE DEF Id
      <3>3. \A i \in batch[j] : Comment(j, i, Id(i)) \in
                [id : Nat, marker : Markers, from : 1..Pushes, named : BOOLEAN, at : 1..Pushes]
        BY <3>2, CommentType
      <3>4. inline' = inline \cup {Comment(j, i, Id(i)) : i \in batch[j]}
        BY <2>8 DEF PostReview, Id
      <3>5. ids' \in Nat
        <4>1. Cardinality(batch[j]) \in Nat
          BY <3>1, SizeType
        <4> QED
          BY <2>8, <4>1 DEF PostReview
      <3>6. inline' \subseteq [id : Nat, marker : Markers, from : 1..Pushes,
                               named : BOOLEAN, at : 1..Pushes]
        BY <3>3, <3>4, ZenonT(40)
      <3> QED
        <4>1. End(j) /\ UNCHANGED <<host, head, thread, chats>> /\ Len(thread) <= Len(thread')
          BY <1>0, <2>8 DEF PostReview
        <4> QED
          BY <3>5, <3>6, <4>1, EndType
    <2>9. CASE PostDiscussion(j) \/ DiscussionAnswerLost(j)
      <3>1. PICK i \in batch[j] : Discuss(j, i)
        BY <2>9 DEF PostDiscussion, DiscussionAnswerLost
      <3>2. i \in Offered(rev[j]) /\ Len(thread) + 1 \in Nat
        BY <1>0, <2>9 DEF PostDiscussion, DiscussionAnswerLost, OffersOnly
      <3>3. Comment(j, i, Len(thread) + 1) \in
                [id : Nat, marker : Markers, from : 1..Pushes, named : BOOLEAN, at : 1..Pushes]
        BY <3>2, CommentType
      <3>4. inline' \subseteq [id : Nat, marker : Markers, from : 1..Pushes,
                               named : BOOLEAN, at : 1..Pushes]
        BY <3>1, <3>3 DEF Discuss
      <3>5. thread' \in Seq(0..Pushes) /\ Len(thread) <= Len(thread')
        BY <1>0, <3>1, ThreadGrows DEF Discuss
      <3>6. \A k \in Jobs : found[k] <= Len(thread')
        BY <1>0, <3>5
      <3>7. CASE PostDiscussion(j)
        <4>1. /\ pc' \in [Jobs -> {"idle", "find", "write", "refs", "lines", "existing", "post",
                                   "note"}]
              /\ batch' \in [Jobs -> SUBSET Nat]
          BY <3>7 DEF PostDiscussion
        <4>2. UNCHANGED <<host, head, ids, chats, rev, named, found, at, lines>>
          BY <3>7 DEF PostDiscussion
        <4> QED
          BY <3>4, <3>5, <3>6, <4>1, <4>2
      <3>8. CASE DiscussionAnswerLost(j)
        <4>1. End(j) /\ UNCHANGED <<host, head, ids, chats>>
          BY <3>8 DEF DiscussionAnswerLost
        <4> QED
          BY <3>4, <3>5, <4>1, EndType
      <3> QED
        BY <2>9, <3>7, <3>8
    <2>10. CASE PostNote(j)
      <3>1. thread' \in Seq(0..Pushes) /\ Len(thread) <= Len(thread')
        <4>1. CASE thread' = thread
          BY <1>0, <4>1
        <4>2. CASE thread' = Append(thread, 0)
          BY <1>0, <4>2, ThreadGrows
        <4> QED
          BY <2>10, <4>1, <4>2 DEF PostNote
      <3> QED
        BY <2>10, <3>1, EndType DEF PostNote
    <2> QED
      BY <1>3, <2>1, <2>2, <2>3, <2>4, <2>5, <2>6, <2>7, <2>8, <2>9, <2>10 DEF Step
  <1>4. CASE UNCHANGED vars
    BY <1>4 DEF vars
  <1> QED
    BY <1>1, <1>2, <1>3, <1>4 DEF Next

\* The types, and what a job is about to post.
LEMMA Typed == Spec => [](TypeOK /\ OffersOnly)
  <1>1. ASSUME Init PROVE TypeOK /\ OffersOnly
    <2>1. thread \in Seq(0..Pushes) /\ Len(thread) = 0
      BY <1>1 DEF Init
    <2>2. named \in [Jobs -> BOOLEAN]
      BY <1>1 DEF Init
    <2> QED
      BY <1>1, <2>1, <2>2, PublishAssumption DEF Init, TypeOK, OffersOnly
  <1> QED
    BY <1>1, OffersStep, TypeStep, PTL DEF Spec

\* The thread, the suggestions and what the jobs hold have their types (TypeOK).
THEOREM TypeCorrect == Spec => []TypeOK
  BY Typed, PTL

-----------------------------------------------------------------------------
\* Between the comparison of the heads and the last post, GitLab's anchor is
\* the revision the job scanned.
AnchorKept ==
    \A j \in Jobs :
        pc[j] \in {"lines", "existing", "post"} /\ host = "gitlab" /\ named[j] => at[j] = rev[j]

(***************************************************************************)
(* However many pipelines and pushes overlap, a scan that knows what it    *)
(* read anchors its suggestions there (AnchoredWhereScanned).              *)
(***************************************************************************)
THEOREM AnchorsHold == Spec => []AnchoredWhereScanned
  <1>1. Init => AnchorKept /\ AnchoredWhereScanned
    BY DEF Init, AnchorKept, AnchoredWhereScanned
  <1>2. ASSUME TypeOK, AnchorKept, AnchoredWhereScanned, [Next]_vars
        PROVE  AnchorKept' /\ AnchoredWhereScanned'
    <2>0. /\ DOMAIN pc = Jobs /\ DOMAIN rev = Jobs /\ DOMAIN at = Jobs /\ DOMAIN named = Jobs
          /\ named \in [Jobs -> BOOLEAN] /\ AnchorKept /\ AnchoredWhereScanned
      BY <1>2 DEF TypeOK
    <2> USE <2>0 DEF Goto, End, forge, local, AnchorKept, AnchoredWhereScanned
    <2>1. CASE Push \/ Chat \/ UNCHANGED vars
      BY <2>1 DEF Push, Chat, vars
    <2>2. ASSUME NEW j \in Jobs, Step(j) \/ Kill(j)
          PROVE  AnchorKept' /\ AnchoredWhereScanned'
      <3>1. CASE Start(j) \/ FindComment(j) \/ WriteComment(j) \/ PostNote(j)
        BY <3>1 DEF Start, FindComment, WriteComment, PostNote
      <3>2. CASE CheckHead(j)
        BY <3>2 DEF CheckHead, HeadIsScanned
      <3>3. CASE OfferNothing(j) \/ Kill(j) \/ RequestFails(j)
        BY <3>3 DEF OfferNothing, Kill, RequestFails
      <3>4. CASE ReadLines(j) \/ ReadExisting(j)
        BY <3>4 DEF ReadLines, ReadExisting
      <3>5. ASSUME NEW i, NEW id, pc[j] = "post", Comment(j, i, id).named
            PROVE  Comment(j, i, id).at = Comment(j, i, id).from
        <4>1. host \in {"github", "gitlab"}
          BY <1>2, PublishAssumption DEF TypeOK
        <4> QED
          BY <3>5, <4>1 DEF Comment, Anchor
      <3>6. CASE PostReview(j)
        BY <3>5, <3>6 DEF PostReview
      <3>7. CASE PostDiscussion(j) \/ DiscussionAnswerLost(j)
        <4>1. AnchoredWhereScanned'
          BY <3>5, <3>7 DEF PostDiscussion, DiscussionAnswerLost, Discuss
        <4>2. AnchorKept'
          BY <3>7 DEF PostDiscussion, DiscussionAnswerLost
        <4> QED
          BY <4>1, <4>2
      <3> QED
        BY <2>2, <3>1, <3>2, <3>3, <3>4, <3>6, <3>7 DEF Step
    <2> QED
      BY <1>2, <2>1, <2>2 DEF Next
  <1> QED
    BY <1>1, <1>2, TypeCorrect, PTL DEF Spec

-----------------------------------------------------------------------------
\* A comment that is past a client's reach stays there: lists only grow.
Past(i, n, reach) == ~Listed(i, n, reach)

\* A suggestion is numbered within the list it is in.
Numbered == \A s \in inline : s.id <= Comments

(***************************************************************************)
(* What a job has yet to post is on the request only past the client's     *)
(* reach, and no two of it are alike.                                      *)
(***************************************************************************)
BatchIsNew ==
    \A j \in Jobs : pc[j] = "post" =>
        /\ \A i \in batch[j], s \in inline :
               s.marker = Fixes[rev[j]][i].marker => Past(s.id, Comments, Reach)
        /\ \A i, k \in batch[j] : Fixes[rev[j]][i].marker = Fixes[rev[j]][k].marker => i = k

\* The loop over the comments keeps one fix of each marker, none that is there.
LEMMA PayloadIsNew ==
    ASSUME NEW r \in 1..Pushes, NEW inDiff, NEW existing
    PROVE  /\ \A i \in Payload(r, inDiff, existing) : Fixes[r][i].marker \notin existing
           /\ \A i, k \in Payload(r, inDiff, existing) :
                  Fixes[r][i].marker = Fixes[r][k].marker => i = k
  <1>1. \A i \in Payload(r, inDiff, existing) :
            i \in Nat \ {0} /\ \A k \in 1..i - 1 : Fixes[r][k].marker # Fixes[r][i].marker
    BY PublishAssumption DEF Payload, Offered
  <1>2. ASSUME NEW i \in Payload(r, inDiff, existing), NEW k \in Payload(r, inDiff, existing),
               Fixes[r][i].marker = Fixes[r][k].marker
        PROVE  i = k
    <2>1. ~(i < k) /\ ~(k < i)
      BY <1>1, <1>2
    <2> QED
      BY <1>1, <2>1
  <1> QED
    BY <1>2 DEF Payload

\* No step takes a comment off a list.
LEMMA ListsGrow ==
    ASSUME TypeOK, OffersOnly, [Next]_vars
    PROVE  /\ host' = host /\ Comments \in Nat /\ Comments' \in Nat /\ Comments <= Comments'
           /\ Len(thread) \in Nat /\ Len(thread') \in Nat /\ Len(thread) <= Len(thread')
  <1> USE DEF TypeOK, forge
  <1>1. Len(thread) \in Nat /\ ids \in Nat /\ thread \in Seq(0..Pushes)
    OBVIOUS
  <1> DEFINE Grown == /\ host' = host /\ ids' \in Nat /\ ids <= ids'
                      /\ Len(thread') \in Nat /\ Len(thread) <= Len(thread')
  <1>2. ASSUME host' = host, ids' = ids \/ ids' = ids + 1,
               thread' = thread \/ thread' = Append(thread, 0)
        PROVE  Grown
    <2>1. CASE thread' = thread
      BY <1>1, <1>2, <2>1
    <2>2. CASE thread' = Append(thread, 0)
      <3>1. Len(thread') = Len(thread) + 1
        BY <1>1, <2>2
      <3> QED
        BY <1>1, <1>2, <3>1
    <2> QED
      BY <1>2, <2>1, <2>2
  <1>3. ASSUME Push \/ UNCHANGED vars PROVE Grown
    BY <1>2, <1>3 DEF Push, vars
  <1>4. ASSUME Chat PROVE Grown
    BY <1>2, <1>4 DEF Chat
  <1>5. ASSUME NEW j \in Jobs, Step(j) \/ Kill(j) PROVE Grown
    <2>1. CASE Start(j) \/ FindComment(j) \/ CheckHead(j) \/ OfferNothing(j) \/ ReadLines(j)
               \/ ReadExisting(j) \/ RequestFails(j) \/ Kill(j)
      BY <1>2, <2>1 DEF Start, FindComment, CheckHead, OfferNothing, ReadLines, ReadExisting,
                        RequestFails, Kill
    <2>2. CASE WriteComment(j)
      <3>1. rev[j] \in 0..Pushes
        BY PublishAssumption
      <3>2. CASE thread' = thread
        BY <1>2, <2>2, <3>2 DEF WriteComment
      <3>3. CASE thread' = Append(thread, rev[j])
        BY <1>1, <2>2, <3>1, <3>3, ThreadGrows DEF WriteComment
      <3>4. CASE found[j] # 0 /\ thread' = [thread EXCEPT ![found[j]] = rev[j]]
        BY <1>1, <2>2, <3>1, <3>4, ThreadReplaced DEF WriteComment
      <3> QED
        BY <2>2, <3>2, <3>3, <3>4 DEF WriteComment
    <2>3. CASE PostReview(j)
      <3>1. Cardinality(batch[j]) \in Nat
        BY <2>3, SizeType DEF PostReview, OffersOnly
      <3> QED
        BY <1>1, <2>3, <3>1 DEF PostReview
    <2>4. CASE PostDiscussion(j) \/ DiscussionAnswerLost(j)
      BY <1>2, <2>4 DEF PostDiscussion, DiscussionAnswerLost, Discuss
    <2>5. CASE PostNote(j)
      BY <1>2, <2>5 DEF PostNote
    <2> QED
      BY <1>5, <2>1, <2>2, <2>3, <2>4, <2>5 DEF Step
  <1>6. Grown
    BY <1>3, <1>4, <1>5 DEF Next
  <1> QED
    BY <1>1, <1>6 DEF Comments

(***************************************************************************)
(* One pipeline at a time never posts a suggestion again while the one     *)
(* before is among the comments the client reads, over any number of       *)
(* pushes, failures, lost answers and cancelled jobs, however long the     *)
(* request's lists get (NoDuplicateSuggestion).                            *)
(***************************************************************************)
THEOREM NeverTwice == (\A j, k \in Jobs : j = k) => (Spec => []NoDuplicateSuggestion)
  <1> SUFFICES ASSUME \A j, k \in Jobs : j = k PROVE Spec => []NoDuplicateSuggestion
    OBVIOUS
  <1>1. Init => Numbered /\ BatchIsNew /\ NoDuplicateSuggestion
    BY DEF Init, Numbered, BatchIsNew, NoDuplicateSuggestion
  <1>2. ASSUME TypeOK, OffersOnly, Numbered, BatchIsNew, NoDuplicateSuggestion, [Next]_vars
        PROVE  Numbered' /\ BatchIsNew' /\ NoDuplicateSuggestion'
    <2>0. /\ host' = host /\ Comments \in Nat /\ Comments' \in Nat /\ Comments <= Comments'
          /\ Len(thread) \in Nat /\ Reach \in Nat
      BY <1>2, ListsGrow, ReachNat
    <2>1. \A s \in inline : s.id \in Nat /\ s.id <= Comments
      BY <1>2 DEF TypeOK, Numbered
    <2>2. \A s \in inline : Past(s.id, Comments, Reach) => Past(s.id, Comments, Reach)'
      <3> SUFFICES ASSUME NEW s \in inline, Past(s.id, Comments, Reach)
                   PROVE  (~Listed(s.id, Comments, Reach))'
        BY DEF Past
      <3> QED
        BY <2>0, <2>1 DEF Past, Listed
    <2>3. ASSUME NEW s \in inline, NEW t \in inline, s.marker = t.marker, s # t
          PROVE  Buried(s.id, t.id, Reach)' \/ Buried(t.id, s.id, Reach)'
      BY <1>2, <2>0, <2>3 DEF NoDuplicateSuggestion, Buried
    <2>4. ASSUME UNCHANGED inline,
                 \A j \in Jobs : pc'[j] = "post" =>
                     pc[j] = "post" /\ rev'[j] = rev[j] /\ batch'[j] = batch[j]
          PROVE  Numbered' /\ BatchIsNew' /\ NoDuplicateSuggestion'
      <3>1. Numbered'
        BY <2>0, <2>1, <2>4 DEF Numbered
      <3>2. BatchIsNew'
        BY <1>2, <2>2, <2>4 DEF BatchIsNew
      <3>3. NoDuplicateSuggestion'
        BY <2>3, <2>4 DEF NoDuplicateSuggestion
      <3> QED
        BY <3>1, <3>2, <3>3
    <2>5. CASE Push \/ Chat \/ UNCHANGED vars
      BY <2>4, <2>5 DEF Push, Chat, vars, local, forge
    <2>6. ASSUME NEW j \in Jobs, Step(j) \/ Kill(j)
          PROVE  Numbered' /\ BatchIsNew' /\ NoDuplicateSuggestion'
      <3>0. Jobs = {j}
        OBVIOUS
      <3>1. CASE Start(j) \/ FindComment(j) \/ WriteComment(j) \/ PostNote(j) \/ CheckHead(j)
                 \/ OfferNothing(j) \/ Kill(j) \/ RequestFails(j) \/ ReadLines(j)
        <4>1. UNCHANGED inline /\ pc'[j] # "post"
          BY <1>2, <3>1 DEF Start, FindComment, WriteComment, PostNote, CheckHead, OfferNothing,
                Kill, RequestFails, ReadLines, Goto, End, forge, TypeOK
        <4> QED
          BY <2>4, <3>0, <4>1
      <3>2. CASE ReadExisting(j)
        <4>1. /\ batch'[j] = Payload(rev[j], lines[j], Existing)
              /\ UNCHANGED <<host, inline, ids, thread, rev>> /\ rev[j] \in 1..Pushes
          BY <1>2, <3>2 DEF ReadExisting, forge, TypeOK
        <4>2. \A i \in batch'[j], s \in inline :
                  s.marker = Fixes[rev[j]][i].marker => Past(s.id, Comments, Reach)
          <5> SUFFICES ASSUME NEW i \in batch'[j], NEW s \in inline,
                              s.marker = Fixes[rev[j]][i].marker
                       PROVE  ~Listed(s.id, Comments, Reach)
            BY DEF Past
          <5>1. Fixes[rev[j]][i].marker \notin Existing
            BY <4>1, PayloadIsNew
          <5> QED
            BY <5>1 DEF Existing
        <4>3. \A i, k \in batch'[j] : Fixes[rev[j]][i].marker = Fixes[rev[j]][k].marker => i = k
          BY <4>1, PayloadIsNew
        <4>4. BatchIsNew'
          BY <2>2, <3>0, <4>1, <4>2, <4>3 DEF BatchIsNew
        <4>5. Numbered' /\ NoDuplicateSuggestion'
          BY <2>0, <2>1, <2>3, <4>1 DEF Numbered, NoDuplicateSuggestion
        <4> QED
          BY <4>4, <4>5
      \* A suggestion just posted is newer than those there, and buries its equals.
      <3>3. ASSUME NEW i \in batch[j], NEW id \in Nat, Comments < id, pc[j] = "post",
                   NEW s \in inline, s.marker = Comment(j, i, id).marker
            PROVE  Buried(s.id, id, Reach)'
        <4>1. Past(s.id, Comments, Reach)
          BY <1>2, <3>3 DEF BatchIsNew, Comment
        <4> QED
          BY <2>0, <2>1, <3>3, <4>1 DEF Past, Listed, Buried
      <3>4. CASE PostReview(j)
        <4> DEFINE Id(i) == ids + Rank(i, batch[j])
        <4>1. /\ inline' = inline \cup {Comment(j, i, Id(i)) : i \in batch[j]}
              /\ pc[j] = "post" /\ pc'[j] # "post" /\ Comments = ids
              /\ ids' = ids + Cardinality(batch[j]) /\ Comments' = ids'
          BY <1>2, <2>0, <3>4 DEF PostReview, End, Goto, TypeOK, Comments
        <4>2. batch[j] \subseteq Offered(rev[j]) /\ rev[j] \in 1..Pushes /\ ids \in Nat
          BY <1>2, <4>1 DEF OffersOnly, TypeOK
        <4>3. ASSUME NEW i \in batch[j]
              PROVE  Id(i) \in Nat /\ Comments < Id(i) /\ Id(i) <= Comments'
          <5>1. /\ Cardinality(batch[j]) \in Nat /\ Rank(i, batch[j]) \in Nat
                /\ 1 <= Rank(i, batch[j]) /\ Rank(i, batch[j]) <= Cardinality(batch[j])
            BY <4>2, RankType
          <5> QED
            BY <4>1, <4>2, <5>1
        <4> HIDE DEF Id
        <4>4. \A i \in batch[j] : /\ Comment(j, i, Id(i)).id = Id(i)
                                   /\ Comment(j, i, Id(i)).marker = Fixes[rev[j]][i].marker
          BY DEF Comment
        <4>5. \A i, k \in batch[j] :
                  Comment(j, i, Id(i)).marker = Comment(j, k, Id(k)).marker => i = k
          BY <1>2, <4>1, <4>4 DEF BatchIsNew
        <4>6. Numbered'
          <5> SUFFICES ASSUME NEW s \in inline' PROVE s.id <= Comments'
            BY DEF Numbered
          <5>1. CASE s \in inline
            BY <2>0, <2>1, <5>1
          <5>2. CASE s \notin inline
            BY <4>1, <4>3, <4>4, <5>2
          <5> QED
            BY <5>1, <5>2
        <4>7. BatchIsNew'
          BY <3>0, <4>1 DEF BatchIsNew
        <4>8. ASSUME NEW s \in inline', NEW t \in inline', s.marker = t.marker, s # t
              PROVE  Buried(s.id, t.id, Reach)' \/ Buried(t.id, s.id, Reach)'
          <5>1. CASE s \in inline /\ t \in inline
            BY <2>3, <4>8, <5>1
          <5>2. ASSUME NEW u \in inline, NEW v \in inline', v \notin inline,
                       u.marker = v.marker
                PROVE  Buried(u.id, v.id, Reach)'
            <6>1. PICK i \in batch[j] : v = Comment(j, i, Id(i))
              BY <4>1, <5>2
            <6> QED
              BY <3>3, <4>1, <4>3, <4>4, <5>2, <6>1
          <5>3. CASE s \notin inline /\ t \notin inline
            <6>1. PICK i \in batch[j] : s = Comment(j, i, Id(i))
              BY <4>1, <5>3
            <6>2. PICK k \in batch[j] : t = Comment(j, k, Id(k))
              BY <4>1, <5>3
            <6> QED
              BY <4>5, <4>8, <6>1, <6>2
          <5> QED
            BY <4>8, <5>1, <5>2, <5>3
        <4>9. NoDuplicateSuggestion'
          BY <4>8 DEF NoDuplicateSuggestion
        <4> QED
          BY <4>6, <4>7, <4>9
      <3>5. CASE PostDiscussion(j) \/ DiscussionAnswerLost(j)
        <4> DEFINE id == Len(thread) + 1
        <4>1. PICK i \in batch[j] :
                  /\ Discuss(j, i)
                  /\ pc'[j] = "post" => rev'[j] = rev[j] /\ batch'[j] = batch[j] \ {i}
          BY <1>2, <3>5 DEF PostDiscussion, DiscussionAnswerLost, End, Goto, TypeOK
        <4>2. /\ pc[j] = "post" /\ Comments = Len(thread) /\ Comments' = id
              /\ id \in Nat /\ Comments < id
          <5>1. pc[j] = "post" /\ host = "gitlab"
            BY <3>5 DEF PostDiscussion, DiscussionAnswerLost
          <5>2. Len(thread') = Len(thread) + 1
            BY <1>2, <4>1 DEF Discuss, TypeOK
          <5> QED
            BY <2>0, <5>1, <5>2 DEF Comments
        <4> HIDE DEF id
        <4>3. inline' = inline \cup {Comment(j, i, id)}
          BY <4>1 DEF Discuss, id
        <4>4. Comment(j, i, id).id = id /\ Comment(j, i, id).marker = Fixes[rev[j]][i].marker
          BY DEF Comment
        <4>5. Numbered'
          BY <2>0, <2>1, <4>2, <4>3, <4>4 DEF Numbered
        <4>6. BatchIsNew'
          <5> SUFFICES ASSUME pc'[j] = "post"
                       PROVE  /\ \A k \in batch'[j], s \in inline' :
                                     s.marker = Fixes[rev[j]][k].marker
                                         => Past(s.id, Comments, Reach)'
                              /\ \A k, m \in batch'[j] :
                                     Fixes[rev[j]][k].marker = Fixes[rev[j]][m].marker => k = m
            BY <3>0, <4>1 DEF BatchIsNew
          <5>1. batch'[j] = batch[j] \ {i}
            BY <4>1
          <5>2. \A k, m \in batch[j] :
                    Fixes[rev[j]][k].marker = Fixes[rev[j]][m].marker => k = m
            BY <1>2, <4>2 DEF BatchIsNew
          <5>3. ASSUME NEW k \in batch'[j], NEW s \in inline', s.marker = Fixes[rev[j]][k].marker
                PROVE  Past(s.id, Comments, Reach)'
            <6>1. s # Comment(j, i, id)
              BY <4>4, <5>1, <5>2, <5>3
            <6>2. s \in inline /\ Past(s.id, Comments, Reach)
              BY <1>2, <4>2, <4>3, <5>1, <5>3, <6>1 DEF BatchIsNew
            <6> QED
              BY <2>2, <6>2
          <5> QED
            BY <5>1, <5>2, <5>3
        <4>7. NoDuplicateSuggestion'
          <5> SUFFICES ASSUME NEW s \in inline', NEW t \in inline', s.marker = t.marker, s # t
                       PROVE  Buried(s.id, t.id, Reach)' \/ Buried(t.id, s.id, Reach)'
            BY DEF NoDuplicateSuggestion
          <5>1. CASE s \in inline /\ t \in inline
            BY <2>3, <5>1
          <5>2. CASE s \in inline /\ t = Comment(j, i, id)
            BY <3>3, <4>2, <4>4, <5>2
          <5>3. CASE t \in inline /\ s = Comment(j, i, id)
            BY <3>3, <4>2, <4>4, <5>3
          <5> QED
            BY <4>3, <5>1, <5>2, <5>3
        <4> QED
          BY <4>5, <4>6, <4>7
      <3> QED
        BY <2>6, <3>1, <3>2, <3>4, <3>5 DEF Step
    <2> QED
      BY <1>2, <2>5, <2>6 DEF Next
  <1>3. Spec => [](TypeOK /\ OffersOnly)
    BY Typed
  <1> QED
    BY <1>1, <1>2, <1>3, PTL DEF Spec

-----------------------------------------------------------------------------
(***************************************************************************)
(* What the search has found stays true until the job has written: the     *)
(* comment it found, or that every summary there is past its reach.        *)
(***************************************************************************)
SearchHolds(j) ==
    IF found[j] = 0
    THEN \A i \in DOMAIN thread : thread[i] # 0 => Past(i, Len(thread), SummaryReach)
    ELSE found[j] \in DOMAIN thread /\ thread[found[j]] # 0

SummaryInv == OneSummaryInReach /\ \A j \in Jobs : pc[j] = "write" => SearchHolds(j)

(***************************************************************************)
(* One pipeline at a time writes a second summary only where the first is  *)
(* past the search's reach, whatever requests fail, whatever answers are   *)
(* lost and whatever others write in between (OneSummaryInReach).          *)
(***************************************************************************)
THEOREM OneSummaryAtATime == (\A j, k \in Jobs : j = k) => (Spec => []OneSummaryInReach)
  <1> SUFFICES ASSUME \A j, k \in Jobs : j = k PROVE Spec => []OneSummaryInReach
    OBVIOUS
  <1>1. Init => SummaryInv
    BY DEF Init, SummaryInv, OneSummaryInReach
  <1>2. ASSUME TypeOK, OffersOnly, SummaryInv, [Next]_vars PROVE SummaryInv'
    <2>0. /\ host' = host /\ Len(thread) \in Nat /\ Len(thread') \in Nat
          /\ SummaryReach \in Nat /\ SummaryReach' = SummaryReach
          /\ thread \in Seq(0..Pushes) /\ DOMAIN thread = 1..Len(thread)
      BY <1>2, ListsGrow, ReachNat DEF TypeOK, SummaryReach
    <2>1. ASSUME NEW i \in DOMAIN thread, NEW k \in DOMAIN thread,
                 thread[i] # 0, thread[k] # 0, i < k
          PROVE  Buried(i, k, SummaryReach)'
      BY <1>2, <2>0, <2>1 DEF SummaryInv, OneSummaryInReach, Buried
    <2>2. ASSUME thread' = thread, \A j \in Jobs : pc'[j] = "write" =>
                     pc[j] = "write" /\ found'[j] = found[j]
          PROVE  SummaryInv'
      <3>1. OneSummaryInReach'
        BY <2>0, <2>1, <2>2 DEF OneSummaryInReach
      <3>2. \A j \in Jobs : pc'[j] = "write" => SearchHolds(j)'
        BY <1>2, <2>0, <2>2 DEF SummaryInv, SearchHolds, Past, Listed
      <3> QED
        BY <3>1, <3>2 DEF SummaryInv
    <2>3. ASSUME thread' = Append(thread, 0), \A j \in Jobs : pc'[j] = "write" =>
                     pc[j] = "write" /\ found'[j] = found[j]
          PROVE  SummaryInv'
      <3>1. /\ DOMAIN thread' = 1..(Len(thread) + 1) /\ Len(thread') = Len(thread) + 1
            /\ \A i \in DOMAIN thread : thread'[i] = thread[i]
            /\ thread'[Len(thread) + 1] = 0
        BY <2>0, <2>3
      <3>2. \A i \in DOMAIN thread' : thread'[i] # 0 => i \in DOMAIN thread /\ thread[i] # 0
        BY <2>0, <3>1
      <3>3. OneSummaryInReach'
        BY <2>1, <3>2 DEF OneSummaryInReach
      <3>4. ASSUME NEW j \in Jobs, pc'[j] = "write" PROVE SearchHolds(j)'
        <4>1. SearchHolds(j) /\ found'[j] = found[j]
          BY <1>2, <2>3, <3>4 DEF SummaryInv
        <4>2. CASE found[j] = 0
          <5> SUFFICES ASSUME NEW i \in DOMAIN thread', thread'[i] # 0
                       PROVE  Past(i, Len(thread), SummaryReach)'
            BY <4>1, <4>2 DEF SearchHolds
          <5>1. Past(i, Len(thread), SummaryReach)
            BY <3>2, <4>1, <4>2 DEF SearchHolds
          <5> QED
            BY <2>0, <3>1, <5>1 DEF Past, Listed
        <4>3. CASE found[j] # 0
          BY <2>0, <3>1, <4>1, <4>3 DEF SearchHolds
        <4> QED
          BY <4>2, <4>3
      <3> QED
        BY <3>3, <3>4 DEF SummaryInv
    <2>4. CASE Push \/ UNCHANGED vars
      BY <2>2, <2>4 DEF Push, vars, local, forge
    <2>5. CASE Chat
      BY <2>2, <2>3, <2>5 DEF Chat, local
    <2>6. ASSUME NEW j \in Jobs, Step(j) \/ Kill(j) PROVE SummaryInv'
      <3>0. Jobs = {j}
        OBVIOUS
      <3> USE DEF Goto, End, forge
      <3>1. CASE Start(j) \/ CheckHead(j) \/ OfferNothing(j) \/ ReadLines(j) \/ ReadExisting(j)
                 \/ PostReview(j) \/ RequestFails(j) \/ Kill(j)
        <4>1. thread' = thread /\ pc'[j] # "write"
          BY <1>2, <3>1 DEF Start, CheckHead, OfferNothing, ReadLines, ReadExisting, PostReview,
                            RequestFails, Kill, TypeOK
        <4> QED
          BY <2>2, <3>0, <4>1
      <3>2. CASE PostDiscussion(j) \/ DiscussionAnswerLost(j) \/ PostNote(j)
        <4>1. pc'[j] # "write" /\ (thread' = thread \/ thread' = Append(thread, 0))
          BY <1>2, <3>2 DEF PostDiscussion, DiscussionAnswerLost, Discuss, PostNote, TypeOK
        <4> QED
          BY <2>2, <2>3, <3>0, <4>1
      <3>3. CASE FindComment(j)
        <4>1. thread' = thread /\ found'[j] \in Nat
          BY <1>2, <2>0, <3>3 DEF FindComment, Marked, TypeOK
        <4>2. SearchHolds(j)'
          <5>1. CASE Marked = {}
            <6>1. found'[j] = 0
              BY <1>2, <3>3, <5>1 DEF FindComment, TypeOK
            <6>2. \A i \in DOMAIN thread : thread[i] # 0 => Past(i, Len(thread), SummaryReach)
              BY <5>1 DEF Marked, Past
            <6> QED
              BY <2>0, <4>1, <6>1, <6>2 DEF SearchHolds, Past, Listed
          <5>2. CASE found'[j] \in Marked
            BY <2>0, <4>1, <5>2 DEF Marked, SearchHolds
          <5> QED
            BY <1>2, <3>3, <5>1, <5>2 DEF FindComment, TypeOK
        <4>3. OneSummaryInReach'
          BY <2>0, <2>1, <4>1 DEF OneSummaryInReach
        <4> QED
          BY <3>0, <4>2, <4>3 DEF SummaryInv
      <3>4. CASE WriteComment(j)
        <4>1. SearchHolds(j) /\ rev[j] \in 1..Pushes /\ pc'[j] # "write"
          BY <1>2, <3>4 DEF WriteComment, SummaryInv, TypeOK
        <4>2. CASE thread' = thread
          BY <2>2, <3>0, <4>1, <4>2
        <4>3. CASE found[j] = 0 /\ thread' = Append(thread, rev[j])
          <5>1. /\ DOMAIN thread' = 1..(Len(thread) + 1)
                /\ \A i \in DOMAIN thread : thread'[i] = thread[i]
            BY <2>0, <4>3
          <5>2. ASSUME NEW i \in DOMAIN thread', NEW k \in DOMAIN thread',
                       thread'[i] # 0, thread'[k] # 0, i < k
                PROVE  Buried(i, k, SummaryReach)'
            <6>1. i \in DOMAIN thread /\ thread[i] # 0
              BY <2>0, <5>1, <5>2
            <6>2. CASE k \in DOMAIN thread
              BY <2>1, <5>1, <5>2, <6>1, <6>2
            <6>3. CASE k = Len(thread) + 1
              <7>1. Past(i, Len(thread), SummaryReach)
                BY <4>1, <4>3, <6>1 DEF SearchHolds
              <7> QED
                BY <2>0, <5>2, <6>1, <6>3, <7>1 DEF Past, Listed, Buried
            <6> QED
              BY <2>0, <5>1, <6>2, <6>3
          <5> QED
            BY <3>0, <4>1, <5>2 DEF SummaryInv, OneSummaryInReach
        <4>4. CASE found[j] # 0 /\ thread' = [thread EXCEPT ![found[j]] = rev[j]]
          <5>1. found[j] \in DOMAIN thread /\ thread[found[j]] # 0
            BY <4>1, <4>4 DEF SearchHolds
          <5>2. /\ DOMAIN thread' = DOMAIN thread
                /\ \A i \in DOMAIN thread : thread'[i] # 0 => thread[i] # 0
            BY <4>4, <5>1
          <5> QED
            BY <2>1, <3>0, <4>1, <5>2 DEF SummaryInv, OneSummaryInReach
        <4> QED
          BY <3>4, <4>2, <4>3, <4>4 DEF WriteComment
      <3> QED
        BY <2>6, <3>1, <3>2, <3>3, <3>4 DEF Step
    <2> QED
      BY <1>2, <2>4, <2>5, <2>6 DEF Next
  <1>3. SummaryInv => OneSummaryInReach
    BY DEF SummaryInv
  <1>4. Spec => [](TypeOK /\ OffersOnly)
    BY Typed
  <1> QED
    BY <1>1, <1>2, <1>3, <1>4, PTL DEF Spec
=============================================================================
