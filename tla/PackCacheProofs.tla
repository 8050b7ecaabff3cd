--------------------------- MODULE PackCacheProofs ---------------------------
(***************************************************************************)
(* Theorems about PackCache: what holds for any number of scans that share *)
(* the cache, and what holds as long as they follow one another.           *)
(***************************************************************************)
EXTENDS PackCache, TLAPS

\* The release the server serves is one of those it publishes.
LEMMA PublishedType ==
    ASSUME published \in 1..MaxVersion, [Next]_vars
    PROVE  published' \in 1..MaxVersion
  <1>1. CASE Publish
    BY <1>1, PackAssumption DEF Publish
  <1>2. CASE Expire \/ UNCHANGED vars
    BY <1>2 DEF Expire, vars
  <1>3. ASSUME NEW s \in Scanners, Scan(s) \/ Kill(s) PROVE UNCHANGED published
    BY <1>3 DEF Scan, Kill, ReadPack, ReadTag, CheckAge, NotModified, Download, DownloadFails,
                Replace, EmptyTag, FillTag, WriteFails, Touch
  <1> QED
    BY <1>1, <1>2, <1>3 DEF Next

\* What a scan reads off the disk when there is nothing is well typed.
LEMMA NoCopyType == NoCopy \in [body : Bodies \cup {NoPack}, tag : 0..MaxVersion]
  BY PackAssumption DEF NoCopy

\* A body's release is a tag.
LEMMA VersionType == \A b \in Bodies \cup {NoPack} : b.version \in 0..MaxVersion
  BY PackAssumption DEF Bodies, NoPack

\* What a call leaves behind has its type.
LEMMA LeaveType ==
    ASSUME TypeOK, NEW s \in Scanners, Leave(s)
    PROVE  /\ pc' \in [Scanners -> {"idle", "readtag", "age", "download", "replace", "emptytag",
                                    "filltag", "touch"}]
           /\ cached' \in [Scanners -> [body : Bodies \cup {NoPack}, tag : 0..MaxVersion]]
           /\ fetched' \in [Scanners -> Bodies \cup {NoPack}]
  BY NoCopyType DEF TypeOK, Leave, Goto

\* The files and what the scans hold have their types (TypeOK) at every moment.
THEOREM TypeCorrect == Spec => []TypeOK
  <1>1. ASSUME Init PROVE TypeOK
    <2> USE <1>1 DEF Init, TypeOK
    <2>1. published \in 1..MaxVersion /\ tag \in 0..MaxVersion
      BY PackAssumption
    <2>2. fresh \in BOOLEAN
      OBVIOUS
    <2> QED
      BY <2>1, <2>2, NoCopyType
  <1>2. ASSUME TypeOK, [Next]_vars PROVE TypeOK'
    <2> USE <1>2 DEF Goto, Return, disk, locals, TypeOK
    <2>1. published' \in 1..MaxVersion
      BY PublishedType
    <2>2. CASE Publish \/ Expire
      BY <2>1, <2>2 DEF Publish, Expire
    <2>3. ASSUME NEW s \in Scanners, Scan(s) \/ Kill(s) PROVE TypeOK'
      <3>0. /\ cached[s].body \in Bodies \cup {NoPack}
            /\ fetched[s] \in Bodies \cup {NoPack}
        OBVIOUS
      <3>1. CASE ReadPack(s)
        <4>1. [body |-> pack, tag |-> 0] \in [body : Bodies \cup {NoPack}, tag : 0..MaxVersion]
          BY PackAssumption
        <4>2. cached' \in [Scanners -> [body : Bodies \cup {NoPack}, tag : 0..MaxVersion]]
          BY <3>1, <4>1 DEF ReadPack
        <4> QED
          BY <2>1, <3>1, <4>2 DEF ReadPack
      <3>2. CASE ReadTag(s)
        BY <2>1, <3>2 DEF ReadTag
      <3>3. CASE CheckAge(s)
        <4>1. CASE Return(s, cached[s].body)
          BY <2>1, <3>0, <3>3, <4>1, LeaveType DEF CheckAge
        <4>2. CASE Goto(s, "download") /\ UNCHANGED locals
          BY <2>1, <3>3, <4>2 DEF CheckAge
        <4> QED
          BY <3>3, <4>1, <4>2 DEF CheckAge
      <3>4. CASE NotModified(s)
        BY <2>1, <3>4 DEF NotModified
      <3>5. CASE Download(s)
        <4>1. PICK w \in BOOLEAN :
                  fetched' = [fetched EXCEPT ![s] = [version |-> published, whole |-> w]]
          BY <3>5 DEF Download
        <4>2. [version |-> published, whole |-> w] \in Bodies
          BY DEF Bodies
        <4>3. fetched' \in [Scanners -> Bodies \cup {NoPack}]
          BY <4>1, <4>2
        <4>4. answered' \subseteq Bodies
          BY <3>5, <4>1, <4>2 DEF Download
        <4>5. cached' \in [Scanners -> [body : Bodies \cup {NoPack}, tag : 0..MaxVersion]]
          BY <3>5, NoCopyType DEF Download
        <4> QED
          BY <2>1, <3>5, <4>3, <4>4, <4>5 DEF Download
      <3>6. CASE DownloadFails(s) \/ Touch(s)
        BY <2>1, <3>0, <3>6, LeaveType DEF DownloadFails, Touch
      <3>7. CASE Replace(s)
        BY <2>1, <3>0, <3>7 DEF Replace
      <3>8. CASE EmptyTag(s)
        BY <2>1, <3>8, PackAssumption DEF EmptyTag
      <3>9. CASE FillTag(s)
        BY <2>1, <3>0, <3>9, LeaveType, VersionType DEF FillTag
      <3>10. CASE WriteFails(s)
        BY <2>1, <3>0, <3>10, LeaveType DEF WriteFails
      <3>11. CASE Kill(s)
        BY <2>1, <3>11, LeaveType DEF Kill
      <3> QED
        BY <2>3, <3>1, <3>2, <3>3, <3>4, <3>5, <3>6, <3>7, <3>8, <3>9, <3>10, <3>11 DEF Scan
    <2>4. CASE UNCHANGED vars
      BY <2>4 DEF vars
    <2> QED
      BY <1>2, <2>2, <2>3, <2>4 DEF Next
  <1> QED
    BY <1>1, <1>2, PTL DEF Spec

-----------------------------------------------------------------------------
\* Every body anywhere is one that a connection delivered, or there is none.
Delivered(b) == b \in answered \cup {NoPack}

AllDelivered ==
    /\ Delivered(pack)
    /\ \A s \in Scanners : /\ Delivered(cached[s].body)
                           /\ Delivered(fetched[s])
                           /\ Delivered(used[s])

(***************************************************************************)
(* Renaming a temporary file over the body is enough: what was delivered   *)
(* is what every reader gets, with any number of scans and crashes.        *)
(***************************************************************************)
LEMMA DeliveredAlways == Spec => []AllDelivered
  <1>1. Init => AllDelivered
    BY DEF Init, AllDelivered, Delivered, NoCopy
  <1>2. ASSUME TypeOK, AllDelivered, [Next]_vars PROVE AllDelivered'
    <2> USE DEF Goto, disk, locals, AllDelivered, Delivered
    <2>0. /\ DOMAIN cached = Scanners /\ DOMAIN fetched = Scanners /\ DOMAIN used = Scanners
          /\ \A b : b \in answered => b \in Bodies
          /\ cached \in [Scanners -> [body : Bodies \cup {NoPack}, tag : 0..MaxVersion]]
          /\ AllDelivered
      BY <1>2 DEF TypeOK
    <2>1. ASSUME NEW s \in Scanners, Leave(s), UNCHANGED <<answered, pack>>,
                 \A t \in Scanners : used'[t] \in answered \cup {NoPack}
          PROVE  AllDelivered'
      BY <2>0, <2>1 DEF Leave, NoCopy
    <2>2. ASSUME NEW s \in Scanners, NEW b, Return(s, b), b \in answered \cup {NoPack},
                 UNCHANGED <<answered, pack>>
          PROVE  AllDelivered'
      BY <2>0, <2>1, <2>2 DEF Return
    <2>3. CASE Publish \/ Expire \/ UNCHANGED vars
      BY <2>0, <2>3 DEF Publish, Expire, vars
    <2>4. ASSUME NEW s \in Scanners, Scan(s) \/ Kill(s) PROVE AllDelivered'
      <3>1. CASE Download(s)
        <4>1. \A b : b \in answered => b \in answered'
          BY <3>1 DEF Download
        <4>2. fetched'[s] \in answered'
          BY <3>1 DEF Download
        <4>3. /\ \A t \in Scanners \ {s} : fetched'[t] = fetched[t]
              /\ \A t \in Scanners : cached'[t] = cached[t] \/ cached'[t].body = NoPack
              /\ UNCHANGED <<pack, used>>
          BY <2>0, <3>1 DEF Download, NoCopy
        <4> QED
          BY <2>0, <4>1, <4>2, <4>3
      <3>2. CASE ReadPack(s)
        BY <2>0, <3>2 DEF ReadPack
      <3>3. CASE ReadTag(s) \/ NotModified(s)
        BY <2>0, <3>3 DEF ReadTag, NotModified
      <3>4. CASE CheckAge(s)
        <4>1. CASE Return(s, cached[s].body)
          BY <2>0, <2>2, <3>4, <4>1 DEF CheckAge
        <4>2. CASE UNCHANGED locals
          BY <2>0, <3>4, <4>2 DEF CheckAge
        <4> QED
          BY <3>4, <4>1, <4>2 DEF CheckAge
      <3>5. CASE DownloadFails(s) \/ FillTag(s) \/ WriteFails(s) \/ Touch(s)
        BY <2>0, <2>2, <3>5 DEF DownloadFails, FillTag, WriteFails, Touch
      <3>6. CASE Replace(s) \/ EmptyTag(s)
        BY <2>0, <3>6 DEF Replace, EmptyTag
      <3>7. CASE Kill(s)
        BY <2>0, <2>1, <3>7 DEF Kill
      <3> QED
        BY <2>4, <3>1, <3>2, <3>3, <3>4, <3>5, <3>6, <3>7 DEF Scan
    <2> QED
      BY <1>2, <2>3, <2>4 DEF Next
  <1> QED
    BY <1>1, <1>2, TypeCorrect, PTL DEF Spec

(***************************************************************************)
(* No scan goes on with a body that no connection delivered                *)
(* (NeverHalfAPack), whatever the number of scans and crashes, and however *)
(* the connections drop.                                                   *)
(***************************************************************************)
THEOREM HalfPacksNeverUsed == Spec => []NeverHalfAPack
  <1>1. AllDelivered => NeverHalfAPack
    BY DEF AllDelivered, Delivered, NeverHalfAPack
  <1> QED
    BY <1>1, DeliveredAlways, PTL

-----------------------------------------------------------------------------
\* What one scan at a time keeps true of the pair of files and of its copy.
Ordered ==
    /\ tag <= pack.version /\ pack.version <= published
    /\ \A s \in Scanners :
           /\ pc[s] = "readtag" => cached[s].body = pack
           /\ pc[s] \in {"age", "download", "touch"} =>
                  /\ cached[s].tag <= cached[s].body.version
                  /\ cached[s].body.version <= published
           /\ pc[s] = "replace" => tag <= fetched[s].version /\ fetched[s].version <= published
           /\ pc[s] \in {"emptytag", "filltag"} => pack = fetched[s]

(***************************************************************************)
(* Any number of scans that follow one another, killed or not, with        *)
(* answers that arrive whole: a tag left behind is never ahead of its      *)
(* body, so a release the server confirms is the one that was cached       *)
(* (AloneIsCorrect).                                                       *)
(***************************************************************************)
THEOREM OneScanIsCorrect == Spec => AloneIsCorrect
  <1> USE DEF Bodies, NoPack, NoCopy
  <1>1. Init => Ordered /\ NotModifiedIsCorrect
    BY DEF Init, Ordered, NotModifiedIsCorrect
  <1>2. ASSUME TypeOK, AllDelivered, WholeAnswers, Alone, Alone', Ordered, NotModifiedIsCorrect,
               [Next]_vars
        PROVE  Ordered' /\ NotModifiedIsCorrect'
    <2> USE <1>2 DEF Goto, Return, Leave, disk, locals, TypeOK, Ordered, NotModifiedIsCorrect
    <2>1. CASE Publish \/ Expire
      BY <2>1, PackAssumption DEF Publish, Expire
    <2>2. ASSUME NEW s \in Scanners, Scan(s) \/ Kill(s)
          PROVE  Ordered' /\ NotModifiedIsCorrect'
      \* The other scans are not at the cache, before the step or after it.
      <3>0. \A t \in Scanners : t # s => pc[t] = "idle" /\ pc'[t] = "idle"
        <4>1. pc[s] # "idle" \/ pc'[s] # "idle"
          BY <2>2 DEF Scan, Kill, ReadPack, ReadTag, CheckAge, NotModified, Download,
                      DownloadFails, Replace, EmptyTag, FillTag, WriteFails, Touch
        <4>2. \A t \in Scanners : t # s => pc'[t] = pc[t]
          BY <2>2 DEF Scan, Kill, ReadPack, ReadTag, CheckAge, NotModified, Download,
                      DownloadFails, Replace, EmptyTag, FillTag, WriteFails, Touch
        <4> QED
          BY <4>1, <4>2 DEF Alone
      <3> USE <3>0, PackAssumption
      <3>1. CASE ReadPack(s)
        BY <3>1 DEF ReadPack
      <3>2. CASE ReadTag(s)
        BY <3>2 DEF ReadTag
      <3>3. CASE CheckAge(s) \/ Touch(s)
        <4>1. CASE CheckAge(s)
          BY <4>1 DEF CheckAge
        <4>2. CASE Touch(s)
          BY <4>2 DEF Touch
        <4> QED
          BY <3>3, <4>1, <4>2
      <3>4. CASE NotModified(s)
        <4>1. cached[s].body.whole
          BY <3>4 DEF NotModified, AllDelivered, Delivered, WholeAnswers
        <4>2. cached[s].body \in Bodies /\ cached[s].body.version = cached[s].tag
          <5>1. cached[s].body \in Bodies /\ cached[s].tag = published
            BY <3>4 DEF NotModified
          <5>2. cached[s].body.version \in Nat /\ published \in Nat
            BY <5>1
          <5>3. /\ cached[s].tag <= cached[s].body.version
                /\ cached[s].body.version <= published
            BY <3>4 DEF NotModified
          <5> QED
            BY <5>1, <5>2, <5>3
        <4>3. cached[s].body = [version |-> cached[s].tag, whole |-> TRUE]
          BY <4>1, <4>2
        <4> QED
          BY <3>4, <4>3 DEF NotModified
      <3>5. CASE Download(s)
        <4>1. fetched'[s].version = published
          BY <3>5 DEF Download
        <4> QED
          BY <3>5, <4>1 DEF Download
      <3>6. CASE DownloadFails(s) \/ WriteFails(s) \/ Kill(s)
        BY <3>6 DEF DownloadFails, WriteFails, Kill
      <3>7. CASE Replace(s)
        BY <3>7 DEF Replace
      <3>8. CASE EmptyTag(s)
        BY <3>8 DEF EmptyTag
      <3>9. CASE FillTag(s)
        BY <3>9 DEF FillTag
      <3> QED
        BY <2>2, <3>1, <3>2, <3>3, <3>4, <3>5, <3>6, <3>7, <3>8, <3>9 DEF Scan
    <2>3. CASE UNCHANGED vars
      BY <2>3 DEF vars
    <2> QED
      BY <1>2, <2>1, <2>2, <2>3 DEF Next
  <1> QED
    BY <1>1, <1>2, TypeCorrect, DeliveredAlways, PTL DEF Spec, AloneIsCorrect
=============================================================================
