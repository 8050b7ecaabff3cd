------------------------------ MODULE PackCache ------------------------------
(***************************************************************************)
(* The on-disk cache of the licensed schema packs, shared by the scans     *)
(* that run on one machine (licensing/rulepacks.py).  A pack is two files, *)
(* the body and the entity tag the server gave for it; no lock protects    *)
(* the pair.  A scan reads the body, then the tag, then the age of the     *)
(* body; it revalidates an old pack with the tag, and stores an answer by  *)
(* replacing the body and then rewriting the tag.                          *)
(*                                                                         *)
(* A body is [version, whole]; version 0 is no body, tag 0 no tag.         *)
(***************************************************************************)
EXTENDS Naturals

CONSTANTS
    Scanners,      \* the scans that share the cache
    MaxVersion,    \* bound: the releases the server publishes
    Truncating     \* whether a connection can drop in the middle of a body

ASSUME PackAssumption ==
    /\ MaxVersion \in Nat \ {0}
    /\ Truncating \in BOOLEAN

VARIABLES
    published,     \* the release the server serves
    pack,          \* the body file
    tag,           \* the tag file
    fresh,         \* whether the body file is younger than PACK_CACHE_TTL_SECONDS
    pc,            \* the step each scan is about to take
    cached,        \* what a scan read from the cache: [body, tag]
    fetched,       \* the body the server answered with
    used,          \* the body a scan went on with
    answered       \* history: the bodies the connections have delivered

disk   == <<pack, tag, fresh>>
locals == <<cached, fetched, used>>
vars   == <<published, disk, pc, locals, answered>>

NoPack == [version |-> 0, whole |-> FALSE]
NoCopy == [body |-> NoPack, tag |-> 0]
Bodies == [version : 1..MaxVersion, whole : BOOLEAN]

Init ==
    /\ published = 1
    /\ pack = NoPack /\ tag = 0 /\ fresh = FALSE
    /\ pc = [s \in Scanners |-> "idle"]
    /\ cached = [s \in Scanners |-> NoCopy]
    /\ fetched = [s \in Scanners |-> NoPack]
    /\ used = [s \in Scanners |-> NoPack]
    /\ answered = {}

Goto(s, step) == pc' = [pc EXCEPT ![s] = step]

\* What a call held is gone when it ends.
Leave(s) ==
    /\ cached' = [cached EXCEPT ![s] = NoCopy]
    /\ fetched' = [fetched EXCEPT ![s] = NoPack]
    /\ Goto(s, "idle")

\* fetch_rule_pack returns a pack, or none; the scan ends later, whatever it is.
Return(s, body) == used' = [used EXCEPT ![s] = body] /\ Leave(s)

(***************************************************************************)
(* read_cached_pack: the body, and the tag if there is one.                *)
(***************************************************************************)
ReadPack(s) ==
    /\ pc[s] = "idle"
    /\ cached' = [cached EXCEPT ![s] = [body |-> pack, tag |-> 0]]
    /\ used' = [used EXCEPT ![s] = NoPack]
    /\ Goto(s, IF pack = NoPack THEN "download" ELSE "readtag")
    /\ UNCHANGED <<published, answered, disk, fetched>>

ReadTag(s) ==
    /\ pc[s] = "readtag"
    /\ cached' = [cached EXCEPT ![s].tag = tag]
    /\ Goto(s, "age")
    /\ UNCHANGED <<published, answered, disk, fetched, used>>

\* Mutant: what is cached is never revalidated.
CheckNoAge(s) ==
    /\ pc[s] = "age"
    /\ Return(s, cached[s].body)
    /\ UNCHANGED <<published, answered, disk>>

\* cache_fresh.
CheckAge(s) ==
    /\ pc[s] = "age"
    /\ \/ fresh /\ Return(s, cached[s].body)
       \/ ~fresh /\ Goto(s, "download") /\ UNCHANGED locals
    /\ UNCHANGED <<published, answered, disk>>

(***************************************************************************)
(* _download_rule_pack: the server answers 304 to the tag it would send.   *)
(* read(max_bytes) returns what came when a connection drops, and raises   *)
(* nothing.                                                                *)
(***************************************************************************)
NotModified(s) ==
    /\ pc[s] = "download"
    /\ cached[s].body # NoPack /\ cached[s].tag = published
    /\ Goto(s, "touch")
    /\ UNCHANGED <<published, answered, disk, locals>>

Download(s) ==
    /\ pc[s] = "download"
    /\ cached[s].tag # published
    /\ \E whole \in IF Truncating THEN BOOLEAN ELSE {TRUE} :
           fetched' = [fetched EXCEPT ![s] = [version |-> published, whole |-> whole]]
    /\ answered' = answered \cup {fetched'[s]}
    /\ cached' = [cached EXCEPT ![s] = NoCopy]
    /\ Goto(s, "replace")
    /\ UNCHANGED <<published, disk, used>>

\* Refused, or no answer: the cached pack if there is one.
DownloadFails(s) ==
    /\ pc[s] = "download"
    /\ Return(s, cached[s].body)
    /\ UNCHANGED <<published, answered, disk>>

\* Mutant: the body is written in place.
ReplaceInPlace(s) ==
    /\ pc[s] = "replace"
    /\ \/ pack' = [fetched[s] EXCEPT !.whole = FALSE] /\ UNCHANGED pc
       \/ pack' = fetched[s] /\ Goto(s, "emptytag")
    /\ fresh' = TRUE
    /\ UNCHANGED <<published, answered, tag, locals>>

(***************************************************************************)
(* write_cached_pack: a temporary file renamed over the body, then         *)
(* write_text on the tag, which empties it before it fills it.             *)
(***************************************************************************)
Replace(s) ==
    /\ pc[s] = "replace"
    /\ pack' = fetched[s] /\ fresh' = TRUE
    /\ Goto(s, "emptytag")
    /\ UNCHANGED <<published, answered, tag, locals>>

EmptyTag(s) ==
    /\ pc[s] = "emptytag"
    /\ tag' = 0
    /\ Goto(s, "filltag")
    /\ UNCHANGED <<published, answered, pack, fresh, locals>>

FillTag(s) ==
    /\ pc[s] = "filltag"
    /\ tag' = fetched[s].version
    /\ Return(s, fetched[s])
    /\ UNCHANGED <<published, answered, pack, fresh>>

\* Mutant: only the body is written under suppress(OSError).
WriteFailsTagged(s) ==
    /\ pc[s] = "replace"
    /\ Goto(s, "emptytag")
    /\ UNCHANGED <<published, answered, disk, cached, fetched, used>>

\* contextlib.suppress(OSError): a cache that cannot be written is left as it is.
WriteFails(s) ==
    /\ pc[s] \in {"replace", "emptytag", "filltag"}
    /\ Return(s, fetched[s])
    /\ UNCHANGED <<published, answered, disk>>

\* touch_cache, on the body file of that moment, or its failure.
Touch(s) ==
    /\ pc[s] = "touch"
    /\ fresh' \in {TRUE, fresh}
    /\ Return(s, cached[s].body)
    /\ UNCHANGED <<published, answered, pack, tag>>

-----------------------------------------------------------------------------
\* A scan is killed; what it left on disk stays.
Kill(s) ==
    /\ pc[s] # "idle"
    /\ Leave(s)
    /\ UNCHANGED <<published, answered, disk, used>>

\* A day goes by.  A scan that has just written the body does not take one.
Expire ==
    /\ fresh
    /\ \A s \in Scanners : pc[s] \notin {"emptytag", "filltag"}
    /\ fresh' = FALSE
    /\ UNCHANGED <<published, answered, pack, tag, pc, locals>>

Publish ==
    /\ published < MaxVersion
    /\ published' = published + 1
    /\ UNCHANGED <<answered, disk, pc, locals>>

Scan(s) ==
    \/ ReadPack(s) \/ ReadTag(s) \/ CheckAge(s) \/ NotModified(s) \/ Download(s)
    \/ DownloadFails(s) \/ Replace(s) \/ EmptyTag(s) \/ FillTag(s) \/ WriteFails(s)
    \/ Touch(s)

Next == Publish \/ Expire \/ \E s \in Scanners : Scan(s) \/ Kill(s)

Spec == Init /\ [][Next]_vars

(***************************************************************************)
(* Fairness: days go by, a scan goes on until it ends, the runner keeps    *)
(* scanning, and of the attempts to read, ask and write not all are killed *)
(* or fail.                                                                *)
(***************************************************************************)
Fairness ==
    /\ WF_vars(Expire)
    /\ \A s \in Scanners :
           /\ WF_vars(Scan(s))
           /\ SF_vars(ReadPack(s)) /\ SF_vars(ReadTag(s)) /\ SF_vars(CheckAge(s))
           /\ SF_vars(Download(s)) /\ SF_vars(Replace(s))
           /\ SF_vars(EmptyTag(s)) /\ SF_vars(FillTag(s))

FairSpec == Spec /\ Fairness

-----------------------------------------------------------------------------
(* Properties *)

TypeOK ==
    /\ published \in 1..MaxVersion
    /\ pack \in Bodies \cup {NoPack}
    /\ tag \in 0..MaxVersion
    /\ fresh \in BOOLEAN
    /\ pc \in [Scanners -> {"idle", "readtag", "age", "download", "replace", "emptytag",
                            "filltag", "touch"}]
    /\ cached \in [Scanners -> [body : Bodies \cup {NoPack}, tag : 0..MaxVersion]]
    /\ fetched \in [Scanners -> Bodies \cup {NoPack}]
    /\ used \in [Scanners -> Bodies \cup {NoPack}]
    /\ answered \subseteq Bodies

(***************************************************************************)
(* "a half-written pack read by the other one would be a corrupt-pack      *)
(* error rather than a clean miss" (write_cached_pack): whatever other     *)
(* scans and crashes do, a scan goes on with a body that a connection      *)
(* delivered as it is.  One that was cut short on the way is delivered,    *)
(* stored and used like any other.                                         *)
(***************************************************************************)
NeverHalfAPack == \A s \in Scanners : used[s] # NoPack => used[s] \in answered

(***************************************************************************)
(* "304 Not Modified: the cache is still correct, just stale-dated"        *)
(* (fetch_rule_pack): the body a scan is about to renew is, whole, the     *)
(* release whose tag the server confirmed.                                 *)
(***************************************************************************)
NotModifiedIsCorrect ==
    \A s \in Scanners :
        pc[s] = "touch" => cached[s].body = [version |-> cached[s].tag, whole |-> TRUE]

(***************************************************************************)
(* The same of the body on disk, which touch_cache makes a day younger: a  *)
(* wrong pair there is confirmed again and again.                          *)
(***************************************************************************)
RenewedIsCorrect ==
    \A s \in Scanners : pc[s] = "touch" /\ cached[s].body = pack =>
        pack = [version |-> cached[s].tag, whole |-> TRUE]

\* What correctness takes: no two scans at the cache at once, no answer cut short.
Alone        == \A s, t \in Scanners : pc[s] # "idle" /\ pc[t] # "idle" => s = t
WholeAnswers == \A b \in answered : b.whole

(***************************************************************************)
(* With scans that follow one another, killed or not, and whole answers,   *)
(* the confirmed release is the cached one: a tag left behind by a crash   *)
(* is never ahead of its body.                                             *)
(***************************************************************************)
AloneIsCorrect == []Alone /\ []WholeAnswers => []NotModifiedIsCorrect

(***************************************************************************)
(* Then, too, once the last release is out, the cache ends up holding it   *)
(* for good: a pack is revalidated after a day ("How long a cached pack is *)
(* used without revalidating", PACK_CACHE_TTL_SECONDS), and an answer is   *)
(* kept.                                                                   *)
(***************************************************************************)
CacheCatchesUp ==
    []Alone /\ []WholeAnswers /\ <>(published = MaxVersion)
        => <>[](pack = [version |-> MaxVersion, whole |-> TRUE])
=============================================================================
