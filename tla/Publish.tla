------------------------------- MODULE Publish -------------------------------
(***************************************************************************)
(* Scans of one pull or merge request publishing what they found: the      *)
(* summary comment, found by its marker and replaced, and the inline       *)
(* suggestions, each posted once (cli/forges.py, githubpr.py, gitlabmr.py, *)
(* forge.py).  Every request is a step of its own.  People push and write  *)
(* comments in between; requests fail, and answers to requests that were   *)
(* carried out get lost.                                                   *)
(***************************************************************************)
EXTENDS Naturals, Sequences, FiniteSets

CONSTANTS
    Jobs,     \* pipelines that can run at the same time
    Hosts,    \* code hosts the request may be on
    Naming,   \* whether the environment names the scanned revision, or either
    Pushes,   \* bound: the revisions that get pushed, 1..Pushes
    Chats,    \* bound: the comments others write
    Room,     \* bound: the comments at which a list takes no more
    Fixes,    \* the fixes a scan of each revision proposes, in report order
    Diff,     \* the files of the request's diff at each revision, each by its lines
    Cap,      \* MAX_INLINE_SUGGESTIONS
    Page,     \* per_page: the entries in one page of a list
    Pages     \* _MAX_PAGES: the pages a client reads of a list

Markers == {fix.marker : fix \in UNION {{Fixes[r][i] : i \in DOMAIN Fixes[r]} : r \in 1..Pushes}}

ASSUME PublishAssumption ==
    /\ Hosts \subseteq {"github", "gitlab"} /\ Naming \subseteq BOOLEAN
    /\ Pushes \in Nat \ {0} /\ Chats \in Nat /\ Room \in Nat
    /\ Cap \in Nat /\ Page \in Nat /\ Pages \in Nat
    /\ DOMAIN Fixes = 1..Pushes /\ DOMAIN Diff = 1..Pushes
    /\ \A r \in 1..Pushes : DOMAIN Fixes[r] \subseteq Nat \ {0}

VARIABLES
    host,
    head,      \* the revision at the head of the request
    thread,    \* the comments, oldest first: r the summary of revision r, 0 any other
    inline,    \* the suggestions posted: [id, marker, from, named, at]
    ids,       \* how many review comments GitHub keeps apart from the thread
    chats,     \* how many comments others have written
    pc,        \* the request each job is about to send
    rev,       \* the revision a job scanned
    named,     \* whether it knows which revision that was
    found,     \* the comment it will replace, or 0
    at,        \* the head GitLab named in its diff_refs
    lines,     \* the lines it believes are in the diff
    batch      \* the fixes it has yet to post, as indexes of Fixes[rev]

forge == <<host, head, thread, inline, ids, chats>>
local == <<rev, named, found, at, lines, batch>>
vars  == <<forge, pc, local>>

Init ==
    /\ host \in Hosts /\ head = 1 /\ thread = <<>> /\ inline = {} /\ ids = 0 /\ chats = 0
    /\ pc = [j \in Jobs |-> "idle"]
    /\ rev = [j \in Jobs |-> 1] /\ named = [j \in Jobs |-> FALSE]
    /\ found = [j \in Jobs |-> 0] /\ at = [j \in Jobs |-> 1]
    /\ lines = [j \in Jobs |-> {}] /\ batch = [j \in Jobs |-> {}]

Goto(j, step) == pc' = [pc EXCEPT ![j] = step]

\* A process that has ended keeps nothing.
End(j) ==
    /\ Goto(j, "idle")
    /\ rev' = [rev EXCEPT ![j] = 1] /\ named' = [named EXCEPT ![j] = FALSE]
    /\ found' = [found EXCEPT ![j] = 0] /\ at' = [at EXCEPT ![j] = 1]
    /\ lines' = [lines EXCEPT ![j] = {}] /\ batch' = [batch EXCEPT ![j] = {}]

-----------------------------------------------------------------------------
(* Others *)

Push ==
    /\ head < Pushes
    /\ head' = head + 1
    /\ UNCHANGED <<host, thread, inline, ids, chats, pc, local>>

\* A comment on the request, or GitHub's other kind, one on a line of the diff.
Chat ==
    /\ chats < Chats
    /\ chats' = chats + 1
    /\ \/ Len(thread) < Room /\ thread' = Append(thread, 0) /\ UNCHANGED ids
       \/ host = "github" /\ ids < Room /\ ids' = ids + 1 /\ UNCHANGED thread
    /\ UNCHANGED <<host, head, inline, pc, local>>

-----------------------------------------------------------------------------
(***************************************************************************)
(* Lists.  A client reads a list page by page, GitHub's oldest first,      *)
(* GitLab's newest first, and no more than Pages of them; the search for   *)
(* GitHub's summary reads one.                                             *)
(***************************************************************************)
Reach        == Page * Pages
SummaryReach == IF host = "github" THEN Page ELSE Reach

\* Entry i of a list of n is among those that are read.
Listed(i, n, reach) == IF host = "github" THEN i <= reach ELSE n < i + reach

\* The list the suggestions are in: GitLab's discussions are notes of the thread.
Comments == IF host = "github" THEN ids ELSE Len(thread)

-----------------------------------------------------------------------------
(* The summary: post_to_pr, upsert_comment *)

\* A pipeline starts on the head of the request and scans it.
Start(j) ==
    /\ pc[j] = "idle"
    /\ rev' = [rev EXCEPT ![j] = head]
    /\ \E n \in Naming : named' = [named EXCEPT ![j] = n]
    /\ Goto(j, "find")
    /\ UNCHANGED <<forge, found, at, lines, batch>>

\* Mutant: the search stops at the last comment it should read.
MarkedButLast ==
    {i \in DOMAIN thread : thread[i] # 0 /\ Listed(i, Len(thread) + 1, SummaryReach - 1)}

\* The comments with the marker that the search reaches.
Marked == {i \in DOMAIN thread : thread[i] # 0 /\ Listed(i, Len(thread), SummaryReach)}

FirstListed(i, k) == IF host = "github" THEN i <= k ELSE i >= k

FindComment(j) ==
    /\ pc[j] = "find"
    /\ \/ /\ Marked = {}
          /\ found' = [found EXCEPT ![j] = 0]
       \/ \E i \in Marked :
              /\ \A k \in Marked : FirstListed(i, k)
              /\ found' = [found EXCEPT ![j] = i]
    /\ Goto(j, "write")
    /\ UNCHANGED <<forge, rev, named, at, lines, batch>>

\* A failure is a warning, and so is a lost answer: the suggestions follow.
WriteComment(j) ==
    /\ pc[j] = "write"
    /\ \/ UNCHANGED thread
       \/ found[j] = 0 /\ Len(thread) < Room /\ thread' = Append(thread, rev[j])
       \/ found[j] # 0 /\ thread' = [thread EXCEPT ![found[j]] = rev[j]]
    /\ found' = [found EXCEPT ![j] = 0]
    /\ Goto(j, "refs")
    /\ UNCHANGED <<host, head, inline, ids, chats, rev, named, at, lines, batch>>

-----------------------------------------------------------------------------
(* The suggestions: post_suggestions, of cli/forges.py and of each client *)

Offered(r) == {i \in DOMAIN Fixes[r] : i <= Cap}

\* _diff_refs, and the comparison with the revision that was scanned.
HeadIsScanned(j) == host = "gitlab" /\ named[j] => head = rev[j]

\* Mutant: a request that has no diff_refs yet is good enough.
CheckHeadTooSoon(j) ==
    /\ pc[j] = "refs" /\ Offered(rev[j]) # {}
    /\ HeadIsScanned(j)
    /\ at' = [at EXCEPT ![j] = 0]
    /\ Goto(j, "lines")
    /\ UNCHANGED <<forge, rev, named, found, lines, batch>>

\* Mutant: diff_refs are used without comparing them.
CheckHeadNever(j) ==
    /\ pc[j] = "refs" /\ Offered(rev[j]) # {}
    /\ at' = [at EXCEPT ![j] = head]
    /\ Goto(j, "lines")
    /\ UNCHANGED <<forge, rev, named, found, lines, batch>>

CheckHead(j) ==
    /\ pc[j] = "refs" /\ Offered(rev[j]) # {}
    /\ HeadIsScanned(j)
    /\ at' = [at EXCEPT ![j] = head]
    /\ Goto(j, "lines")
    /\ UNCHANGED <<forge, rev, named, found, lines, batch>>

\* Nothing to offer, a head that has moved on since the scan, or nothing left.
OfferNothing(j) ==
    /\ \/ pc[j] = "refs" /\ (Offered(rev[j]) = {} \/ ~HeadIsScanned(j))
       \/ pc[j] = "post" /\ batch[j] = {}
    /\ End(j)
    /\ UNCHANGED forge

\* The lines of the files of a revision's diff that a client reads.
InDiff(r) == UNION {Diff[r][f] : f \in {f \in DOMAIN Diff[r] : f <= Reach}}

\* _commentable_lines: the diff as it is now.
ReadLines(j) ==
    /\ pc[j] = "lines"
    /\ lines' = [lines EXCEPT ![j] = InDiff(head)]
    /\ Goto(j, "existing")
    /\ UNCHANGED <<forge, rev, named, found, at, batch>>

\* Mutant: what earlier scans posted is not looked up.
PayloadAnew(r, inDiff, existing) ==
    {i \in Offered(r) : /\ \A k \in 1..i - 1 : Fixes[r][k].marker # Fixes[r][i].marker
                        /\ Fixes[r][i].lines \subseteq inDiff}

\* Mutant: a fix outside the diff ends the loop.
PayloadToFirstOutside(r, inDiff, existing) ==
    {i \in Offered(r) : /\ Fixes[r][i].marker \notin existing
                        /\ \A k \in 1..i : Fixes[r][k].lines \subseteq inDiff}

\* What the loop over the comments keeps.  A marker counts as seen as soon as
\* the loop has met it, whether or not its lines were in the diff.
Payload(r, inDiff, existing) ==
    {i \in Offered(r) : /\ Fixes[r][i].marker \notin existing
                        /\ \A k \in 1..i - 1 : Fixes[r][k].marker # Fixes[r][i].marker
                        /\ Fixes[r][i].lines \subseteq inDiff}

\* The markers of the suggestions among the comments a client reads.
Existing == {s.marker : s \in {s \in inline : Listed(s.id, Comments, Reach)}}

ReadExisting(j) ==
    /\ pc[j] = "existing"
    /\ batch' = [batch EXCEPT ![j] = Payload(rev[j], lines[j], Existing)]
    /\ lines' = [lines EXCEPT ![j] = {}]
    /\ Goto(j, "post")
    /\ UNCHANGED <<forge, rev, named, found, at>>

\* Any of these requests fails: the search for the comment, which leaves the
\* suggestions to be tried, or one of theirs, which ends them.
RequestFails(j) ==
    /\ \/ pc[j] = "find" /\ Goto(j, "refs") /\ UNCHANGED local
       \/ pc[j] \in {"refs", "lines", "existing", "post"} /\ End(j)
    /\ UNCHANGED forge

\* GitLab positions name the head of diff_refs, GitHub's review names the
\* scanned commit; without one it is about the head of the request.
Anchor(j) == IF host = "gitlab" THEN at[j] ELSE IF named[j] THEN rev[j] ELSE head

Comment(j, i, id) ==
    [id |-> id, marker |-> Fixes[rev[j]][i].marker, from |-> rev[j], named |-> named[j],
     at |-> Anchor(j)]

Rank(i, S) == Cardinality({k \in S : k <= i})

\* GitHub takes the batch as one review.
PostReview(j) ==
    /\ pc[j] = "post" /\ batch[j] # {} /\ host = "github" /\ ids < Room
    /\ inline' = inline \cup {Comment(j, i, ids + Rank(i, batch[j])) : i \in batch[j]}
    /\ ids' = ids + Cardinality(batch[j])
    /\ End(j)
    /\ UNCHANGED <<host, head, thread, chats>>

\* GitLab takes one discussion at a time, each a note of the thread.
Discuss(j, i) ==
    /\ Len(thread) < Room /\ \A k \in batch[j] : i <= k
    /\ thread' = Append(thread, 0)
    /\ inline' = inline \cup {Comment(j, i, Len(thread) + 1)}

PostDiscussion(j) ==
    /\ pc[j] = "post" /\ host = "gitlab"
    /\ \E i \in batch[j] : Discuss(j, i) /\ batch' = [batch EXCEPT ![j] = @ \ {i}]
    /\ Goto(j, IF batch'[j] = {} THEN "note" ELSE "post")
    /\ UNCHANGED <<host, head, ids, chats, rev, named, found, at, lines>>

\* A lost answer ends the loop.
DiscussionAnswerLost(j) ==
    /\ pc[j] = "post" /\ host = "gitlab"
    /\ \E i \in batch[j] : Discuss(j, i)
    /\ End(j)
    /\ UNCHANGED <<host, head, ids, chats>>

\* The summary of the batch, a plain note without the marker.
PostNote(j) ==
    /\ pc[j] = "note"
    /\ UNCHANGED thread \/ (Len(thread) < Room /\ thread' = Append(thread, 0))
    /\ End(j)
    /\ UNCHANGED <<host, head, inline, ids, chats>>

-----------------------------------------------------------------------------
\* The pipeline is cancelled.
Kill(j) ==
    /\ pc[j] # "idle"
    /\ End(j)
    /\ UNCHANGED forge

Step(j) ==
    \/ Start(j) \/ FindComment(j) \/ WriteComment(j) \/ CheckHead(j) \/ OfferNothing(j)
    \/ ReadLines(j) \/ ReadExisting(j) \/ PostReview(j) \/ PostDiscussion(j) \/ PostNote(j)
    \/ DiscussionAnswerLost(j) \/ RequestFails(j)

Next == Push \/ Chat \/ \E j \in Jobs : Step(j) \/ Kill(j)

Spec == Init /\ [][Next]_vars

(***************************************************************************)
(* Fairness: pipelines keep being run and end, and requests of each kind   *)
(* that are tried again and again succeed some time.                       *)
(***************************************************************************)
Fairness ==
    \A j \in Jobs :
        /\ WF_vars(Step(j))
        /\ SF_vars(FindComment(j)) /\ SF_vars(WriteComment(j)) /\ SF_vars(CheckHead(j))
        /\ SF_vars(ReadLines(j)) /\ SF_vars(ReadExisting(j))
        /\ SF_vars(PostReview(j)) /\ SF_vars(PostDiscussion(j))

FairSpec == Spec /\ Fairness

-----------------------------------------------------------------------------
(* Properties *)

TypeOK ==
    /\ host \in Hosts /\ head \in 1..Pushes
    /\ thread \in Seq(0..Pushes)
    /\ inline \subseteq [id : Nat, marker : Markers, from : 1..Pushes, named : BOOLEAN,
                    at : 1..Pushes]
    /\ ids \in Nat /\ chats \in 0..Chats
    /\ pc \in [Jobs -> {"idle", "find", "write", "refs", "lines", "existing", "post", "note"}]
    /\ named \in [Jobs -> BOOLEAN]
    /\ rev \in [Jobs -> 1..Pushes] /\ at \in [Jobs -> 1..Pushes]
    /\ found \in [Jobs -> Nat] /\ \A j \in Jobs : found[j] <= Len(thread)
    /\ lines \in [Jobs -> {{}} \cup {InDiff(r) : r \in 1..Pushes}]
    /\ batch \in [Jobs -> SUBSET Nat]

\* When comment k was posted, comment i was not among those a client read.
Buried(i, k, reach) == i < k /\ IF host = "github" THEN i > reach ELSE k > i + reach

(***************************************************************************)
(* The request never carries two summaries ("Replace the PR comment        *)
(* containing marker, or create one if absent", upsert_comment).           *)
(***************************************************************************)
OneSummary == \A i, k \in DOMAIN thread : thread[i] # 0 /\ thread[k] # 0 => i = k

(***************************************************************************)
(* What upsert_comment does keep to, whatever fails and whatever answer is *)
(* lost on the way: a second summary is written only where the first had   *)
(* got out of the search's reach, off GitHub's first page or behind        *)
(* GitLab's last _MAX_PAGES pages.                                         *)
(***************************************************************************)
OneSummaryInReach ==
    \A i, k \in DOMAIN thread :
        thread[i] # 0 /\ thread[k] # 0 /\ i < k => Buried(i, k, SummaryReach)

(***************************************************************************)
(* No suggestion is posted again while the one before is among the         *)
(* comments the client reads ("the only defence against stacking           *)
(* duplicates on every push", forge.py), over pushes, retries, lost        *)
(* answers and batches that stopped half way.  Past _MAX_PAGES pages of    *)
(* comments it is: both clients stop reading there.                        *)
(***************************************************************************)
NoDuplicateSuggestion ==
    \A s, t \in inline :
        s.marker = t.marker /\ s # t => Buried(s.id, t.id, Reach) \/ Buried(t.id, s.id, Reach)

(***************************************************************************)
(* A suggestion replaces lines of the revision it was computed from: when  *)
(* a scan knows which one it read, nothing it posts is anchored to another *)
(* that was pushed while it ran ("merge request head moved", gitlabmr.py). *)
(***************************************************************************)
AnchoredWhereScanned == \A s \in inline : s.named => s.at = s.from

AllOffered(r) ==
    \A i \in Offered(r) : Fixes[r][i].lines \subseteq InDiff(r) =>
        \E s \in inline : s.marker = Fixes[r][i].marker

\* The list of the suggestions takes no more.
Crowded == Comments >= Room

(***************************************************************************)
(* "suggestions skipped, the next pipeline will post them" (gitlabmr.py):  *)
(* when the pushing stops, every fix within the cap whose lines are in the *)
(* diff, as far as the client reads it, is on the request in the end.      *)
(***************************************************************************)
EveryFixOffered == <>[](AllOffered(head) \/ Crowded)
=============================================================================
