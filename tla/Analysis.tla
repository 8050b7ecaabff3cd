------------------------------ MODULE Analysis ------------------------------
(***************************************************************************)
(* One scan of a repository other people keep changing, from the listing   *)
(* of the files to the corrections written back: collect_findings of       *)
(* cli/pipeline.py over Sources, Engine and PlanRules, and                 *)
(* cli/autofix.py.  Every git call and every read of a file is a step of   *)
(* its own, so the repository can change between any two of them.          *)
(***************************************************************************)
EXTENDS PlanRules

CONSTANTS
    Contents,    \* what a file can hold (see Engine)
    Torn,        \* what a write that failed leaves behind
    Corrections, \* what the correction service can answer
    Worlds,      \* the repositories a scan can find
    Jobs,        \* [mode, plan, threshold, ignored, autofix, post]
    Edits        \* for TLC: how often the files are changed

ASSUME ContentsAssumption ==
    /\ Missing \notin Contents /\ Torn \in Contents
    /\ Corrections \subseteq {c \in Contents : c.parses}
ASSUME EditsAssumption == Edits \in Nat

\* A file names a resource by its type and its name, a plan gives the modules
\* and instance keys with them.
ASSUME AddressesAssumption ==
    /\ \A c \in Contents : c.parses =>
           \A a \in Managed(c.resources) :
               a \in Address /\ Len(a) = 2 /\ KeyedPositions(a) = {}
    /\ \A j \in Jobs : \A c \in j.plan : c.address \in Address /\ Len(c.address) >= 2

Revision == [PathSet -> Contents \cup {Missing}]
Repository == [tip : Revision, fork : Revision, head : Revision,
               index : Revision, disk : Revision]

ASSUME WorldsAssumption == Worlds \subseteq Repository
ASSUME JobsAssumption ==
    \A j \in Jobs : /\ j.mode \in Modes /\ j.threshold \in Nat
                    /\ j.autofix \in BOOLEAN /\ j.post \in BOOLEAN

VARIABLES
    repo,        \* tip of the base branch, merge base, HEAD, index, working tree
    edits,       \* how often it was changed
    pc, job,
    todo,        \* the paths listed and not read yet
    files,       \* the ChangedFiles
    at,          \* the file the engine is at
    scopes, pins,   \* ScopeCache, by directory
    raised,      \* what the rules raised
    changed,     \* changed attributes by address
    findings,    \* what is left of it, and of the plan
    sources,     \* autofix: the contents by path
    queue,       \* the files still to correct
    fixing,      \* [path, text]: the correction under way
    fixes,       \* the files a correction was proposed for
    seen,        \* history: the repository when it was listed
    moved,       \* history: it changed while it was read
    late         \* history: an edit after the last look at the file

scanning == <<job, todo, files, at, scopes, pins, raised, changed, findings>>
fixed    == <<sources, queue, fixing, fixes>>
history  == <<seen, moved, late>>
vars     == <<repo, edits, pc, scanning, fixed, history>>

Empty     == [d \in {} |-> NoScope]
NoFixing  == [path |-> "", text |-> Missing]
NoJob     == [mode |-> "full", plan |-> {}, threshold |-> 0, ignored |-> {},
              autofix |-> FALSE, post |-> FALSE]

AtRest ==
    /\ todo = <<>> /\ files = <<>> /\ at = 1
    /\ scopes = Empty /\ pins = Empty
    /\ raised = {} /\ changed = Empty /\ findings = {}
    /\ sources = Empty /\ queue = {} /\ fixing = NoFixing /\ fixes = {}

Init ==
    /\ repo \in Worlds /\ edits = 0
    /\ pc = "idle" /\ job = NoJob /\ AtRest
    /\ seen = repo /\ moved = FALSE /\ late = FALSE

-----------------------------------------------------------------------------
(* Other people.  A change is seen by the steps that read the repository,  *)
(* so it is enough to allow it before those.                               *)

Reading == {"list", "read", "inspect", "others"}

Change(r) ==
    /\ pc \in Reading \cup {"idle", "propose", "confirm", "check", "write"}
    /\ edits < Edits /\ edits' = edits + 1
    /\ repo' = r
    /\ moved' = (moved \/ pc \in Reading)
    /\ UNCHANGED <<pc, scanning, fixed, seen>>

Edit(p, c) ==
    /\ c # repo.disk[p]
    /\ Change([repo EXCEPT !.disk[p] = c])
    /\ late' = (late \/ (pc = "write" /\ p = fixing.path))

Stage(p) ==
    /\ repo.index[p] # repo.disk[p]
    /\ Change([repo EXCEPT !.index[p] = repo.disk[p]])
    /\ UNCHANGED late

Commit ==
    /\ repo.head # repo.index
    /\ Change([repo EXCEPT !.head = repo.index])
    /\ UNCHANGED late

\* Another request is merged: the tip of the base branch moves on.
BaseMoves(p, c) ==
    /\ c # repo.tip[p]
    /\ Change([repo EXCEPT !.tip[p] = c])
    /\ UNCHANGED late

-----------------------------------------------------------------------------
(* collect_findings *)

Goto(step) == pc' = step

StartScan(j) ==
    /\ pc = "idle"
    /\ job' = j
    /\ Goto("list")
    /\ moved' = FALSE
    /\ UNCHANGED <<repo, edits, todo, files, at, scopes, pins, raised, changed,
                   findings, fixed, seen, late>>

\* A git call fails, or the plan cannot be read: the scan ends.
Fail ==
    /\ pc \in {"list", "plan", "others", "propose"} /\ (pc = "plan" => job.plan # {})
    /\ Goto("ended")
    /\ UNCHANGED <<repo, edits, scanning, fixed, history>>

ListFiles ==
    /\ pc = "list"
    /\ todo' = Select(job.mode, "terraform", repo)
    /\ seen' = repo
    /\ Goto("read")
    /\ UNCHANGED <<repo, edits, job, files, at, scopes, pins, raised, changed,
                   findings, fixed, moved, late>>

ReadNext ==
    /\ pc = "read" /\ todo # <<>>
    /\ todo' = Tail(todo)
    /\ files' = IF Readable(job.mode, Head(todo), repo)
                THEN Append(files, ReadFile(job.mode, Head(todo), repo)) ELSE files
    /\ Goto(IF Tail(todo) = <<>> THEN "inspect" ELSE "read")
    /\ UNCHANGED <<repo, edits, job, at, scopes, pins, raised, changed, findings,
                   fixed, history>>

NothingToRead ==
    /\ pc = "read" /\ todo = <<>>
    /\ Goto("inspect")
    /\ UNCHANGED <<repo, edits, scanning, fixed, history>>

\* Mutant: one scope for the whole repository.
OneScope(cache, dir, scope) == IF DOMAIN cache # {} THEN [d \in DOMAIN cache \cup {dir} |->
                                   cache[CHOOSE e \in DOMAIN cache : TRUE]] ELSE dir :> scope

Cached(cache, dir, value) ==
    [d \in DOMAIN cache \cup {dir} |-> IF d \in DOMAIN cache THEN cache[d] ELSE value]

\* The loop of run: caches, rules, changed attributes, for one file.
InspectNext ==
    /\ pc = "inspect" /\ at <= Len(files)
    /\ LET file == files[at]
           dir  == DirOf[file.path]
       IN  /\ scopes' = Cached(scopes, dir,
                               build_scope(ScopeFiles(file.path, file.head, repo.disk)))
           /\ pins' = Cached(pins, dir, ConstraintIn(dir, files, repo.disk))
           /\ raised' = raised \cup FindingsIn(file, scopes'[dir])
           /\ changed' = ChangedIn(file, scopes'[dir], changed)
    /\ at' = at + 1
    /\ UNCHANGED <<repo, edits, pc, job, todo, files, findings, fixed, history>>

\* The tail of run.
Judge ==
    /\ pc = "inspect" /\ at > Len(files)
    /\ findings' = DropSilenced(DropContradicted(raised, pins), files, job.ignored)
    /\ Goto("plan")
    /\ UNCHANGED <<repo, edits, job, todo, files, at, scopes, pins, raised, changed,
                   fixed, history>>

\* _merge_plan_findings; without a plan the list stays as it is.
ReadPlan ==
    /\ pc = "plan"
    /\ findings' = IF job.plan = {} THEN findings
                   ELSE MergePlan(findings, run_plan_rules(job.plan, changed, job.threshold,
                                                           job.ignored))
    /\ Goto("others")
    /\ UNCHANGED <<repo, edits, job, todo, files, at, scopes, pins, raised, changed,
                   fixed, history>>

\* scan_terragrunt, scan_tfvars and report_terraform_json.
FindingsOutside(file) ==
    IF KindOf[file.path] = "tfjson"
    THEN {Finding("unsupported_file_format", file.path, <<>>, <<>>, "medium")}
    ELSE IF ~file.head.parses
    THEN {Finding("unparsable_file", file.path, <<>>, <<>>, "high")}
    ELSE {Finding("tfvars_credential_name", file.path, <<>>, <<s>>, "critical") :
            s \in file.head.secrets}

OtherFiles(mode, r) ==
    UNION {Collected(mode, kind, r) : kind \in Kinds \ {"terraform"}}

Others ==
    /\ pc = "others"
    /\ findings' = findings \cup {f \in UNION {FindingsOutside(file) :
                                                 file \in OtherFiles(job.mode, repo)} :
                                    f.rule \notin job.ignored}
    /\ Goto(IF job.autofix THEN "propose" ELSE "ended")
    /\ UNCHANGED <<repo, edits, job, todo, files, at, scopes, pins, raised, changed,
                   fixed, history>>

-----------------------------------------------------------------------------
(* cli/autofix.py *)

Rank == [critical |-> 4, high |-> 3, medium |-> 2, low |-> 1]

WorstIn(p) ==
    LET ranks == {Rank[f.severity] : f \in {g \in findings : g.file = p}}
    IN  CHOOSE r \in ranks : \A s \in ranks : s <= r

\* The source is collected a second time.
Propose ==
    /\ pc = "propose"
    /\ LET again == Collected(job.mode, "terraform", repo)
           paths == {file.path : file \in again}
       IN  /\ sources' = [p \in paths |-> (CHOOSE file \in again : file.path = p).head]
           /\ queue' = {f.file : f \in findings} \cap paths
    /\ Goto("request")
    /\ UNCHANGED <<repo, edits, scanning, fixing, fixes, history>>

\* One file is done, or the loop is left: the first error ends it.
NextFile(p) == queue' = queue \ {p} /\ Goto("request")
Break == UNCHANGED queue /\ Goto("ended")

\* request_fix: the service answers with a file that parses, or it fails.
Request(p, text) ==
    /\ pc = "request"
    /\ p \in queue /\ \A q \in queue : WorstIn(q) <= WorstIn(p)
    /\ \/ Break /\ UNCHANGED <<fixing, fixes>>
       \/ text = sources[p] /\ NextFile(p) /\ UNCHANGED <<fixing, fixes>>
       \/ /\ text # sources[p]
          /\ fixes' = fixes \cup {p}
          /\ IF job.post THEN NextFile(p) /\ UNCHANGED fixing
             ELSE fixing' = [path |-> p, text |-> text] /\ UNCHANGED queue /\ Goto("confirm")
    /\ UNCHANGED <<repo, edits, scanning, sources, history>>

NothingToFix ==
    /\ pc = "request" /\ queue = {}
    /\ Goto("ended")
    /\ UNCHANGED <<repo, edits, scanning, fixed, history>>

\* accept_local: no terminal, "no", end of input, or "yes".
Confirm ==
    /\ pc = "confirm"
    /\ \/ NextFile(fixing.path)
       \/ Break
       \/ UNCHANGED queue /\ Goto("check")
    /\ UNCHANGED <<repo, edits, scanning, sources, fixing, fixes, history>>

\* Mutant: the file is not compared with the source once more.
CheckNothing ==
    /\ pc = "check"
    /\ UNCHANGED queue /\ Goto("write")
    /\ late' = FALSE
    /\ UNCHANGED <<repo, edits, scanning, sources, fixing, fixes, seen, moved>>

Check ==
    /\ pc = "check"
    /\ UNCHANGED queue
    /\ Goto(IF repo.disk[fixing.path] = sources[fixing.path] THEN "write" ELSE "ended")
    /\ late' = FALSE
    /\ UNCHANGED <<repo, edits, scanning, sources, fixing, fixes, seen, moved>>

\* write_bytes truncates the file before it fills it.
Write ==
    /\ pc = "write"
    /\ \/ repo' = [repo EXCEPT !.disk[fixing.path] = fixing.text] /\ NextFile(fixing.path)
       \/ repo' \in {repo, [repo EXCEPT !.disk[fixing.path] = Torn]} /\ Break
    /\ UNCHANGED <<edits, scanning, sources, fixing, fixes, history>>

Elsewhere ==
    \/ \E p \in PathSet, c \in Contents \cup {Missing} : Edit(p, c) \/ BaseMoves(p, c)
    \/ \E p \in PathSet : Stage(p)
    \/ Commit

Scan ==
    \/ Fail \/ ListFiles \/ ReadNext \/ NothingToRead \/ InspectNext \/ Judge
    \/ ReadPlan \/ Others \/ Propose
    \/ \E p \in PathSet, c \in Corrections : Request(p, c)
    \/ NothingToFix \/ Confirm \/ Check \/ Write

Next == (\E j \in Jobs : StartScan(j)) \/ Scan \/ Elsewhere

Spec == Init /\ [][Next]_vars

-----------------------------------------------------------------------------
(* Properties *)

(***************************************************************************)
(* What is listed, read, raised and corrected keeps its type: the files    *)
(* have the revision that is scanned, and only those are corrected.        *)
(***************************************************************************)
TypeOK ==
    /\ repo \in Repository /\ seen \in Repository
    /\ edits \in 0 .. Edits
    /\ pc \in {"idle", "list", "read", "inspect", "plan", "others", "propose",
               "request", "confirm", "check", "write", "ended"}
    /\ job \in Jobs \cup {NoJob}
    /\ todo \in Seq(PathSet)
    /\ files \in Seq([path : PathSet, head : Contents, base : Contents \cup {Missing}])
    /\ at \in Nat \ {0} /\ at <= Len(files) + 1
    /\ queue \subseteq DOMAIN sources
    /\ DOMAIN sources \subseteq PathSet
    /\ \A p \in DOMAIN sources : sources[p] \in Contents
    /\ fixing = NoFixing \/ fixing \in [path : DOMAIN sources, text : Contents]
    /\ fixes \subseteq DOMAIN sources
    /\ moved \in BOOLEAN /\ late \in BOOLEAN

Judged == pc \in {"others", "propose", "request", "confirm", "check", "write"}

\* What the request itself is about: from the merge base to head.
Before(p) == (IF job.mode = "refs" THEN seen.fork ELSE BaseOf(job.mode, seen))[p]
After(p)  == HeadOf(job.mode, seen)[p]

\* The repository held still while it was read.
Still == Judged /\ ~moved

\* The base branch has not left the merge base.
Current == job.mode = "refs" => seen.tip = seen.fork

BothParse(p) ==
    Before(p) # Missing /\ After(p) # Missing /\ Before(p).parses /\ After(p).parses

Both(p) == Managed(After(p).resources) \cap DOMAIN Before(p).resources

\* A value written out on both sides and not the same, or one that came from
\* a variable, whose old value nobody can tell.
MayDiffer(before, after) ==
    \/ before.ref # ""
    \/ after.ref = "" /\ after.text # before.text

\* The attributes whose change replaces the resource, at the top and in the
\* blocks there is one of.
Replacing(p, a) ==
    LET head == After(p).resources[a]
        base == Before(p).resources[a]
        One(t) == Cardinality(BlocksOf(head, t)) = 1 /\ Cardinality(BlocksOf(base, t)) = 1
    IN  IF head.type \notin DOMAIN Schema THEN {}
        ELSE {<<n>> : n \in {m \in Schema[head.type].top \cap DOMAIN head.attrs
                                       \cap DOMAIN base.attrs :
                               MayDiffer(base.attrs[m], head.attrs[m])}}
             \cup UNION {{<<t, n>> :
                  n \in {m \in Schema[head.type].nested[t] \cap DOMAIN FindBlock(head, t)
                                  \cap DOMAIN FindBlock(base, t) :
                           MayDiffer(FindBlock(base, t)[m], FindBlock(head, t)[m])}} :
                  t \in {b \in DOMAIN Schema[head.type].nested : One(b)}}

Silenced(p) ==
    \/ "force_new_change" \in job.ignored \cup After(p).ignored
    \/ \E q \in PathSet : /\ DirOf[q] = DirOf[p]
                          /\ \E c \in {After(q), seen.disk[q]} : c # Missing /\ c.pin = "out"

Reported(p, a, where) ==
    \E f \in findings :
        \/ f.rule = "force_new_change" /\ f.file = p /\ f.address = a /\ f.where = where
        \/ f.rule = "confirmed_replace" /\ bare_resource_address(f.address) = a

(***************************************************************************)
(* "Flag changes to ForceNew attributes on resources that existed in the   *)
(* base revision" (rules/schema_checks.py:84), from end to end: whatever   *)
(* the mode, a change to such an attribute between the two revisions of a  *)
(* file is in the findings, or the plan's confirmation of it is.  It needs *)
(* a base branch that still is where the request left it (Current).        *)
(***************************************************************************)
ForceNewReported ==
    Still /\ Current =>
        \A p \in PathSet \ Quoted :
            KindOf[p] = "terraform" /\ Before(p) # After(p) /\ BothParse(p) /\ ~Silenced(p) =>
                \A a \in Both(p) : \A w \in Replacing(p, a) : Reported(p, a, w)

\* The working tree has the revision under review beside the file.
InStep(p) ==
    \A q \in PathSet : DirOf[q] = DirOf[p] /\ KindOf[q] = "terraform" => After(q) = seen.disk[q]

AttrAt(resource, where) ==
    IF Len(where) = 1 THEN resource.attrs[where[1]] ELSE FindBlock(resource, where[1])[where[2]]

(***************************************************************************)
(* A change reported at full severity is one: the old value was written    *)
(* out, and the new one, with the defaults of its own directory put in, is *)
(* another.  "resolving it against the head directory's locals would       *)
(* compare a before value to an after scope" (rules/engine.py:158).        *)
(***************************************************************************)
ConfidentChangesAreReal ==
    Still /\ Current =>
        \A f \in findings :
            f.rule = "force_new_change" /\ f.severity # "low" /\ InStep(f.file) =>
                LET old == AttrAt(Before(f.file).resources[f.address], f.where)
                    new == attr_to_attribute(
                               AttrAt(After(f.file).resources[f.address], f.where),
                               build_scope(ScopeFiles(f.file, After(f.file), seen.disk)))
                IN  old.ref = "" /\ new.literal /\ new.value # old.text

(***************************************************************************)
(* A change called drift is not one the request makes ("sensitive          *)
(* attribute updates in the plan that the Terraform source diff did not    *)
(* change", rules/plan.py:138), as far as an address belongs to one file   *)
(* and carries at most one instance key.                                   *)
(***************************************************************************)
TypeAndName(addr) ==
    <<Segment(addr[Len(addr) - 1].name), Segment(addr[Len(addr)].name)>>

Holders(a) ==
    {i \in DOMAIN files : files[i].head.parses /\ a \in DOMAIN files[i].head.resources}

DriftIsElsewhere ==
    Still /\ Current =>
        \A f \in {g \in findings : /\ g.rule = "unexpected_drift"
                                   /\ Cardinality(KeyedPositions(g.address)) <= 1} :
            LET a == TypeAndName(f.address)
            IN  \A i \in Holders(a) :
                    Holders(a) = {i} /\ a \in DOMAIN BaseResources(files[i]) =>
                        LET new == files[i].head.resources[a].attrs
                            old == files[i].base.resources[a].attrs
                            n   == f.where[1]
                        IN  /\ n \in DOMAIN new <=> n \in DOMAIN old
                            /\ n \in DOMAIN new =>
                                   ~(new[n].ref = "" /\ old[n].ref = "" /\ new[n].text # old[n].text)

(***************************************************************************)
(* Only a ForceNew finding gives way to the plan, and only to a finding of *)
(* the plan that is in the report about a resource of that type and name   *)
(* (deduplicate_force_new_against_plan): all else the rules raised stays,  *)
(* unless it was silenced or the pinned provider contradicts it.           *)
(***************************************************************************)
OnlyReplacementsGiveWay ==
    Judged =>
        \A f \in raised :
            \/ f \in findings
            \/ f \notin DropSilenced(DropContradicted(raised, pins), files, job.ignored)
            \/ /\ f.rule = "force_new_change"
               /\ \E g \in findings :
                     /\ g.rule = "confirmed_replace"
                     /\ bare_resource_address(g.address) = bare_resource_address(f.address)

(***************************************************************************)
(* "Show the diff and write it after confirmation, provided the source has *)
(* not changed" (cli/autofix.py:68): what a correction overwrites is what  *)
(* it was computed from, however long the user looked at the diff, but for *)
(* an edit that falls between the last look at the file and the write.     *)
(***************************************************************************)
NoEditOverwritten ==
    [][pc = "write" /\ pc' # "write" /\ repo' # repo
           => repo.disk[fixing.path] = sources[fixing.path] \/ late]_vars
=============================================================================
