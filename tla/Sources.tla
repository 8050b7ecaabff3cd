------------------------------- MODULE Sources -------------------------------
(***************************************************************************)
(* Which files a scan reads, and which revision of each: diff/git.py,      *)
(* diff/local.py, diff/tfvars.py, diff/tfjson.py, cli/terraformscan.py.    *)
(* A revision is a function from paths to contents; Missing stands for a   *)
(* path that is not there.                                                 *)
(***************************************************************************)
EXTENDS Naturals, Sequences, FiniteSets

CONSTANTS
    Paths,       \* every path, in the order git and sorted() list them
    KindOf,      \* the kind of a path: "terraform", "terragrunt", ...
    DirOf,       \* the directory of a path
    Quoted,      \* the paths git prints in quotes (non-ASCII names)
    Missing      \* no file

Kinds == {"terraform", "terragrunt", "tfvars", "tfjson"}
Modes == {"refs", "staged", "uncommitted", "full"}
Root  == "."

PathSet == {Paths[i] : i \in DOMAIN Paths}

ASSUME PathsAssumption ==
    /\ Paths \in Seq(STRING)
    /\ \A i, j \in DOMAIN Paths : Paths[i] = Paths[j] => i = j
    /\ KindOf \in [PathSet -> Kinds] /\ DirOf \in [PathSet -> STRING]
    /\ Quoted \subseteq PathSet

Differs(before, after) == {p \in PathSet : before[p] # after[p]}

\* The pathspec **/terragrunt.hcl asks for a directory before the name.
PathspecMatches(kind, p) ==
    KindOf[p] = kind /\ ~(kind = "terragrunt" /\ DirOf[p] = Root)

\* Where the paths of a set stand among the first n.
Positions(chosen, n) == {i \in 1..n : Paths[i] \in chosen}

\* The paths of a set in their order: the k-th is the one k of them stand up to.
Ordered(chosen) ==
    LET all == Positions(chosen, Len(Paths))
    IN  [k \in 1..Cardinality(all) |->
            Paths[CHOOSE i \in all : Cardinality(Positions(chosen, i)) = k]]

\* git diff --name-only: a quoted name is no path any later call finds.
Listed(kind, changed) ==
    Ordered({p \in changed : PathspecMatches(kind, p) /\ p \notin Quoted})

\* git diff base...head starts at the merge base.
ChangedPaths(kind, repo) == Listed(kind, Differs(repo.fork, repo.head))

StagedPaths(kind, repo) == Listed(kind, Differs(repo.head, repo.index))

\* What differs from HEAD among the tracked files, then the untracked ones.
UncommittedPaths(kind, repo) ==
    LET tracked   == {p \in PathSet : repo.index[p] # Missing \/ repo.head[p] # Missing}
        untracked == {p \in PathSet : repo.index[p] = Missing /\ repo.disk[p] # Missing}
        changed   == Differs(repo.head, repo.disk) \cap tracked
    IN  Listed(kind, changed) \o Listed(kind, untracked \ changed)

\* rglob sees every file there is, whatever its name.
AllPaths(kind, repo) ==
    Ordered({p \in PathSet : KindOf[p] = kind /\ repo.disk[p] # Missing})

Select(mode, kind, repo) ==
    CASE mode = "staged"      -> StagedPaths(kind, repo)
      [] mode = "uncommitted" -> UncommittedPaths(kind, repo)
      [] mode = "full"        -> AllPaths(kind, repo)
      [] mode = "refs"        -> ChangedPaths(kind, repo)

\* The revision a mode reads as head.
HeadOf(mode, repo) ==
    CASE mode = "refs"   -> repo.head
      [] mode = "staged" -> repo.index
      [] OTHER           -> repo.disk

\* The revision a mode compares with: the tip of the base branch, though
\* the list of files starts at the merge base.
BaseOf(mode, repo) ==
    CASE mode = "refs" -> repo.tip
      [] mode = "full" -> repo.disk
      [] OTHER         -> repo.head

ReadFile(mode, p, repo) ==
    [path |-> p, head |-> HeadOf(mode, repo)[p], base |-> BaseOf(mode, repo)[p]]

\* Mutant: a deleted file is scanned.
AlwaysReadable(mode, p, repo) == TRUE

\* A file that is gone in head has nothing to scan.
Readable(mode, p, repo) == HeadOf(mode, repo)[p] # Missing

\* Listed and read in one step: what the listing of a kind comes to.
Collected(mode, kind, repo) ==
    LET paths == Select(mode, kind, repo)
    IN  {ReadFile(mode, paths[i], repo) :
            i \in {j \in DOMAIN paths : Readable(mode, paths[j], repo)}}
=============================================================================
