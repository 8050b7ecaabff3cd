--------------------------------- MODULE Trees -------------------------------
(***************************************************************************)
(* Recursion over a tree whose nodes hold their parts: an operator that    *)
(* calls itself on the parts of a node is the combination of what it makes *)
(* of them.  A place in a tree is the sequence of positions that leads to  *)
(* it from the root.                                                       *)
(***************************************************************************)
EXTENDS Naturals, Sequences

\* The nodes on the way along a path, the root first.
Way(root, Parts(_), path) ==
    LET node[n \in 0 .. Len(path)] ==
            IF n = 0 THEN root ELSE Parts(node[n - 1])[path[n]]
    IN  node

NodeAt(root, Parts(_), path) == Way(root, Parts, path)[Len(path)]

Paths(root, Parts(_)) ==
    {path \in Seq(Nat) :
        \A n \in DOMAIN path : path[n] \in DOMAIN Parts(Way(root, Parts, path)[n - 1])}

FoldTree(Combine(_, _), Parts(_), root) ==
    LET of[path \in Paths(root, Parts)] ==
            LET node == NodeAt(root, Parts, path)
            IN  Combine(node, [k \in DOMAIN Parts(node) |-> of[Append(path, k)]])
    IN  of[<<>>]
=============================================================================
