----------------------------- MODULE MCPackCache -----------------------------
(* Instances of PackCache: scans are interchangeable. *)
EXTENDS PackCache, TLC

Interchangeable == Permutations(Scanners)
=============================================================================
