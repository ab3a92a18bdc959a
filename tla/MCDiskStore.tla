----------------------------- MODULE MCDiskStore -----------------------------
(* Module DiskStore on small instances; nodes are alike if all of them sweep. *)
EXTENDS DiskStore, TLC

Symmetry == Permutations(Chunks) \cup Permutations(Nodes)
=============================================================================
