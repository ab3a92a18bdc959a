----------------------------- MODULE MCPlacement -----------------------------
(* Module Placement on small instances: pods of one size, on nodes alike. *)
EXTENDS Placement, TLC

PodTotal == [S \in SUBSET Pods |-> Cardinality(S)]

Alike == Permutations(Nodes) \cup Permutations(Pods)
=============================================================================
