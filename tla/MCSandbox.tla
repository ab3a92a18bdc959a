----------------------------- MODULE MCSandbox -----------------------------
(* Module Sandbox on small instances.  Instances, nodes, op ids and the slots
   of the readers and of the tombstones under way are interchangeable; the
   runs of the liveness properties do without the symmetry. *)
EXTENDS Sandbox, TLC

Symmetry ==
    Permutations(Instances) \cup Permutations(Nodes) \cup Permutations(OpIds)
        \cup Permutations(Lookers) \cup Permutations(Reapers)

=============================================================================
