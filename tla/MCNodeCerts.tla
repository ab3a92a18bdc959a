---------------------------- MODULE MCNodeCerts ----------------------------
(* Module NodeCerts on small instances: the name's machine and one that takes its place. *)
EXTENDS NodeCerts, TLC
CONSTANTS m1, m2, open, pin, none
OneToken == m1 :> open @@ m2 :> none
=============================================================================
