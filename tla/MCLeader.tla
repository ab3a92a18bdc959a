------------------------------ MODULE MCLeader ------------------------------
(* Leader for TLC: instances and sessions are interchangeable.              *)
EXTENDS Leader, TLC

Sym == Permutations(Instance) \union Permutations(Tx)
=============================================================================
