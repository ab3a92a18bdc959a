---------------------------- MODULE MCKeyedCalls ----------------------------
(* KeyedCalls with two requests.  The names of instances and of calls do not *)
(* matter, so the first request comes to i1 for c1, and the other anywhere   *)
(* for anything.                                                             *)
EXTENDS KeyedCalls, TLC

CONSTANTS i1, c1, q1, q2

OneAndAny == (q1 :> {<<i1, c1>>}) @@ (q2 :> Instances \X Calls)
=============================================================================
