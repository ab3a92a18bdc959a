--------------------------- MODULE MCHibernations ---------------------------
(* Module Hibernations on small instances: two calls that may share their id. *)
EXTENDS Hibernations, TLC
CONSTANTS h1, h2, i1, i2
TwoIds == h1 :> i1 @@ h2 :> i2
=============================================================================
