--------------------------- MODULE MCCardReadSet ---------------------------
(* Two read sets that share a Card. *)
EXTENDS CardReadSet, TLC

CONSTANTS a, b, t1, t2

SharedHolds == (t1 :> {a, b}) @@ (t2 :> {b})
=============================================================================
