----------------------------- MODULE MCCardRead -----------------------------
(* One Card, two transactions one after the other, and a reader. *)
EXTENDS CardRead, TLC

CONSTANTS a, t1, t2

SameTarget == (t1 :> a) @@ (t2 :> a)
NoReads == (t1 :> {}) @@ (t2 :> {})
EachEffect == (t1 :> {"e"}) @@ (t2 :> {"e"})
MCSymmetry == Permutations({t1, t2})

\* Behind an overrun only ReadReturnsCommitted says anything; the run does not go further.
NoOverrun == overrun = {}
=============================================================================
