------------------------- MODULE MCCardTransaction -------------------------
(* Instances of CardTransaction for TLC. *)
EXTENDS CardTransaction, TLC

CONSTANTS a, b, t1, t2

\* t1 changes a and depends on b; t2 changes b.
CrossTarget == (t1 :> a) @@ (t2 :> b)
CrossReads == (t1 :> {b}) @@ (t2 :> {})

\* Both change a.
SameTarget == (t1 :> a) @@ (t2 :> a)
NoReads == (t1 :> {}) @@ (t2 :> {})

\* One transaction alone, among ordinary writers.
LoneTarget == t1 :> a
LoneReads == t1 :> {b}
LoneEffect == t1 :> {"e"}

\* t1 carries one effect.
OneEffect == (t1 :> {"e"}) @@ (t2 :> {})
=============================================================================
