----------------------------- MODULE MCCardRows -----------------------------
(* Two processes, one of which nests its sections. *)
EXTENDS CardRows, TLC

CONSTANTS o1, o2

\* o1 enters the Card's section from inside another one.
Nested == (o1 :> {1, 2}) @@ (o2 :> {2})
=============================================================================
