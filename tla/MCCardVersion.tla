--------------------------- MODULE MCCardVersion ---------------------------
(* Instances of CardVersion for TLC. *)
EXTENDS CardVersion, TLC

CONSTANTS t1, t2, x1

\* t1 moves both Cards and x1 undoes it; t2 writes one of them and reads the other.
GroupMembers == (t1 :> {1, 2}) @@ (t2 :> {1}) @@ (x1 :> {1, 2})
GroupReads == (t1 :> {}) @@ (t2 :> {2}) @@ (x1 :> {})
GroupEffects == (t1 :> 2) @@ (t2 :> 1) @@ (x1 :> 0)
GroupUndoes == (t1 :> NoTxn) @@ (t2 :> NoTxn) @@ (x1 :> t1)
=============================================================================
