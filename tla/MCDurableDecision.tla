------------------------- MODULE MCDurableDecision -------------------------
(* Instances of DurableDecision for TLC. *)
EXTENDS DurableDecision, TLC

CONSTANT Recoverer   \* the worker whose recovery passes are fair

MCSymmetry == Permutations(Participants) \cup Permutations(Workers)

\* Liveness is asked with one recovery worker that never stops for good.
MCFairSpec == Spec /\ RecoveryFairness(Recoverer)
=============================================================================
