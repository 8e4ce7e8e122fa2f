-------------------------- MODULE MCRecoveryPaging --------------------------
(* Instances of RecoveryPaging for TLC. *)
EXTENDS RecoveryPaging
=============================================================================
