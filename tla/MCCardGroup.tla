---------------------------- MODULE MCCardGroup ----------------------------
(* A card group of three members for TLC. *)
EXTENDS CardGroup
=============================================================================
