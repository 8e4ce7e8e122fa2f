---------------------------- MODULE MCCoordinate ----------------------------
(* Instances of Coordinate for TLC. *)
EXTENDS Coordinate, TLC

CONSTANTS a, b, other

\* a and b run the same command, other runs a different one under the same key.
OneKey == (a :> "first") @@ (b :> "first") @@ (other :> "second")
Symmetry == Permutations({a, b})
\* A behaviour is followed up to the first answer that frees the key without proof.
UpToOver == ~over
=============================================================================
