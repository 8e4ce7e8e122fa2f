--------------------------- MODULE MCCardServing ---------------------------
EXTENDS CardServing, TLC

MCSymmetry == Permutations(Sweepers)

\* Nothing is claimed once a write that came too late has changed the key.
NotRevived == ~revived

\* For MCCardServingOldRepair.cfg, whose behaviour needs no read-through.
NoReads == reader.at = "idle"
============================================================================
