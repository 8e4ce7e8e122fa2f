SPECIFICATION Spec
CONSTANTS
  Sweepers = {s1, s2}
  MaxRev = 4
  MaxRun = 3
SYMMETRY MCSymmetry
INVARIANTS NoOldAuthority
CHECK_DEADLOCK FALSE
CONSTRAINT NoReads
