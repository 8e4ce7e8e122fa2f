SPECIFICATION Spec
CONSTANTS
  Sweepers = {s1, s2}
  MaxRev = 3
  MaxRun = 2
SYMMETRY MCSymmetry
CONSTRAINT NotRevived
INVARIANTS EntryIsAcknowledged
CHECK_DEADLOCK FALSE
