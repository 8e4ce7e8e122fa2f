SPECIFICATION Spec
CONSTANTS
  Sweepers = {s1}
  MaxRev = 3
  MaxRun = 2
INVARIANTS NoOldAuthority
CHECK_DEADLOCK FALSE
