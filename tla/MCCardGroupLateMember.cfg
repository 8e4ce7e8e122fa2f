SPECIFICATION Spec
CONSTANTS
  N = 3
  HasEffect = TRUE
INVARIANTS EveryMemberFenceIsIndexed
CHECK_DEADLOCK FALSE
