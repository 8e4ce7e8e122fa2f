SPECIFICATION Spec
CONSTANTS
  N = 3
  HasEffect = TRUE
INVARIANTS GroupIsOneChange EffectBeforeServing MemberFenceIsIndexed FinishedGroupIsClosed
CHECK_DEADLOCK FALSE
