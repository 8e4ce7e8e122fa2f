SPECIFICATION Spec
CONSTANTS
  a = a
  b = b
  other = other
  Calls = {a, b, other}
  Wants <- OneKey
  MaxLeases = 2
SYMMETRY Symmetry
CONSTRAINT UpToOver
INVARIANTS QueuedIsRegistered HeldWhileItMayApply OutcomesAreTrue
PROPERTIES AppliedIsFinal
CHECK_DEADLOCK FALSE
