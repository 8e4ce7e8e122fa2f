SPECIFICATION Spec
CONSTANTS
  a = a
  b = b
  other = other
  Calls = {a, b, other}
  Wants <- OneKey
  MaxLeases = 2
SYMMETRY Symmetry
INVARIANTS OnlyProofFrees
CHECK_DEADLOCK FALSE
