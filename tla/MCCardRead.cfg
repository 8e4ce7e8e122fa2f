SPECIFICATION ReadSpec
CONSTANTS
  a = a
  t1 = t1
  t2 = t2
  Cards = {a}
  Txns = {t1, t2}
  NoTxn = none
  Target <- SameTarget
  Reads <- NoReads
  Effects <- EachEffect
  MaxRev = 3
SYMMETRY MCSymmetry
CONSTRAINT NoOverrun
INVARIANTS ReadReturnsCommitted ReadIsCurrent CommitIsKept CommitCanFinish
PROPERTIES StageOnlyOverBefore
CHECK_DEADLOCK FALSE
