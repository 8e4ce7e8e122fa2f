SPECIFICATION Spec
CONSTANTS
  a = a
  b = b
  t1 = t1
  t2 = t2
  Cards = {a, b}
  Txns = {t1, t2}
  NoTxn = none
  Target <- CrossTarget
  Reads <- CrossReads
  Effects <- OneEffect
  MaxRev = 2
INVARIANTS HistoryCommitted FinishedHoldsNothing FenceIsIndexed
PROPERTIES CommitOnPlannedState
CHECK_DEADLOCK FALSE
