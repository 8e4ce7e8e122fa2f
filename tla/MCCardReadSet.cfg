SPECIFICATION Spec
CONSTANTS
  a = a
  b = b
  t1 = t1
  t2 = t2
  Cards = {a, b}
  Txns = {t1, t2}
  NoTxn = none
  Holds <- SharedHolds
  Written = {b}
  MaxRev = 2
INVARIANTS ReadFenceIsIndexed FinishedHoldsNothing
PROPERTIES CommitOnReadState
CHECK_DEADLOCK FALSE
