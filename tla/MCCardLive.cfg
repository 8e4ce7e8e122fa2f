SPECIFICATION FairSpec
CONSTANTS
  a = a
  b = b
  t1 = t1
  t2 = t2
  Cards = {a, b}
  Txns = {t1}
  NoTxn = none
  Target <- LoneTarget
  Reads <- LoneReads
  Effects <- LoneEffect
  MaxRev = 2
PROPERTIES DecidedIsFinished
CHECK_DEADLOCK FALSE
