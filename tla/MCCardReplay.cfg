SPECIFICATION Spec
CONSTANTS
  a = a
  b = b
  t1 = t1
  t2 = t2
  Cards = {a}
  Txns = {t1, t2}
  NoTxn = none
  Target <- SameTarget
  Reads <- NoReads
  Effects <- OneEffect
  MaxRev = 2
PROPERTIES ResumeOnlyOverBefore
CHECK_DEADLOCK FALSE
