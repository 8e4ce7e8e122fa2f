SPECIFICATION ReaderSpec
CONSTANTS
  o1 = o1
  o2 = o2
  Ops = {o1, o2}
  NoOp = none
  Keys = {1, 2}
  Takes <- Nested
  RowKey = 2
  MaxToken = 3
  MaxDoc = 2
PROPERTIES MarkerReadIsCurrent
