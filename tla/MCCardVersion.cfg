SPECIFICATION Spec
CONSTANTS
  t1 = t1
  t2 = t2
  x1 = x1
  Cards = {1, 2}
  Txns = {t1, t2, x1}
  NoTxn = none
  Members <- GroupMembers
  Reads <- GroupReads
  Effects <- GroupEffects
  Undoes <- GroupUndoes
  MaxLocal = 2
INVARIANTS PublishedIsKept StartedPublicationCompletes ServedIsFinal NothingRemains PublishedIsFinal
PROPERTIES CompensatesExactly
