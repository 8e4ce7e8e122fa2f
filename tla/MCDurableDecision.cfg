SPECIFICATION Spec
CONSTANTS
  Txns = {t1}
  Participants = {p1, p2}
  Workers = {w1, w2}
  Witnesses = {x1, x2}
  NoWitness = none
  NoParticipant = nobody
  Expiries = {1}
  MaxTime = 1
  Recoverer = w1
SYMMETRY MCSymmetry
INVARIANTS IndInv Atomicity CommitIsHeld FinishedMeansClosed AnswersAgree
PROPERTIES ImplementsAtomicCommit
CHECK_DEADLOCK FALSE
