SPECIFICATION MCFairSpec
CONSTANTS
  Txns = {t1}
  Participants = {p1, p2}
  Workers = {w1}
  Witnesses = {x1}
  NoWitness = none
  NoParticipant = nobody
  Expiries = {1}
  MaxTime = 1
  Recoverer = w1
PROPERTIES EventuallyClosed
CHECK_DEADLOCK FALSE
