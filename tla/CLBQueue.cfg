CONSTANTS
  KEYS = 3
  QLIM = 3
  ECN_THRESHOLD = 2
  Limits = {1}
  MaxPkts = 5

SPECIFICATION FairSpec

INVARIANTS TypeOK NeverAtBegin FairTurns Accounted Signalled
PROPERTIES NothingStuck NoneOverlooked
CHECK_DEADLOCK FALSE
