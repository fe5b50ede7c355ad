SPECIFICATION RrFairSpec
CONSTANTS
  VP_SIZE = 3
  SCALE = 2
  INIT_RRATE = 6
  Rates = {0, 1, 3, 8}
  MaxChanges = 3
INVARIANTS LoopIsChosen NearlyGreatest DebtBounded
PROPERTIES NoStarvation
