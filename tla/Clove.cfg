SPECIFICATION FairSpec
CONSTANTS
  VP_SIZE = 2
  SCALE = 2
  RecvPaths = {k1, k2}
  CLOVE_WI = 6
  HOLD_OFF = 0
  T_WEIGHT_EXPIRE = 1
  T_VP_EXPIRE = 0
INVARIANTS EchoJustified ReportedInTurn
PROPERTIES MarksKept LossesSpaced Recovers
