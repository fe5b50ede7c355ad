SPECIFICATION LinkSpec
CONSTANTS
  Sizes = {1, 3}
  Delays = {1, 4}
  T_DRE = 5
  MAX_CE = 3
INVARIANTS InOrder NotHeldBack RegisterBounded FullSeen IdleForgotten
