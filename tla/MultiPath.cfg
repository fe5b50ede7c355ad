SPECIFICATION Spec
CONSTANTS
  f1 = f1
  f2 = f2
  f3 = f3
  Flows = {f1, f2, f3}
  crc <- Hash
  ecmpHashKey <- HashKeys
  SLOTS = 2
  Keys = {0, 1, 3}
  T_FLOWLET = 1
  MaxDelay = 4
  MaxTransit = 3
INVARIANTS OvertakenByGap
