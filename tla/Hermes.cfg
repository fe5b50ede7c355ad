SPECIFICATION Spec
CONSTANTS
  k1 = k1
  VP_SIZE = 2
  Flows = {f1}
  RecvPaths = {k1}
  Arrivals <- Packets
  Rtts = {0, 20, 30}
  Ratios <- SomeRatios
  TH_RTT_LOW = 10
  TH_RTT_HIGH = 15
  DELTA_RTT = 2
  TH_ECN <- ThEcn
  DELTA_ECN <- DeltaEcn
  ECN_PCNT = 2
  T_RTT_EXPIRE = 1
  T_ECN_EXPIRE = 2
  T_VP_EXPIRE = 3
  RATE_R = 1
  MaxUndefined = 1
INVARIANTS NoReturn RttFresh MarksFade
