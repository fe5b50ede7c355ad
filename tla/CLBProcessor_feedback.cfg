CONSTANTS
  h1 = h1
  h2 = h2
  Hosts = {h1, h2}
  MaxSend <- MCMaxSend
  VP_SIZE = 2
  SCALE = 1
  INIT_RRATE = 4
  TICKS_PER_SEC = 1
  T_REFRESH = 1
  T_RSSTIME = 1
  BURST_PKTCNT = 2
  QUEUE_SIZE = 5
  WORD = 32
  MaxLoss = 1
  MaxMarks = 2
  MaxNow = 1

SPECIFICATION Spec

INVARIANTS
  Accounting
  EchoOnce
  RowsTakeTurns

CHECK_DEADLOCK FALSE
