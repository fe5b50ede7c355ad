SPECIFICATION FairSpec
CONSTANTS
  QUEUE_SIZE = 7
  WORD = 32
  MaxSeq = 7
  MaxLoss = 0
PROPERTIES ImplementsChannel
CHECK_DEADLOCK FALSE
