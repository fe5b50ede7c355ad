SPECIFICATION Spec
CONSTANTS
  QUEUE_SIZE = 2
  WORD = 32
  MaxSeq = 3
  MaxLoss = 0
PROPERTIES ReleasedInOrder
CHECK_DEADLOCK FALSE
