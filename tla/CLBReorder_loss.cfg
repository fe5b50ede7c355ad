SPECIFICATION Spec
CONSTANTS
  QUEUE_SIZE = 3
  WORD = 32
  MaxSeq = 7
  MaxLoss = 2
INVARIANTS Window NoConflict Conserved InOrder
PROPERTIES StallEnds
CHECK_DEADLOCK FALSE
