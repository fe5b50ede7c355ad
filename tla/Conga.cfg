SPECIFICATION FairSpec
CONSTANTS
  a = a
  b = b
  Leaves = {a, b}
  Talk <- Pairs
  slots_ <- Slots
  Degrees = {0, 1}
  MaxTransit = 2
INVARIANTS Provenance
PROPERTIES Settles
