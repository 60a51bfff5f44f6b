SPECIFICATION Spec
CONSTANTS
  M1 = 1
  M2 = 2
  T = 3
  Streams <- MCStreams
INVARIANTS
  SplitIrrelevant
CHECK_DEADLOCK FALSE
