CONSTANTS
  Unit = 3
  PerUnit = 2
  BlockBytes = 4
  FirstBlocks = 1
  Carry = TRUE
  N = 3
  Streams <- MCStreams
  MaxSq = 12
SPECIFICATION FairSpec
INVARIANT IInv
PROPERTIES
  Implements
  Terminates
