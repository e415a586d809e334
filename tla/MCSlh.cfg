CONSTANTS
  A = 3
  K = 2
  W = 3
  Len1 = 2
  Len2 = 2
  HP = 2
  D = 2
  MaxCalls = 3
  Digests <- MCDigests
  Deals <- MCDeals
  Base = 16
  Blk = 8
  LenSz = 2
  DigLen = 3
  N = 2
  HeadLen = 2
  MaxChain = 3
  MaxMsg = 15
  Chunk <- MCChunk
  Garbage <- MCGarbage
  Hmsgs <- MCHmsgs
SPECIFICATION MCSpec
INVARIANTS NodesRight Agreed OneTime NoDominance HashRight
CHECK_DEADLOCK FALSE
