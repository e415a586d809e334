CONSTANTS
  Rate = 3
  Bits = {"lo", "mid", "hi"}
  TopBit = "hi"
  Chunk <- MCChunk
  ShakeSep <- MCShakeSep
  Sha3Sep <- MCSha3Sep
  HashLen = 2
  MaxMsg = 7
  MaxOut = 8
  Garbage <- MCGarbage
SPECIFICATION FairSpec
INVARIANTS
  IInv
PROPERTIES
  Implements
  OneShotExact
  CallsReturn
