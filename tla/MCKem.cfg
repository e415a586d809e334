CONSTANTS
  Slots = {k1, k2}
  SymBytes = 1
  Errors = {"e"}
  MaxDraw = 7
  MaxDec = 2
SPECIFICATION KemSpec
INVARIANTS
  SecretShared
  Rejects
  NoByteTwice
CHECK_DEADLOCK FALSE
