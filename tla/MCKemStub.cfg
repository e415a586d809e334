CONSTANTS
  Slots = {k1, k2}
  SymBytes = 1
  Errors = {"e"}
  MaxDraw = 7
  MaxDec = 2
SPECIFICATION KemSpec
INVARIANT FreshCoins
CHECK_DEADLOCK FALSE
