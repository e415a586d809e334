CONSTANTS
  Q = 3329
  QInv <- MCQInv
  Half = 32768
  Shift = 67108864
  N = 256
  Lens <- MCLens
  Zetas <- MCZetas
  K = 2
  Eta = 3
  Stored = 4095
  Mont2 = 1353
  F = 1441
  Root = 17
  Inputs <- MCInputs
  Formats = {1, 4, 5, 10, 11, 12}
  Groups <- MCGroups
  Waves <- MCWaves
SPECIFICATION MCSpec
INVARIANTS IInv NoOverflow ProductRight Rounded Survives Recovered
CHECK_DEADLOCK FALSE
