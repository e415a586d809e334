CONSTANTS
  Q = 449
  QInv = 3649
  Half = 16384
  Shift = 512
  N = 32
  Lens <- MCLens
  Zetas <- MCZetas
  L = 2
  D = 64
  F = 213
  Small = 1
  Root = 24
  Inputs <- MCInputs
  Places = 5
  K = 2
  OMEGA = 3
  Ws <- MCWs
  CS2 <- MCCS2
  CT0 <- MCCT0
SPECIFICATION MCSpec
INVARIANTS IInv NoOverflow ProductRight OneEncoding RoundTrip HintRecovers HighKept
CHECK_DEADLOCK FALSE
