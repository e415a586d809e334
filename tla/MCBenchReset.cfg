CONSTANTS
  Range32 = 8
  Durations = {1, 3}
  MaxCalls = 4
SPECIFICATION MCSpec
INVARIANTS CountersReset
