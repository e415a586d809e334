CONSTANTS
  Letters = {"a", "b"}
  Msgs <- MCMsgs
  Ctxs = {"c1", "c2"}
  L = 2
  Range16 = 8
  MaxTries = 3
  MaxCalls = 3
SPECIFICATION Spec
INVARIANTS Released OpenExact FreshY
CHECK_DEADLOCK FALSE
