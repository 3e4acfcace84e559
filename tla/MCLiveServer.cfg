SPECIFICATION LiveFairSpec
CONSTANTS
  LogHooks = {"log1", "log2"}
  Recorders = {r1, r2}
  Clients = {c1}
  Cap = 1
  MaxDepth = 2
  MaxNotes = 2
  MaxOps = 4
INVARIANTS AppHookRuns ChainIsStack
PROPERTY StopReturns
CHECK_DEADLOCK FALSE
