SPECIFICATION Spec
CONSTANTS
  Callers = {c1, c2}
  Budgets = {"global", "user"}
  Limit <- MCLimit
  Windowed = {"user"}
  Contracts = 2
  MaxCost <- MCMaxCost
  Ways = {"record", "usage", "track"}
  Kinds <- MCKinds
  Configs <- MCConfigs
  Estimates = {0, 1}
  Costs = {2}
  TopCost = 2
  MaxCalls = 3
  MaxMishaps = 1
SYMMETRY Symmetric
INVARIANTS BilledOnce OverspendBounded SecondRecordOnlyForHook NoSilentOverrun EveryRecordReachesContracts
CHECK_DEADLOCK FALSE
