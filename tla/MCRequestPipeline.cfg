SPECIFICATION Spec
CONSTANTS
  Calls = {c1, c2, c3}
  Budgets = {"global", "user"}
  Limit <- MCLimit
  Windowed = {"global"}
  Contracts = 2
  MaxCost <- MCMaxCost
  Kinds <- MCKinds
  Configs <- MCConfigs
  Estimates = {1}
  Costs = {2}
  TopCost = 2
  MaxCalls = 4
  MaxMishaps = 1
SYMMETRY Symmetric
INVARIANTS OverspendBounded NoSilentOverrun EveryAnswerRecorded ContractsChargedAlike
CHECK_DEADLOCK FALSE
