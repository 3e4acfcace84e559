SPECIFICATION Spec
CONSTANTS
  Threads = {t1, t2, t3}
  FirstLimit = 3
  Threshold = 5
  Estimates = {1, 2}
  Costs = {0, 2}
  TopCost = 2
  Amounts = {1, 2}
  MaxOps = 5
SYMMETRY Symmetric
INVARIANTS TopUpsAddUp OverdraftBounded AlarmOncePerLow
CHECK_DEADLOCK FALSE
