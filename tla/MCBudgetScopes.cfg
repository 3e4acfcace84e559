SPECIFICATION ScopeSpec
CONSTANTS
  Requests <- MCRequests
  Rules <- MCRules
  Expected = {0}
  Prices = {1}
  Mondays = {1}
  Firsts = {2}
  LastDay = 2
  MaxRecords = 2
INVARIANT SpendsAgree
PROPERTIES ChargedOnlyWithRoom FallsOnlyAtRollOver
CHECK_DEADLOCK FALSE
