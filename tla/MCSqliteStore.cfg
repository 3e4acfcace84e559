SPECIFICATION Spec
CONSTANTS
  old = old
  other = other
  Threads = {t1, t2}
  Records = {old, other}
  Keys = {"global", "user"}
  Rank <- MCRank
  KeysOf <- MCKeysOf
  Stamp <- MCStamp
  MaxRecords = 1
  AgeChoices = {0}
  MaxCalls = 2
  MaxTime = 1
  MaxFaults = 2
  MaxRestarts = 1
SYMMETRY Symmetric
INVARIANTS TypeOK ReturnedIsDurable ReturnedIsCharged
PROPERTIES NeverTotalsMonotone
