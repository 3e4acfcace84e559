SPECIFICATION FairSpec
CONSTANTS
  Threads = {t1, t2}
  Timers = {x1, x2}
  BatchSizes = {1, 2}
  FlushInterval = 1
  Throttle = 2
  Sinks = {"slack", "generic"}
  MaxRecords = 4
INVARIANTS NothingStranded ThrottleHolds
PROPERTY ImplementsOutbox
CHECK_DEADLOCK FALSE
