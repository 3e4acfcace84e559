SPECIFICATION MonitorFairSpec
CONSTANTS
  Users = {"u1", "u2"}
  Collectors = {"k1", "k2", "k3"}
  Keep = 2
  MaxSamples = 2
  MaxCalls = 5
INVARIANTS InOrder OneCollector
PROPERTY StoppedForGood
CHECK_DEADLOCK FALSE
