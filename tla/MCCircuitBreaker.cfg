SPECIFICATION FairSpec
CONSTANTS
  Callers = {c1, c2, c3}
  Threshold = 2
  Recovery = 1
  Modes = {"asyncio", "threads"}
INVARIANTS OpensOnFailuresOnly OpensOnConsecutiveFailures
PROPERTIES OpenEnds
