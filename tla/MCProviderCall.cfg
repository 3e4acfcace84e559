SPECIFICATION FairSpec
CONSTANTS
  Callers = {"t1", "t2"}
  Token = 2
  Rates = {1, 2, 3}
  MaxRetries = 1
  RetryDelay = 1
INVARIANT LimitBounded
PROPERTY CallReturns
