\* One caller with the code's own retry limit and backoff.
CONSTANTS
  c1 = c1
  Callers = {c1}
  RetryLimit = 6
  Backoff = 2
SPECIFICATION FairSpec
PROPERTY EveryCallReturns
