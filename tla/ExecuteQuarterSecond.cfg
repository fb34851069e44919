\* The documented total of the pauses, against the code's own constants.
CONSTANTS
  c1 = c1
  Callers = {c1}
  RetryLimit = 6
  Backoff = 2
SPECIFICATION Spec
INVARIANT GivesUpAfterAQuarterSecond
