\* Two callers share a device; a small retry limit, reached by both.
CONSTANTS
  c1 = c1
  c2 = c2
  Callers = {c1, c2}
  RetryLimit = 2
  Backoff = 2
SYMMETRY CallerSymmetry
SPECIFICATION Spec
INVARIANTS TypeOK OutcomeTruthful BackoffAccounting
PROPERTY PromiseKept
