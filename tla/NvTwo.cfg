\* Two callers, one index, one retry.
CONSTANTS
  c1 = c1
  c2 = c2
  Callers = {c1, c2}
  RetryLimit = 1
  Backoff = 2
  i1 = i1
  Indices = {i1}
  Offsets = {0, 1}
  Data <- FewData
  Sizes = {2}
  Erased = Erased
  None = None
SPECIFICATION NvSpec
INVARIANTS NvTypeOK
PROPERTY ImplementsMemory
