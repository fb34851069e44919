\* Two wrapped secrets, for two golden states and for this device's key or
\* another, reach one caller: mixed parts, wrong keys, truncated slots.
CONSTANTS
  None = None
  c1 = c1
  Callers = {c1}
  h1 = h1
  h2 = h2
  ObjectHandles = {h1, h2}
  t1 = t1
  SessionHandles = {t1}
  s1 = s1
  s2 = s2
  Secrets = {s1, s2}
  own = own
  other = other
  Keys = {own, other}
  OwnKey = own
  d1 = d1
  Digests = {d1}
  PCRs <- EdgePCRs
  Selections <- EdgeSelections
  Golden <- BootStates
  MaxDigests = 8
  MaxUpdates = 1
SYMMETRY HandleSymmetry
SPECIFICATION Spec
INVARIANT SealedStateUnseals
PROPERTY ImplementsVault
