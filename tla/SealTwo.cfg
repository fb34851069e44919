\* Two callers, one sealed secret: interleavings of the unsealing chain with
\* measurements, crashes and resets; three object and two session slots.
CONSTANTS
  None = None
  c1 = c1
  c2 = c2
  Callers = {c1, c2}
  h1 = h1
  h2 = h2
  h3 = h3
  ObjectHandles = {h1, h2, h3}
  t1 = t1
  t2 = t2
  SessionHandles = {t1, t2}
  s1 = s1
  Secrets = {s1}
  own = own
  Keys = {own}
  OwnKey = own
  d1 = d1
  Digests = {d1}
  PCRs <- EdgePCRs
  Selections <- EdgeSelections
  Golden <- NoStates
  MaxDigests = 8
  MaxUpdates = 2
SYMMETRY Symmetry
SPECIFICATION Spec
INVARIANTS TypeOK CallsOwnHandles SealedStateUnseals SlotsSpent
PROPERTY ImplementsVault
