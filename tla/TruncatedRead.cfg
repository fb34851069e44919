\* One digest fits in a reply and two PCRs are selected: the read returns a
\* part of the selection, and the secret sealed to it is never given out.
CONSTANTS
  None = None
  c1 = c1
  Callers = {c1}
  h1 = h1
  h2 = h2
  ObjectHandles = {h1, h2}
  t1 = t1
  SessionHandles = {t1}
  s1 = s1
  Secrets = {s1}
  own = own
  Keys = {own}
  OwnKey = own
  d1 = d1
  Digests = {d1}
  PCRs <- EdgePCRs
  Selections <- WideSelections
  Golden <- NoStates
  MaxDigests = 1
  MaxUpdates = 1
SPECIFICATION Spec
INVARIANT SealedStateUnseals
