\* Two goroutines and two credentials: interleavings of the activation chain with
\* slices that arrive late, again and not together, lost responses, crashes and
\* resets; two object and two session slots.
CONSTANTS
  None = None
  c1 = c1
  c2 = c2
  Callers = {c1, c2}
  h1 = h1
  h2 = h2
  ObjectHandles = {h1, h2}
  t1 = t1
  t2 = t2
  SessionHandles = {t1, t2}
  s1 = s1
  s2 = s2
  Credentials = {s1, s2}
  Secrets = {}
  own = own
  other = other
  Keys = {own, other}
  OwnKey = own
  Digests = {}
  MaxDigests = 0
  PCRs <- NoPCRs
  Publics <- SomePublics
SYMMETRY Symmetry
SPECIFICATION Spec
INVARIANTS TypeOK CallsOwnSessions SameDeviceActivates SlotsSpent
PROPERTY ImplementsActivation
