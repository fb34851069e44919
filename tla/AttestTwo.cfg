\* Two verifiers, two nonces, two quotes of which some may be another device's,
\* one reading: replays, mixtures and late answers around measurements and resets.
CONSTANTS
  None = None
  v1 = v1
  v2 = v2
  Verifiers = {v1, v2}
  n1 = n1
  n2 = n2
  Nonces = {n1, n2}
  h1 = h1
  ObjectHandles = {h1}
  SessionHandles = {}
  Secrets = {}
  own = own
  other = other
  Keys = {own, other}
  OwnKey = own
  d1 = d1
  Digests = {d1}
  PCRs <- EdgePCRs
  Selections <- EdgeSelections
  OtherStates <- OtherBoot
  MaxDigests = 8
  MaxUpdates = 1
  MaxReadings = 1
  MaxQuotes = 2
SYMMETRY Symmetry
SPECIFICATION Spec
INVARIANTS TypeOK SteadyReportVerifies
PROPERTY ImplementsAttestation
