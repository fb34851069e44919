\* Every command of the library, three secrets (empty, shorter and longer than a
\* digest), three ephemeral keys.
CONSTANTS
  None = None
  DigestSize = 4
  Hash <- Checksum
  Prime = 509
  Numbers <- DeviceNumbers
  Ephemerals <- FewEphemerals
  Secrets <- ThreeSecrets
  PCRValues <- Values
SPECIFICATION Spec
INVARIANTS Understood NoneRefused SecretsIntact
