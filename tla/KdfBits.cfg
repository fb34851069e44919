\* Both functions, every length up to 40 bits, digests of two octets.
CONSTANTS
  None = None
  DigestSize = 2
  Hash <- Checksum
  Derivations <- AllDerivations
SPECIFICATION Spec
INVARIANTS TypeOK FirstBits
CHECK_DEADLOCK FALSE
