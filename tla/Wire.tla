-------------------------------- MODULE Wire --------------------------------
(***************************************************************************)
(* The wire forms the library writes, as sequences of octets: the size-    *)
(* prefixed buffer and integers of package common (outside the             *)
(* repository), PCR selection lists (pcr.go), and the public areas the     *)
(* device echoes (attest.go, ek.go, seal.go, nv.go).                       *)
(***************************************************************************)
EXTENDS Integers, Sequences, SequencesExt

Octet == 0..255

\* Big-endian integers and the TPM2B buffer, of package common.
PutU16(n) == <<(n \div 256) % 256, n % 256>>
PutU32(n) == PutU16(n \div 65536) \o PutU16(n)
MarshalTPM2B(x) == PutU16(Len(x)) \o x

algNull   == PutU16(16)     \* 0x0010
algSHA256 == PutU16(11)     \* 0x000B
algAES    == PutU16(6)
algCFB    == PutU16(67)
AlgECC    == PutU16(35)
AlgECDSA  == PutU16(24)
AlgRSASSA == PutU16(20)
algKeyedHash == PutU16(8)
NistP256  == PutU16(3)
Empty     == PutU16(0)      \* a TPM2B of size 0
-----------------------------------------------------------------------------
(* PCR selections.                                                         *)

pcrSelectSize == 3

\* The octet with these bits set.
OctetOf(bits) ==
  LET bit(k) == IF k \in bits THEN 2^k ELSE 0
  IN bit(0) + bit(1) + bit(2) + bit(3) + bit(4) + bit(5) + bit(6) + bit(7)

\* PCR n is bit n % 8 of octet n \div 8; other indices are ignored.
bitmap(pcrs) ==
  [i \in 1..pcrSelectSize |-> OctetOf({k \in 0..7 : 8 * (i - 1) + k \in pcrs})]

\* Mutant of pcrsFromBitmap: the PCRs are counted from one.
pcrsFromBitmap_FromOne(b) ==
  {n - 1 : n \in {n \in 0..(8 * Len(b) - 1) :
                    (b[n \div 8 + 1] \div 2^(n % 8)) % 2 = 1}}

\* The indices a bitmap of any length selects.
pcrsFromBitmap(b) ==
  {n \in 0..(8 * Len(b) - 1) : (b[n \div 8 + 1] \div 2^(n % 8)) % 2 = 1}

marshalPCRSelectionList(sel) ==
  PutU32(Len(sel)) \o
  FlattenSeq([i \in DOMAIN sel |->
                sel[i].hash \o <<pcrSelectSize>> \o bitmap(sel[i].pcrs)])
-----------------------------------------------------------------------------
(* Public areas.  The library sends them with an empty unique field and the *)
(* device echoes them with the point (x, y) it generated.                   *)

\* The bits of object attributes and those of the templates.
objFixedTPM            == 1
objFixedParent         == 4
objSensitiveDataOrigin == 5
objUserWithAuth        == 6
objAdminWithPolicy     == 7
objRestricted          == 16
objDecrypt             == 17
objSign                == 18

Primary == {objFixedTPM, objFixedParent, objSensitiveDataOrigin, objRestricted}
akObjectAttributes      == Primary \cup {objUserWithAuth, objSign}
ekObjectAttributes      == Primary \cup {objAdminWithPolicy, objDecrypt}
storageObjectAttributes == Primary \cup {objUserWithAuth, objDecrypt}
sealObjectAttributes    == {objFixedTPM, objFixedParent}
importSealAttributes    == {}

\* A 32-bit mask, big-endian.
Attributes(bits) ==
  [i \in 1..4 |-> OctetOf({k \in 0..7 : 8 * (4 - i) + k \in bits})]

ECCPoint(x, y) == MarshalTPM2B(x) \o MarshalTPM2B(y)

\* The attestation key: no symmetric cipher, ECDSA with SHA-256.
marshalECCAKPublic(x, y) ==
  MarshalTPM2B(AlgECC \o algSHA256 \o Attributes(akObjectAttributes) \o Empty
               \o algNull \o AlgECDSA \o algSHA256 \o NistP256 \o algNull
               \o ECCPoint(x, y))

\* AES-128-CFB, no scheme: the parameters of a storage key.
StorageParms == algAES \o PutU16(128) \o algCFB \o algNull \o NistP256 \o algNull

marshalEKPublic(ekAuthPolicy, x, y) ==
  MarshalTPM2B(AlgECC \o algSHA256 \o Attributes(ekObjectAttributes)
               \o MarshalTPM2B(ekAuthPolicy) \o StorageParms \o ECCPoint(x, y))

marshalECCStoragePublic(x, y) ==
  MarshalTPM2B(AlgECC \o algSHA256 \o Attributes(storageObjectAttributes) \o Empty
               \o StorageParms \o ECCPoint(x, y))

marshalNVPublic(p) ==
  MarshalTPM2B(p.index \o p.nameAlg \o p.attributes
               \o MarshalTPM2B(p.authPolicy) \o p.dataSize)
=============================================================================
