------------------------------- MODULE Wraps -------------------------------
(***************************************************************************)
(* What the library computes away from the TPM, octet by octet: the wraps  *)
(* of makecred.go and import.go, the policy digest of seal.go and the      *)
(* Names of objects.  The device opens a wrap with the same two parts, a   *)
(* key it shares and a Name it computes for itself.                        *)
(*                                                                         *)
(* Outside the repository: the hash is any Hash, the cipher adds a hash of *)
(* its key to the plaintext, and the curve is the additive group of a      *)
(* prime, whose points have coordinates of different lengths when they are *)
(* written as integers.                                                    *)
(***************************************************************************)
EXTENDS Kdf

CONSTANTS
  Prime,                    \* the order of the group: 256 < Prime < 65536
  None                      \* nothing: a refusal

FieldBytes == 2             \* p256FieldBytes: the octets of a coordinate

ASSUME PrimeAssumption == Prime \in Nat /\ 256 < Prime /\ Prime < 65536
ASSUME NoneAssumption  == None \notin Octets /\ None \notin Seq(Octets)

\* No digest is longer than one of SHA-512.
ASSUME DigestAssumption == DigestSize <= 64

\* The octets of a number, as many as it needs, and back.
Bytes(n)    == IF n = 0 THEN <<>> ELSE IF n < 256 THEN <<n>> ELSE PutU16(n)
SetBytes(b) ==
  LET number[n \in 0..Len(b)] ==
        IF n = 0 THEN 0 ELSE (256 * number[n - 1] + b[n]) % Prime
  IN number[Len(b)]

\* Mutant of leftPad: as many octets as the number has.
leftPad_Unpadded(b, n) == b

\* A number in n octets.
leftPad(b, n) ==
  IF Len(b) >= n THEN SubSeq(b, Len(b) - n + 1, Len(b))
                 ELSE [i \in 1..(n - Len(b)) |-> 0] \o b

\* The group: the point of private number k, and k times the point at x.
PointX(k)        == k % Prime
PointY(k)        == (Prime - k) % Prime
IsOnCurve(x, y)  == x # 0 /\ (x + y) % Prime = 0
ScalarMult(x, k) == (x * k) % Prime

\* The cipher keeps the length of what it enciphers.
aesCFBZeroIV(key, plaintext) ==
  LET pad == Hash(key)
  IN [i \in DOMAIN plaintext |-> (plaintext[i] + pad[1 + (i % DigestSize)]) % 256]
Deciphered(key, octets) ==
  LET pad == Hash(key)
  IN [i \in DOMAIN octets |-> (octets[i] + 256 - pad[1 + (i % DigestSize)]) % 256]
-----------------------------------------------------------------------------
\* Labels, in a letter each.
labelIdentity  == <<73>>
labelStorage   == <<83>>
labelIntegrity == <<89>>
labelDuplicate == <<68>>

\* What both sides derive from the point they share: z and the two
\* contributions have as many octets as a coordinate.
Seed(label, z, qeX, x) ==
  KDFe(leftPad(z, FieldBytes), label, qeX, leftPad(x, FieldBytes), 256)

SymKey(seed, name) == KDFa(seed, labelStorage, name, <<>>, 128)
HMACKey(seed)      == KDFa(seed, labelIntegrity, <<>>, <<>>, 256)

\* Enciphered for the key whose point is at x, with the ephemeral number eph,
\* and tied to a Name.
Wrapped(label, x, eph, name, plain) ==
  LET qeX  == leftPad(Bytes(PointX(eph)), FieldBytes)
      qeY  == leftPad(Bytes(PointY(eph)), FieldBytes)
      seed == Seed(label, Bytes(ScalarMult(SetBytes(x), eph)), qeX, x)
      enc  == aesCFBZeroIV(SymKey(seed, name), MarshalTPM2B(plain))
      outerHMAC == HMAC(HMACKey(seed), enc \o name)
  IN [blob   |-> MarshalTPM2B(MarshalTPM2B(outerHMAC) \o enc),
      secret |-> MarshalTPM2B(ECCPoint(qeX, qeY))]

\* The hash algorithm and the hash of a public area.
ObjectName(publicArea)       == algSHA256 \o Hash(publicArea)
importObjectName(publicArea) == ObjectName(publicArea)

MakeCredential(ek, akName, credential, eph) ==
  IF IsOnCurve(SetBytes(ek.x), SetBytes(ek.y))
  THEN Wrapped(labelIdentity, ek.x, eph, akName, credential)
  ELSE None

marshalSealSensitive(seedValue, secret) ==
  algKeyedHash \o Empty \o MarshalTPM2B(seedValue) \o MarshalTPM2B(secret)

\* The public area of a sealed object: no length before it when it is hashed.
SealPublic(bits, policyDigest, unique) ==
  algKeyedHash \o algSHA256 \o Attributes(bits) \o MarshalTPM2B(policyDigest)
    \o algNull \o MarshalTPM2B(unique)
marshalImportSealPublic(policyDigest, unique) ==
  SealPublic(importSealAttributes, policyDigest, unique)
marshalSealPublic(policyDigest) ==
  MarshalTPM2B(SealPublic(sealObjectAttributes, policyDigest, <<>>))

ccPolicyPCR == PutU32(383)

\* Extending a policy digest with a selection of PCRs.
PolicyPCRExtended(digest, pcrs, values) ==
  Hash(digest \o ccPolicyPCR \o pcrs \o Hash(FlattenSeq(values)))

NoPolicy == [i \in 1..DigestSize |-> 0]

\* Mutant of PolicyPCRDigest: the values of the PCRs are not hashed first.
PolicyPCRDigest_Unhashed(sel, pcrValues) ==
  Hash(NoPolicy \o ccPolicyPCR \o marshalPCRSelectionList(sel) \o FlattenSeq(pcrValues))

PolicyPCRDigest(sel, pcrValues) ==
  PolicyPCRExtended(NoPolicy, marshalPCRSelectionList(sel), pcrValues)

WrapToPCR(srk, secret, sel, pcrValues, obfuscate, eph) ==
  LET public == marshalImportSealPublic(PolicyPCRDigest(sel, pcrValues),
                                        Hash(obfuscate \o secret))
      wrap   == Wrapped(labelDuplicate, srk.x, eph, importObjectName(public),
                        marshalSealSensitive(obfuscate, secret))
  IN IF IsOnCurve(SetBytes(srk.x), SetBytes(srk.y))
     THEN [objectPublic |-> public, duplicate |-> wrap.blob,
           inSymSeed |-> wrap.secret]
     ELSE None
-----------------------------------------------------------------------------
(* Reading octets back, as the device does (external).                     *)

U16(b) == 256 * b[1] + b[2]

\* The octets before the value of a field and those of the value.
Size(kind, b) ==
  CASE kind = "u8"  -> <<0, 1>>
    [] kind = "u16" -> <<0, 2>>
    [] kind = "u32" -> <<0, 4>>
    [] kind = "2b"  -> <<2, IF Len(b) < 2 THEN 0 ELSE U16(b)>>
    [] kind = "4b"  -> <<4, IF Len(b) < 4 THEN 0 ELSE U16(SubSeq(b, 3, 4))>>
    [] kind = "symmetric" ->        \* an algorithm, the size of a key, a mode
         <<0, IF Len(b) > 1 /\ SubSeq(b, 1, 2) # algNull THEN 6 ELSE 2>>
    [] kind = "scheme"    ->        \* an algorithm and a hash algorithm
         <<0, IF Len(b) > 1 /\ SubSeq(b, 1, 2) # algNull THEN 4 ELSE 2>>
    [] kind = "pcrs"    -> <<0, IF Len(b) < 4 THEN 4 ELSE 4 + 6 * b[4]>>
    [] kind = "digests" -> <<4, IF Len(b) < 4 THEN 0 ELSE b[4] * (2 + DigestSize)>>
    [] kind = "rest"    -> <<0, Len(b)>>

\* One field from the front.
Taken(read, kind) ==
  LET size == Size(kind, read.left)
      end  == size[1] + size[2]
  IN IF read.left = None \/ Len(read.left) < end
     THEN [read EXCEPT !.left = None]
     ELSE [got  |-> Append(read.got, SubSeq(read.left, size[1] + 1, end)),
           left |-> SubSeq(read.left, end + 1, Len(read.left))]

\* The values of the fields octets consist of, None when they do not.
Fields(kinds, octets) ==
  LET read[n \in 0..Len(kinds)] ==
        IF n = 0 THEN [got |-> <<>>, left |-> octets]
        ELSE Taken(read[n - 1], kinds[n])
  IN IF read[Len(kinds)].left = <<>> THEN read[Len(kinds)].got ELSE None

\* What the device takes out of a wrap with the private number k, for the
\* object of a Name.
Unwrapped(label, k, name, blob, secret) ==
  LET point == Fields(<<"2b", "2b">>, secret)
      parts == Fields(<<"2b", "rest">>, blob)
  IN IF point = None \/ parts = None THEN None ELSE
     LET seed == KDFe(PutU16(ScalarMult(SetBytes(point[1]), k)), label,
                      point[1], PutU16(PointX(k)), 256)
         plain == Fields(<<"2b">>, Deciphered(SymKey(seed, name), parts[2]))
     IN IF parts[1] = HMAC(HMACKey(seed), parts[2] \o name) /\ plain # None
        THEN plain[1] ELSE None
=============================================================================
