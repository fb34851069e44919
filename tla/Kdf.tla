-------------------------------- MODULE Kdf --------------------------------
(***************************************************************************)
(* The two key derivation functions of kdf.go, by what they return: the    *)
(* first bits of a stream of hash blocks.  Module KdfLoop has the loops    *)
(* that compute it.                                                        *)
(***************************************************************************)
EXTENDS Wire

CONSTANTS
  DigestSize,               \* the octets of a digest
  Hash(_)                   \* the hash, from octets to a digest

\* A string of octets, and the value of a hash.
Octets == Seq(Octet)
Digest == [1..DigestSize -> Octet]

ASSUME DigestSizeAssumption == DigestSize \in Nat \ {0}

\* Every string has a digest.
Hashes == \A x \in Octets : Hash(x) \in Digest

HMAC(key, x) == Hash(key \o <<255>> \o x)

\* The label with a terminating zero octet, which it may already have.
labelBytes(label) ==
  IF label = <<>> \/ label[Len(label)] # 0 THEN Append(label, 0) ELSE label

\* The two parties' contributions follow each other with nothing between.
Derivation == [kdf : {"KDFa", "KDFe"}, key : Octets, label : Octets,
               partyU : Octets, partyV : Octets, bits : Nat]

\* The block of a counter.
Block(d, ctr) ==
  IF d.kdf = "KDFa"
  THEN HMAC(d.key, PutU32(ctr) \o labelBytes(d.label) \o d.partyU \o d.partyV
                     \o PutU32(d.bits))
  ELSE Hash(PutU32(ctr) \o d.key \o labelBytes(d.label) \o d.partyU \o d.partyV)

\* Octet i of the blocks that follow each other.
StreamOctet(d, i) ==
  Block(d, 1 + (i - 1) \div DigestSize)[1 + ((i - 1) % DigestSize)]

\* What both functions return: the first bits of the stream, and zeros up to
\* the next octet.
Derived(d) ==
  LET last   == (d.bits + 7) \div 8
      excess == 8 * last - d.bits
  IN IF last = 0 THEN <<>>
     ELSE [i \in 1..(last - 1) |-> StreamOctet(d, i)]
            \o <<2^excess * (StreamOctet(d, last) \div 2^excess)>>

KDFa(key, label, contextU, contextV, bits) ==
  Derived([kdf |-> "KDFa", key |-> key, label |-> label, partyU |-> contextU,
           partyV |-> contextV, bits |-> bits])

KDFe(z, label, partyU, partyV, bits) ==
  Derived([kdf |-> "KDFe", key |-> z, label |-> label, partyU |-> partyU,
           partyV |-> partyV, bits |-> bits])
=============================================================================
