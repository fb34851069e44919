----------------------------- MODULE KdfProofs -----------------------------
(***************************************************************************)
(* The loops of KDFa and KDFe return the first bits of the stream, for     *)
(* every hash, every length and every size of digest.                      *)
(***************************************************************************)
EXTENDS KdfLoop, TLAPS

\* What quotient and remainder are.
LEMMA DivMod ==
  ASSUME NEW n \in Nat \ {0}, NEW q \in Nat, NEW r \in 0..(n - 1)
  PROVE  (n * q + r) \div n = q /\ (n * q + r) % n = r
  BY SMT

\* A number is its quotient and its remainder.
LEMMA DivModSum ==
  ASSUME NEW n \in Nat \ {0}, NEW x \in Nat
  PROVE  /\ x = n * (x \div n) + (x % n)
         /\ x \div n \in 0..x
  BY SMT

\* The powers of two that a mask uses.
LEMMA Powers ==
  /\ 2^0 = 1
  /\ \A k \in 1..7 : 2^k \in Nat \ {0}
  <1>1. 2^0 = 1 /\ 2^1 = 2 /\ 2^2 = 4 /\ 2^3 = 8 /\ 2^4 = 16 /\ 2^5 = 32
        /\ 2^6 = 64 /\ 2^7 = 128
    BY SMT
  <1>2. \A k \in 1..7 : k = 1 \/ k = 2 \/ k = 3 \/ k = 4 \/ k = 5 \/ k = 6 \/ k = 7
    BY SMT
  <1> QED BY <1>1, <1>2, SMT

\* Integers are written in octets, of their value modulo the width.
LEMMA Numbers ==
  ASSUME NEW n \in Nat
  PROVE  PutU32(n) \in Octets
  <1>1. ASSUME NEW m \in Nat
        PROVE  PutU16(m) \in Octets
    <2>1. (m \div 256) % 256 \in Octet /\ m % 256 \in Octet
      BY DEF Octet
    <2> QED
      BY <2>1 DEF PutU16, Octets
  <1>2. n \div 65536 \in Nat
    OBVIOUS
  <1>3. PutU16(n \div 65536) \in Octets /\ PutU16(n) \in Octets
    BY <1>1, <1>2
  <1> QED
    BY <1>3 DEF PutU32, Octets

\* A label with its terminating zero is a string of octets.
LEMMA Labels ==
  ASSUME NEW label \in Octets
  PROVE  labelBytes(label) \in Octets
  BY DEF labelBytes, Octets, Octet

\* A block is a digest.
LEMMA BlockIsDigest ==
  ASSUME Hashes, NEW x \in Derivation, NEW n \in Nat
  PROVE  Block(x, n) \in Digest
  <1>1. PutU32(n) \in Octets /\ PutU32(x.bits) \in Octets
    BY Numbers DEF Derivation
  <1>2. labelBytes(x.label) \in Octets /\ x.key \in Octets
        /\ x.partyU \in Octets /\ x.partyV \in Octets
    BY Labels DEF Derivation
  <1>3. <<255>> \in Octets
    BY DEF Octets, Octet
  <1>4. ASSUME NEW a \in Octets, NEW b \in Octets
        PROVE  a \o b \in Octets
    BY DEF Octets
  <1> HIDE DEF Octets
  <1>5. PutU32(n) \o x.key \o labelBytes(x.label) \o x.partyU \o x.partyV \in Octets
    BY <1>1, <1>2, <1>4
  <1>6. PutU32(n) \o labelBytes(x.label) \o x.partyU \o x.partyV \o PutU32(x.bits)
          \in Octets
    BY <1>1, <1>2, <1>4
  <1>7. x.key \o <<255>> \o (PutU32(n) \o labelBytes(x.label) \o x.partyU
          \o x.partyV \o PutU32(x.bits)) \in Octets
    BY <1>2, <1>3, <1>4, <1>6
  <1> QED
    BY <1>5, <1>7 DEF Block, HMAC, Hashes

\* The octets of the stream.
LEMMA Stream ==
  ASSUME Hashes, NEW x \in Derivation, NEW i \in Nat \ {0}
  PROVE  StreamOctet(x, i) \in Octet
  <1>1. 1 + (i - 1) \div DigestSize \in Nat /\ 1 + ((i - 1) % DigestSize) \in 1..DigestSize
    BY DigestSizeAssumption, SMT
  <1>2. Block(x, 1 + (i - 1) \div DigestSize) \in Digest
    BY <1>1, BlockIsDigest
  <1> QED
    BY <1>1, <1>2 DEF StreamOctet, Digest

\* Clearing the low-order bits keeps the rest of an octet in its place.
LEMMA Mask ==
  ASSUME NEW octet \in Octet, NEW bits \in Nat, bits # 0
  PROVE  LET e == 8 * outLen(bits) - bits
         IN  /\ Masked(octet, bits) = 2^e * (octet \div 2^e)
             /\ Masked(octet, bits) \in Octet
  <1> DEFINE e == 8 * outLen(bits) - bits
  <1>1. CASE bits % 8 = 0
    <2>1. e = 0
      BY <1>1 DEF outLen
    <2>2. octet = 1 * (octet \div 1)
      BY DEF Octet
    <2> QED
      BY <1>1, <2>1, <2>2, Powers DEF Masked
  <1>2. CASE bits % 8 # 0
    <2>1. e = 8 - (bits % 8) /\ e \in 1..7
      BY <1>2 DEF outLen
    <2>2. PICK p \in Nat \ {0} : p = 2^e
      BY <2>1, Powers
    <2>3. octet = p * (octet \div p) + (octet % p) /\ octet % p \in Nat
      BY DivModSum DEF Octet
    <2>4. p * (octet \div p) \in Nat
      BY <2>2 DEF Octet
    <2>5. octet - (octet % p) = p * (octet \div p) /\ octet - (octet % p) \in Octet
      BY <2>3, <2>4 DEF Octet
    <2> QED
      BY <1>2, <2>1, <2>2, <2>5 DEF Masked
  <1> QED
    BY <1>1, <1>2
-----------------------------------------------------------------------------
(* The invariant: what has been appended is a beginning of the stream.     *)

Beginning == \A i \in 1..Len(out) : out[i] = StreamOctet(args, i)

IInv == TypeOK /\ Beginning /\ FirstBits

\* What appending octets leaves in place.
LEMMA Appending ==
  ASSUME NEW a \in Octets, NEW b \in Octets
  PROVE  /\ a \o b \in Octets
         /\ Len(a) \in Nat /\ Len(b) \in Nat /\ Len(a \o b) = Len(a) + Len(b)
         /\ \A i \in 1..Len(a) : (a \o b)[i] = a[i]
         /\ \A i \in 1..Len(b) : (a \o b)[Len(a) + i] = b[i]
  BY DEF Octets

\* A round appends the next block of the stream.
LEMMA RoundStep ==
  ASSUME Hashes, IInv, Round
  PROVE  IInv'
  <1>1. args \in Derivation /\ args' = args /\ args \in Derivations
    BY DerivationsAssumption DEF Round, IInv, TypeOK
  <1>2. Block(args, ctr) \in Digest /\ ctr \in Nat \ {0} /\ out \in Octets
        /\ Len(out) = DigestSize * (ctr - 1)
    BY <1>1, BlockIsDigest DEF IInv, TypeOK
  <1>3. PICK block \in Digest : block = Block(args, ctr)
    BY <1>2
  <1>4. block \in Octets /\ Len(block) = DigestSize
    BY DigestSizeAssumption DEF Digest, Octets, Octet
  <1>5. out' = out \o block /\ ctr' = ctr + 1 /\ key = None /\ key' = None
    BY <1>3 DEF Round
  <1> HIDE DEF Octets
  <1>6. /\ out' \in Octets /\ Len(out) \in Nat /\ Len(out') = Len(out) + DigestSize
        /\ \A i \in 1..Len(out) : out'[i] = out[i]
        /\ \A i \in 1..DigestSize : out'[Len(out) + i] = block[i]
    BY <1>2, <1>4, <1>5, Appending
  <1>7. Len(out') = DigestSize * (ctr' - 1)
    BY <1>2, <1>5, <1>6, DigestSizeAssumption
  <1>8. ASSUME NEW i \in 1..Len(out')
        PROVE  out'[i] = StreamOctet(args', i)
    <2>1. CASE i <= Len(out)
      <3>1. out'[i] = out[i] /\ i \in 1..Len(out)
        BY <2>1, <1>6
      <3> QED
        BY <3>1, <1>1 DEF IInv, Beginning
    <2>2. CASE i > Len(out)
      <3> DEFINE r == i - 1 - Len(out)
      <3>1. i \in Nat /\ r \in 0..(DigestSize - 1) /\ i - 1 = DigestSize * (ctr - 1) + r
        BY <2>2, <1>2, <1>6, DigestSizeAssumption
      <3>2. (i - 1) \div DigestSize = ctr - 1 /\ (i - 1) % DigestSize = r
        <4>1. PICK q \in Nat : q = ctr - 1
          BY <1>2
        <4>2. PICK s \in 0..(DigestSize - 1) : s = r
          BY <3>1
        <4> HIDE DEF r
        <4> QED
          <5>1. (DigestSize * q + s) \div DigestSize = q
                /\ (DigestSize * q + s) % DigestSize = s
            BY DivMod, DigestSizeAssumption
          <5>2. i - 1 = DigestSize * q + s
            BY <4>1, <4>2, <3>1, Zenon
          <5> QED
            BY <5>1, <5>2, <4>1, <4>2, Zenon
      <3>3. out'[i] = block[r + 1]
        <4>1. r + 1 \in 1..DigestSize /\ Len(out) + (r + 1) = i
          BY <3>1, <1>6, DigestSizeAssumption
        <4> HIDE DEF r
        <4> QED
          BY <4>1, <1>6
      <3>4. 1 + (i - 1) \div DigestSize = ctr
            /\ 1 + ((i - 1) % DigestSize) = r + 1
        BY <3>1, <3>2, <1>2
      <3> HIDE DEF r
      <3> QED
        BY <1>1, <1>3, <3>3, <3>4 DEF StreamOctet
    <2> QED
      BY <2>1, <2>2, <1>6
  <1> QED
    BY <1>1, <1>2, <1>5, <1>6, <1>7, <1>8 DEF IInv, TypeOK, Beginning, FirstBits

\* What is returned is the first bits of the stream.
LEMMA ReturnStep ==
  ASSUME Hashes, IInv, Return
  PROVE  IInv'
  <1>1. args \in Derivation /\ args.bits \in Nat
    BY DerivationsAssumption DEF IInv, TypeOK, Derivation
  <1> DEFINE n == outLen(args.bits)
             e == 8 * n - args.bits
  <1>2. n \in Nat /\ n = (args.bits + 7) \div 8 /\ (n # 0 => args.bits # 0)
    BY <1>1 DEF outLen
  <1>3. n <= Len(out) /\ out \in Octets /\ UNCHANGED <<args, ctr, out>>
    BY DEF Return, IInv, TypeOK
  <1>4. key' = [i \in 1..n |-> IF i = n THEN Masked(out[i], args.bits) ELSE out[i]]
    BY DEF Return
  <1>5. ASSUME NEW i \in 1..n
        PROVE  /\ out[i] = StreamOctet(args, i) /\ out[i] \in Octet
               /\ Masked(out[i], args.bits) = 2^e * (out[i] \div 2^e)
               /\ Masked(out[i], args.bits) \in Octet
    <2>1. i \in 1..Len(out)
      BY <1>2, <1>3 DEF Octets
    <2>2. out[i] = StreamOctet(args, i) /\ out[i] \in Octet
      BY <2>1, <1>3 DEF IInv, Beginning, Octets
    <2> QED
      BY <2>2, <1>1, <1>2, Mask
  <1>6. key' \in Octets
    BY <1>2, <1>4, <1>5 DEF Octets
  <1>7. key' = Derived(args)
    <2>1. CASE n = 0
      BY <2>1, <1>2, <1>4 DEF Derived
    <2>2. CASE n # 0
      <3> DEFINE a == [i \in 1..(n - 1) |-> StreamOctet(args, i)]
                 b == <<2^e * (StreamOctet(args, n) \div 2^e)>>
      <3>1. Derived(args) = a \o b
        BY <2>2, <1>2 DEF Derived
      <3>2. n \in 1..n /\ n - 1 \in Nat /\ \A i \in 1..(n - 1) : i \in 1..n
        BY <2>2, <1>2
      <3>3. /\ key'[n] = 2^e * (StreamOctet(args, n) \div 2^e) /\ key'[n] \in Octet
            /\ \A i \in 1..(n - 1) : StreamOctet(args, i) \in Octet
            /\ \A i \in 1..(n - 1) : key'[i] = StreamOctet(args, i)
        BY <3>2, <1>2, <1>4, <1>5
      <3> DEFINE s(i) == StreamOctet(args, i)
                 last == 2^e * (StreamOctet(args, n) \div 2^e)
      <3>4. a = [i \in 1..(n - 1) |-> s(i)] /\ b = <<last>> /\ key'[n] = last
            /\ (\A i \in 1..(n - 1) : s(i) \in Octet /\ key'[i] = s(i)) /\ last \in Octet
        BY <3>3
      <3> HIDE DEF s, last, a, b
      <3>5. a \in Octets /\ b \in Octets /\ Len(a) = n - 1 /\ Len(b) = 1 /\ b[1] = last
            /\ \A i \in 1..(n - 1) : a[i] = s(i)
        BY <3>4, <3>2 DEF Octets
      <3>9. /\ a \o b \in Octets /\ Len(a \o b) = Len(a) + Len(b)
            /\ \A i \in 1..Len(a) : (a \o b)[i] = a[i]
            /\ \A i \in 1..Len(b) : (a \o b)[Len(a) + i] = b[i]
        <4>1. PICK p \in Octets, q \in Octets : p = a /\ q = b
          BY <3>5
        <4>2. /\ p \o q \in Octets /\ Len(p \o q) = Len(p) + Len(q)
              /\ \A i \in 1..Len(p) : (p \o q)[i] = p[i]
              /\ \A i \in 1..Len(q) : (p \o q)[Len(p) + i] = q[i]
          BY Appending
        <4> QED
          BY <4>1, <4>2
      <3>6. Len(key') = n
        BY <1>2, <1>4
      <3>7. \A i \in 1..n : key'[i] = (a \o b)[i]
        <4> SUFFICES ASSUME NEW i \in 1..n PROVE key'[i] = (a \o b)[i]
          OBVIOUS
        <4>1. CASE i = n
          <5>1. 1 \in 1..Len(b) /\ Len(a) + 1 = n
            BY <3>5, <3>2, <1>2
          <5>2. (a \o b)[n] = b[1]
            BY <5>1, <3>9
          <5> QED
            BY <4>1, <5>2, <3>4, <3>5
        <4>2. CASE i # n
          <5>1. i \in 1..(n - 1)
            BY <4>2, <1>2
          <5> QED
            BY <5>1, <3>4, <3>5, <3>9
        <4> QED
          BY <4>1, <4>2
      <3>8. a \o b \in Octets /\ Len(a \o b) = n
        BY <3>5, <3>2, <1>2, <3>9
      <3> QED
        <4>1. \A x \in Octets : \A y \in Octets :
                (Len(x) = Len(y) /\ \A i \in 1..Len(x) : x[i] = y[i]) => x = y
          BY DEF Octets
        <4> QED
          BY <4>1, <3>1, <3>6, <3>7, <3>8, <1>6
    <2> QED
      BY <2>1, <2>2
  <1> QED
    BY <1>3, <1>6, <1>7 DEF IInv, TypeOK, Beginning, FirstBits

\* The loops keep what they have appended a beginning of the stream.
THEOREM Invariant == Hashes => (Spec => []IInv)
  <1> SUFFICES ASSUME Hashes PROVE Spec => []IInv
    OBVIOUS
  <1>1. Init => IInv
    BY DigestSizeAssumption DEF Init, IInv, TypeOK, Beginning, FirstBits, Octets
  <1>2. IInv /\ [Next]_vars => IInv'
    <2> SUFFICES ASSUME IInv, [Next]_vars PROVE IInv'
      OBVIOUS
    <2>1. CASE Round
      BY <2>1, RoundStep
    <2>2. CASE Return
      BY <2>2, ReturnStep
    <2>3. CASE UNCHANGED vars
      BY <2>3 DEF vars, IInv, TypeOK, Beginning, FirstBits
    <2> QED
      BY <2>1, <2>2, <2>3 DEF Next
  <1> QED
    BY <1>1, <1>2, PTL DEF Spec

\* A loop has appended as many whole blocks as its counter has counted, whatever
\* the hash (TypeOK).
THEOREM TypeCorrect == Hashes => (Spec => []TypeOK)
  <1> SUFFICES ASSUME Hashes PROVE Spec => []TypeOK
    OBVIOUS
  <1>1. IInv => TypeOK
    BY DEF IInv
  <1>2. Spec => []IInv
    BY Invariant
  <1> QED
    BY <1>1, <1>2, PTL

\* KDFa and KDFe return the first bits of the stream of blocks, for every hash,
\* every size of digest and every length (FirstBits).
THEOREM DerivesFirstBits == Hashes => (Spec => []FirstBits)
  <1> SUFFICES ASSUME Hashes PROVE Spec => []FirstBits
    OBVIOUS
  <1>1. IInv => FirstBits
    BY DEF IInv
  <1>2. Spec => []IInv
    BY Invariant
  <1> QED
    BY <1>1, <1>2, PTL
=============================================================================
