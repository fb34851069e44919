-------------------------- MODULE AttestingProofs --------------------------
(***************************************************************************)
(* Proofs about attestation, for any number of verifiers, nonces, PCRs,    *)
(* keys and reports.  The argument: the values of a selection, written in  *)
(* ascending order, determine the value of each PCR in it (InOrderAt), and *)
(* whatever this device signed for the nonce of a challenge that is still  *)
(* open was true at a moment since the challenge (Genuine).                *)
(***************************************************************************)
EXTENDS Attesting, FiniteSetTheorems, FunctionTheorems, TLAPS

States == [PCRs -> Seq(Digests)]

\* The device signs what is true, and only for nonces that were issued.
TrueFor(s) ==
  /\ s.over.extraData \in issued
  /\ \A v \in Verifiers : challenge[v] = s.over.extraData =>
       \E f \in seen[v] : s.over.pcrDigest = InOrder(s.over.pcrSelect, f)

Genuine == \A q \in quotes : q.sig.key = OwnKey => TrueFor(q.sig)

\* A verifier that waits has seen the present state, and has no verdict yet.
Waiting ==
  \A v \in Verifiers :
    IF challenge[v] = None THEN seen[v] = {}
    ELSE pcr \in seen[v] /\ (verdict[v] = None \/ verdict[v].claim = None)

\* The parts of a quote, and what a read returned, belong to one PCR state.
Parts ==
  /\ \A q \in quotes :
       /\ q.sig.over = q.quoted
       /\ \E f \in States :
            /\ q.quoted.pcrDigest = InOrder(bitmap(q.asked), f)
            /\ q.truth = ValuesIn(f, Platform(q.asked))
  /\ \A r \in readings : \E f \in States :
       /\ r.digests = InOrder(FirstReply(bitmap(r.asked)), f)
       /\ r.truth = ValuesIn(f, Platform(r.asked))

IInv == TypeOK /\ Genuine /\ Waiting /\ Parts
-----------------------------------------------------------------------------
(* Selections and the order of their values.                               *)

\* The window of the bitmap is the platform PCRs, for every index list.
LEMMA BitmapIsPlatform ==
  ASSUME NEW s \in Selections
  PROVE  bitmap(s) = Platform(s) /\ Platform(s) \subseteq PCRs
<1>1. s \subseteq Int
  BY AttestingAssumption
<1>2. \A i \in Int : ~(i < 0 \/ i >= pcrSelectSize * 8) <=> i \in 0..23
  BY DEF pcrSelectSize
<1>3. bitmap(s) = Platform(s)
  BY <1>1, <1>2 DEF bitmap, Platform
<1> QED
  BY <1>3, AttestingAssumption DEF Platform

\* A selection is finite, and its ranks number its PCRs from one.
LEMMA Ranks ==
  ASSUME NEW S \in SUBSET PCRs
  PROVE  /\ IsFiniteSet(S) /\ Cardinality(S) \in Nat
         /\ \A p \in S : Rank(S, p) \in 1..Cardinality(S)
         /\ \A p, q \in S : Rank(S, p) = Rank(S, q) => p = q
         /\ \A i \in 1..Cardinality(S) : \E p \in S : Rank(S, p) = i
<1> DEFINE Below(p) == {q \in S : q <= p}
           N == Cardinality(S)
           r == [p \in S |-> Rank(S, p)]
<1>1. S \subseteq 0..23
  BY DeviceAssumption
<1>2. IsFiniteSet(S)
  <2>1. S \in SUBSET Nat /\ \A p \in S : p <= 23
    BY <1>1
  <2> QED
    BY <2>1, FS_BoundedSetOfNaturals
<1>3. N \in Nat
  BY <1>2, FS_CardinalityType
<1>4. ASSUME NEW p \in S
      PROVE  IsFiniteSet(Below(p)) /\ Rank(S, p) \in 1..N
  <2>1. Below(p) \in SUBSET S /\ p \in Below(p)
    BY <1>1
  <2>2. IsFiniteSet(Below(p)) /\ Cardinality(Below(p)) <= N
    BY <1>2, <2>1, FS_Subset
  <2>3. Cardinality(Below(p)) \in Nat /\ Cardinality(Below(p)) # 0
    BY <2>1, <2>2, FS_CardinalityType, FS_EmptySet
  <2> QED
    BY <1>3, <2>2, <2>3 DEF Rank
<1>5. ASSUME NEW p \in S, NEW q \in S, p < q
      PROVE  Rank(S, p) # Rank(S, q)
  <2>0. S \subseteq Int
    BY <1>1
  <2>1. \A x \in Below(p) : x \in Below(q)
    BY <1>5, <2>0
  <2>2. q \in Below(q) /\ q \notin Below(p)
    BY <1>5, <2>0
  <2> QED
    BY <1>4, <2>1, <2>2, FS_Subset DEF Rank
<1>6. ASSUME NEW p \in S, NEW q \in S, Rank(S, p) = Rank(S, q)
      PROVE  p = q
  BY <1>1, <1>5, <1>6
<1>7. r \in Injection(S, 1..N)
  BY <1>4, <1>6, Fun_IsInj
<1>8. IsFiniteSet(1..N) /\ Cardinality(1..N) = N
  BY <1>3, FS_Interval
<1>9. r \in Surjection(S, 1..N)
  BY <1>7, <1>8, FS_Injection
<1>10. \A i \in 1..N : \E p \in S : r[p] = i
  <2> HIDE DEF r, N
  <2> QED
    BY <1>9, Fun_SurjectionProperties
<1> QED
  BY <1>2, <1>3, <1>4, <1>6, <1>10

\* The values in order have one for each PCR of the selection, at its rank.
LEMMA InOrderAt ==
  ASSUME NEW S \in SUBSET PCRs, NEW f \in States
  PROVE  /\ InOrder(S, f) \in Seq(Seq(Digests))
         /\ Len(InOrder(S, f)) = Cardinality(S)
         /\ \A p \in S : Rank(S, p) \in 1..Cardinality(S)
         /\ \A p \in S : InOrder(S, f)[Rank(S, p)] = f[p]
<1>1. S \cap PCRs = S
  OBVIOUS
<1>2. InOrder(S, f) = [i \in 1..Cardinality(S) |-> f[Nth(S, i)]]
  BY <1>1 DEF InOrder
<1>3. \A i \in 1..Cardinality(S) : Nth(S, i) \in S /\ Rank(S, Nth(S, i)) = i
  BY Ranks DEF Nth
<1>4. \A i \in 1..Cardinality(S) : f[Nth(S, i)] \in Seq(Digests)
  BY <1>3 DEF States
<1>5. Cardinality(S) \in Nat
  BY Ranks
<1>6. ASSUME NEW p \in S
      PROVE  Nth(S, Rank(S, p)) = p /\ Rank(S, p) \in 1..Cardinality(S)
  BY <1>3, Ranks
<1> QED
  BY <1>2, <1>4, <1>5, <1>6

\* In order, two states look the same exactly if the selection's values are.
LEMMA SameOrder ==
  ASSUME NEW S \in SUBSET PCRs, NEW f \in States, NEW g \in States
  PROVE  InOrder(S, f) = InOrder(S, g) <=> ValuesIn(f, S) = ValuesIn(g, S)
<1>1. ASSUME InOrder(S, f) = InOrder(S, g)
      PROVE  ValuesIn(f, S) = ValuesIn(g, S)
  <2>1. ASSUME NEW p \in S PROVE f[p] = g[p]
    <3>1. InOrder(S, f)[Rank(S, p)] = f[p]
      BY InOrderAt
    <3>2. InOrder(S, g)[Rank(S, p)] = g[p]
      BY InOrderAt
    <3> QED
      BY ONLY <1>1, <3>1, <3>2
  <2> QED
    BY <2>1 DEF ValuesIn
<1>2. ASSUME ValuesIn(f, S) = ValuesIn(g, S)
      PROVE  InOrder(S, f) = InOrder(S, g)
  <2>1. \A p \in S : f[p] = g[p]
    BY <1>2 DEF ValuesIn
  <2>2. S \cap PCRs = S
    OBVIOUS
  <2>3. \A i \in 1..Cardinality(S) : Nth(S, i) \in S
    BY Ranks DEF Nth
  <2> QED
    BY <2>1, <2>2, <2>3 DEF InOrder
<1> QED
  BY <1>1, <1>2

\* A selection whose digests fit in one reply is in it as a whole.
LEMMA WholeReply ==
  ASSUME NEW S \in SUBSET PCRs, Cardinality(S) <= MaxDigests
  PROVE  FirstReply(S) = S
<1>1. ASSUME NEW p \in S
      PROVE  Cardinality({q \in S : q < p}) < MaxDigests
  <2> DEFINE T == {q \in S : q < p}
  <2>1. T \in SUBSET S /\ T # S
    BY <1>1, DeviceAssumption
  <2>2. IsFiniteSet(T) /\ Cardinality(T) <= Cardinality(S)
        /\ Cardinality(T) # Cardinality(S)
    BY <2>1, Ranks, FS_Subset
  <2>3. Cardinality(T) \in Nat /\ Cardinality(S) \in Nat
    BY <2>2, Ranks, FS_CardinalityType
  <2> QED
    BY <2>2, <2>3, DeviceAssumption
<1> QED
  BY <1>1 DEF FirstReply

\* The claim made of the values in order is the values.
LEMMA ClaimIsValues ==
  ASSUME NEW S \in SUBSET PCRs, NEW f \in States
  PROVE  Claim(S, InOrder(S, f)) = ValuesIn(f, S)
BY InOrderAt DEF Claim, ValuesIn

\* The values of a selection have the type of values.
LEMMA ValuesInType ==
  ASSUME NEW S \in SUBSET PCRs, NEW f \in States
  PROVE  ValuesIn(f, S) \in Values
BY DEF ValuesIn, Values, States
-----------------------------------------------------------------------------
(* Type correctness and the invariant.                                     *)

\* Initially the invariant holds.
LEMMA InitInvariant == Init => IInv
BY DEF Init, DeviceInit, IInv, TypeOK, DeviceTypeOK, Genuine, Waiting, Parts

\* What a device signs is a quote, of one PCR state.
LEMMA SignedParts ==
  ASSUME NEW k \in Keys, NEW nonce \in Nonces, NEW s \in Selections,
         NEW f \in States, NEW q, q = Signed(k, nonce, s, f)
  PROVE  /\ q \in Quoted /\ q.sig.key = k /\ q.sig.over = q.quoted
         /\ q.asked = s /\ q.truth = ValuesIn(f, Platform(s))
         /\ q.quoted.extraData = nonce
         /\ q.quoted.pcrSelect = bitmap(s)
         /\ q.quoted.pcrDigest = InOrder(bitmap(s), f)
<1>1. bitmap(s) \in SUBSET PCRs /\ Platform(s) \in SUBSET PCRs
  BY BitmapIsPlatform
<1>2. InOrder(bitmap(s), f) \in Seq(Seq(Digests))
  BY <1>1, InOrderAt
<1>3. ValuesIn(f, Platform(s)) \in Values
  BY <1>1, ValuesInType
<1> QED
  BY <1>1, <1>2, <1>3 DEF Signed, Quoted, Signature, Attest

\* A step that the verifiers and what was sent do not notice.
LEMMA DeviceOnly ==
  ASSUME IInv, UNCHANGED <<sent, verifier, seen, pcr>>, DeviceTypeOK',
         akHandle' \in ObjectHandles \cup {None}
  PROVE  IInv'
BY DEF IInv, TypeOK, Genuine, TrueFor, Waiting, Parts, sent, verifier

\* A change of the PCRs: every verifier that waits has seen the new state.
LEMMA Changes ==
  ASSUME IInv, UNCHANGED <<sent, verifier>>, Witness(pcr'), DeviceTypeOK',
         akHandle' \in ObjectHandles \cup {None}
  PROVE  IInv'
<1> USE DEF IInv, TypeOK
<1>1. \A v \in Verifiers : seen[v] \subseteq seen'[v]
  BY DEF Witness
<1>2. TypeOK'
  BY DEF Witness, DeviceTypeOK, sent, verifier
<1>3. Genuine'
  BY <1>1 DEF Genuine, TrueFor, sent, verifier
<1>4. Waiting'
  BY DEF Waiting, Witness, verifier
<1>5. Parts'
  BY DEF Parts, sent
<1> QED
  BY <1>2, <1>3, <1>4, <1>5

\* Reads and quotes preserve the invariant.
LEMMA SendsInvariant ==
  ASSUME IInv, PCRRead \/ Quote \/ OtherDevice
  PROVE  IInv'
<1> USE DEF IInv
<1>0. pcr \in States
  BY DEF TypeOK, DeviceTypeOK, States
<1>1. CASE PCRRead
  <2>1. PICK s \in Selections :
          readings' = readings \cup
            {[digests |-> InOrder(FirstReply(bitmap(s)), pcr),
              asked |-> s, truth |-> Current(Platform(s))]}
    BY <1>1 DEF PCRRead
  <2> DEFINE r == [digests |-> InOrder(FirstReply(bitmap(s)), pcr),
                   asked |-> s, truth |-> Current(Platform(s))]
  <2>2. bitmap(s) \in SUBSET PCRs /\ Platform(s) \in SUBSET PCRs
    BY BitmapIsPlatform
  <2>3. FirstReply(bitmap(s)) \in SUBSET PCRs
    BY <2>2 DEF FirstReply
  <2>4. /\ InOrder(FirstReply(bitmap(s)), pcr) \in Seq(Seq(Digests))
        /\ Current(Platform(s)) \in Values
    BY <1>0, <2>2, <2>3, InOrderAt, ValuesInType DEF Current
  <2>5. r \in Reading
    BY <2>4 DEF Reading
  <2>6. /\ r.digests = InOrder(FirstReply(bitmap(r.asked)), pcr)
        /\ r.truth = ValuesIn(pcr, Platform(r.asked))
    BY DEF Current
  <2> HIDE DEF r
  <2>7. UNCHANGED <<device, akHandle, quotes, verifier, seen>>
    BY <1>1 DEF PCRRead
  <2>8. TypeOK'
    BY <2>1, <2>5, <2>7 DEF r, TypeOK, DeviceTypeOK, device, verifier
  <2>9. Parts'
    BY <1>0, <2>1, <2>6, <2>7 DEF r, Parts
  <2> QED
    BY <2>7, <2>8, <2>9 DEF Genuine, TrueFor, Waiting, device, verifier
<1>2. CASE Quote \/ OtherDevice
  <2>1. PICK k \in Keys, nonce \in issued, s \in Selections, f \in States :
          /\ quotes' = quotes \cup {Signed(k, nonce, s, f)}
          /\ k = OwnKey => f = pcr
    BY <1>0, <1>2, DeviceAssumption, AttestingAssumption
    DEF Quote, OtherDevice, States
  <2> DEFINE q == Signed(k, nonce, s, f)
  <2>2. UNCHANGED <<device, akHandle, readings, verifier, seen>>
    BY <1>2 DEF Quote, OtherDevice
  <2>3. nonce \in Nonces
    BY <2>1 DEF TypeOK
  <2>4. /\ q \in Quoted /\ q.sig.key = k /\ q.sig.over = q.quoted
        /\ q.asked = s /\ q.truth = ValuesIn(f, Platform(s))
        /\ q.quoted.extraData = nonce
        /\ q.quoted.pcrSelect = bitmap(s)
        /\ q.quoted.pcrDigest = InOrder(bitmap(s), f)
    <3>1. q = Signed(k, nonce, s, f)
      OBVIOUS
    <3> HIDE DEF q
    <3> QED
      BY <2>1, <2>3, <3>1, SignedParts
  <2> HIDE DEF q
  <2>5. quotes' = quotes \cup {q}
    BY <2>1 DEF q
  <2>6. TypeOK'
    BY <2>2, <2>4, <2>5 DEF TypeOK, DeviceTypeOK, device, verifier
  <2>7. Parts'
    BY <2>2, <2>4, <2>5 DEF Parts
  <2>8. ASSUME k = OwnKey
        PROVE  TrueFor(q.sig)
    <3>1. \A v \in Verifiers : challenge[v] = nonce => pcr \in seen[v]
      BY <2>1, <2>3, AttestingNoneAssumption DEF Waiting
    <3> QED
      BY <2>1, <2>4, <2>8, <3>1 DEF TrueFor
  <2>9. Genuine'
    BY <2>2, <2>4, <2>5, <2>8 DEF Genuine, TrueFor, verifier
  <2> QED
    BY <2>2, <2>6, <2>7, <2>9 DEF Waiting, device, verifier
<1> QED
  BY <1>1, <1>2

\* What VerifyQuote accepts for a challenge is true of a moment since it.
LEMMA Accepted ==
  ASSUME IInv, NEW v \in Verifiers, NEW q \in quotes, NEW signed \in quotes,
         NEW digests, NEW quoted \in {q.quoted, None},
         VerifyQuote(OwnKey, quoted, signed.sig, digests) = "nil",
         quoted.extraData = challenge[v]
  PROVE  /\ quoted.pcrSelect \in SUBSET PCRs
         /\ \E f \in seen[v] :
              /\ f \in States
              /\ Claim(quoted.pcrSelect, digests)
                   = ValuesIn(f, quoted.pcrSelect)
<1>1. /\ quoted # None
      /\ signed.sig = [key |-> OwnKey, over |-> quoted]
      /\ digests = quoted.pcrDigest
  BY DEF VerifyQuote
<1>2. TrueFor(signed.sig) /\ signed.sig.over = quoted
  BY <1>1 DEF IInv, Genuine
<1>3. quoted \in Attest
  BY <1>1 DEF IInv, TypeOK, Quoted
<1>4. PICK f \in seen[v] : quoted.pcrDigest = InOrder(quoted.pcrSelect, f)
  BY <1>2 DEF TrueFor
<1>5. f \in States
  BY <1>4 DEF IInv, TypeOK, States
<1>6. quoted.pcrSelect \in SUBSET PCRs
  BY <1>3 DEF Attest
<1> QED
  BY <1>1, <1>4, <1>5, <1>6, ClaimIsValues

\* What a verifier does preserves the invariant.
LEMMA VerifierInvariant ==
  ASSUME IInv, NEW v \in Verifiers, Challenge(v) \/ Verify(v)
  PROVE  IInv'
<1> USE DEF IInv
<1>0. UNCHANGED <<device, akHandle, sent>>
  BY DEF Challenge, Verify
<1>1. DeviceTypeOK' /\ Parts'
  BY <1>0 DEF TypeOK, DeviceTypeOK, device, Parts, sent
<1>2. CASE Challenge(v)
  <2>1. PICK nonce \in Nonces \ issued :
          /\ issued' = issued \cup {nonce}
          /\ challenge' = [challenge EXCEPT ![v] = nonce]
    BY <1>2 DEF Challenge
  <2>2. /\ verdict' = [verdict EXCEPT ![v] = None]
        /\ seen' = [seen EXCEPT ![v] = {pcr}]
    BY <1>2 DEF Challenge
  <2>3. TypeOK'
    BY <1>0, <1>1, <2>1, <2>2 DEF TypeOK, DeviceTypeOK, sent
  <2>4. \A q \in quotes : q.sig.key = OwnKey =>
          q.sig.over.extraData \in issued /\ q.sig.over.extraData # nonce
    BY <2>1 DEF Genuine, TrueFor
  <2>5. Genuine'
    BY <1>0, <2>1, <2>2, <2>4 DEF Genuine, TrueFor, TypeOK, sent
  <2>6. Waiting'
    BY <1>0, <2>1, <2>2, AttestingNoneAssumption DEF Waiting, TypeOK, device
  <2> QED
    BY <1>1, <2>3, <2>5, <2>6
<1>3. CASE Verify(v)
  <2>1. PICK q \in quotes, signed \in quotes, r \in readings :
        \E quoted \in {q.quoted, None} :
          LET err == VerifyQuote(OwnKey, quoted, signed.sig, r.digests)
          IN IF err # "nil" THEN Reject(v, err)
             ELSE IF quoted.extraData # challenge[v]
               THEN Reject(v, "another nonce")
             ELSE Accept(v, Claim(quoted.pcrSelect, r.digests))
    BY <1>3 DEF Verify
  <2>2. PICK quoted \in {q.quoted, None} :
          LET err == VerifyQuote(OwnKey, quoted, signed.sig, r.digests)
          IN IF err # "nil" THEN Reject(v, err)
             ELSE IF quoted.extraData # challenge[v]
               THEN Reject(v, "another nonce")
             ELSE Accept(v, Claim(quoted.pcrSelect, r.digests))
    BY <2>1
  <2> DEFINE err == VerifyQuote(OwnKey, quoted, signed.sig, r.digests)
  <2>3. err \in Errors \cup {"nil"}
    BY DEF VerifyQuote, Errors
  <2>4. \/ \E why \in Errors : Reject(v, why)
        \/ \E claim \in Values : Accept(v, claim)
    <3>1. CASE err # "nil"
      BY <2>2, <2>3, <3>1
    <3>2. CASE err = "nil" /\ quoted.extraData # challenge[v]
      BY <2>2, <3>2 DEF Errors
    <3>3. CASE err = "nil" /\ quoted.extraData = challenge[v]
      <4>1. Claim(quoted.pcrSelect, r.digests) \in Values
        BY <3>3, Accepted, ValuesInType
      <4> QED
        BY <2>2, <3>3, <4>1
    <3> QED
      BY <3>1, <3>2, <3>3
  <2>5. UNCHANGED issued /\ challenge[v] # None
    BY <1>3 DEF Verify
  <2>6. CASE \E why \in Errors : Reject(v, why)
    <3>1. PICK why \in Errors : Reject(v, why)
      BY <2>6
    <3>2. [err |-> why, claim |-> None] \in Verdict
      BY DEF Verdict
    <3>3. TypeOK'
      BY <1>0, <1>1, <2>5, <3>1, <3>2 DEF Reject, TypeOK, sent
    <3>4. Genuine'
      BY <1>0, <2>5, <3>1 DEF Reject, Genuine, TrueFor, sent
    <3>5. Waiting'
      BY <1>0, <3>1 DEF Reject, Waiting, TypeOK, device
    <3> QED
      BY <1>1, <3>3, <3>4, <3>5
  <2>7. CASE \E claim \in Values : Accept(v, claim)
    <3>1. PICK claim \in Values : Accept(v, claim)
      BY <2>7
    <3>2. [err |-> "nil", claim |-> claim] \in Verdict
      BY DEF Verdict
    <3>3. TypeOK'
      BY <1>0, <1>1, <2>5, <3>1, <3>2 DEF Accept, TypeOK, sent
    <3>4. Genuine'
      <4>1. ASSUME NEW s \in quotes, s.sig.key = OwnKey
            PROVE  s.sig.over.extraData # None
        BY <4>1, AttestingNoneAssumption DEF Genuine, TrueFor, TypeOK
      <4> QED
        BY <1>0, <2>5, <3>1, <4>1 DEF Accept, Genuine, TrueFor, TypeOK, sent
    <3>5. Waiting'
      BY <1>0, <3>1 DEF Accept, Waiting, TypeOK, device
    <3> QED
      BY <1>1, <3>3, <3>4, <3>5
  <2> QED
    BY <2>4, <2>6, <2>7
<1> QED
  BY <1>2, <1>3

\* The invariant holds always.
LEMMA Invariant == Spec => []IInv
<1>1. ASSUME IInv, [Next]_vars
      PROVE  IInv'
  <2>1. CASE UNCHANGED vars
    BY <1>1, <2>1, DeviceOnly
    DEF vars, device, IInv, TypeOK, DeviceTypeOK, sent, verifier
  <2>2. CASE CreatePrimary
    BY <1>1, <2>2, DeviceOnly
    DEF CreatePrimary, TPM2_CreatePrimary, IInv, TypeOK, DeviceTypeOK, sent,
        verifier, Primaries
  <2>3. CASE Crash
    BY <1>1, <2>3, DeviceOnly
    DEF Crash, device, IInv, TypeOK, DeviceTypeOK, sent, verifier
  <2>4. CASE PCRExtend
    BY <1>1, <2>4, Changes
    DEF PCRExtend, TPM2_PCR_Extend, IInv, TypeOK, DeviceTypeOK, sent, verifier
  <2>5. CASE Reset
    BY <1>1, <2>5, Changes
    DEF Reset, TPM_Reset, IInv, TypeOK, DeviceTypeOK, sent, verifier
  <2> QED
    BY <1>1, <2>1, <2>2, <2>3, <2>4, <2>5, SendsInvariant, VerifierInvariant
    DEF Next
<1> QED
  BY <1>1, InitInvariant, PTL DEF Spec
-----------------------------------------------------------------------------
(* The theorems.                                                           *)

\* Every variable of the attestation flow has its type, for any device, any
\* number of verifiers and whatever is sent.
THEOREM TypeCorrect == Spec => []TypeOK
BY Invariant, PTL DEF IInv

\* Digests that PCRRead returned and a quote for the same list verify together
\* exactly if the PCRs had the same values both times, provided that the
\* digests fit in one reply.
THEOREM SteadyReports == Spec => []SteadyReportVerifies
<1>1. ASSUME IInv
      PROVE  SteadyReportVerifies
  <2> SUFFICES ASSUME NEW q \in quotes, NEW r \in readings,
                      q.sig.key = OwnKey, r.asked = q.asked,
                      Cardinality(Platform(q.asked)) <= MaxDigests
               PROVE  VerifyQuote(OwnKey, q.quoted, q.sig, r.digests) = "nil"
                        <=> r.truth = q.truth
    BY DEF SteadyReportVerifies
  <2> DEFINE S == Platform(q.asked)
  <2>1. q \in Quoted /\ q.asked \in Selections
    BY <1>1 DEF IInv, TypeOK, Quoted
  <2>2. bitmap(q.asked) = S /\ S \in SUBSET PCRs
    BY <2>1, BitmapIsPlatform
  <2>3. PICK f \in States : /\ q.quoted.pcrDigest = InOrder(S, f)
                            /\ q.truth = ValuesIn(f, S)
    BY <1>1, <2>2 DEF IInv, Parts
  <2>4. FirstReply(S) = S
    BY <2>2, WholeReply
  <2>5. PICK g \in States : /\ r.digests = InOrder(S, g)
                            /\ r.truth = ValuesIn(g, S)
    BY <1>1, <2>2, <2>4 DEF IInv, Parts
  <2>6. q.quoted # None /\ q.sig = [key |-> OwnKey, over |-> q.quoted]
    BY <1>1, <2>1, AttestingNoneAssumption DEF IInv, Parts, Quoted, Signature
  <2>7. VerifyQuote(OwnKey, q.quoted, q.sig, r.digests) = "nil"
          <=> r.digests = q.quoted.pcrDigest
    BY <2>6 DEF VerifyQuote
  <2> QED
    BY <2>2, <2>3, <2>5, <2>7, SameOrder
<1> QED
  BY <1>1, Invariant, PTL

\* A step of the flow is a step of the abstract attestation.
LEMMA StepAttestation ==
  ASSUME IInv, IInv', [Next]_vars
  PROVE  [TheAttestation!Next]_(TheAttestation!vars)
<1> DEFINE told == [v \in Verifiers |-> IF verdict[v] = None THEN None
                                                    ELSE verdict[v].claim]
<1> USE DEF TheAttestation!vars
<1>1. CASE \/ UNCHANGED vars \/ PCRRead \/ Quote \/ OtherDevice
           \/ CreatePrimary \/ Crash
  BY <1>1
  DEF vars, device, verifier, PCRRead, Quote, OtherDevice, CreatePrimary,
      TPM2_CreatePrimary, Crash
<1>2. ASSUME NEW f, pcr' = f, Witness(f), UNCHANGED verifier
      PROVE  TheAttestation!Become(f)
  <2>1. \A v \in Verifiers : challenge[v] = None <=> seen[v] = {}
    BY DEF IInv, Waiting
  <2> QED
    BY <1>2, <2>1 DEF TheAttestation!Become, Witness, verifier
<1>3. CASE PCRExtend
  <2>1. PICK p \in PCRs, d \in Digests : TPM2_PCR_Extend(p, d)
    BY <1>3 DEF PCRExtend
  <2> QED
    BY <1>2, <1>3, <2>1
    DEF PCRExtend, TPM2_PCR_Extend, TheAttestation!Next, TheAttestation!Measure
<1>4. CASE Reset
  BY <1>2, <1>4
  DEF Reset, TPM_Reset, TheAttestation!Next, TheAttestation!Reset
<1>5. ASSUME NEW v \in Verifiers, Challenge(v)
      PROVE  TheAttestation!Ask(v)
  BY <1>5
  DEF Challenge, device, TheAttestation!Ask, IInv, TypeOK
<1>6. ASSUME NEW v \in Verifiers, Verify(v)
      PROVE  TheAttestation!Learn(v) \/ UNCHANGED TheAttestation!vars
  <2>1. PICK q \in quotes, signed \in quotes, r \in readings :
        \E quoted \in {q.quoted, None} :
          LET err == VerifyQuote(OwnKey, quoted, signed.sig, r.digests)
          IN IF err # "nil" THEN Reject(v, err)
             ELSE IF quoted.extraData # challenge[v]
               THEN Reject(v, "another nonce")
             ELSE Accept(v, Claim(quoted.pcrSelect, r.digests))
    BY <1>6 DEF Verify
  <2>2. PICK quoted \in {q.quoted, None} :
          LET err == VerifyQuote(OwnKey, quoted, signed.sig, r.digests)
          IN IF err # "nil" THEN Reject(v, err)
             ELSE IF quoted.extraData # challenge[v]
               THEN Reject(v, "another nonce")
             ELSE Accept(v, Claim(quoted.pcrSelect, r.digests))
    BY <2>1
  <2>3. UNCHANGED pcr /\ challenge[v] # None
    BY <1>6 DEF Verify, device
  <2>4. verdict \in [Verifiers -> Verdict \cup {None}]
    BY DEF IInv, TypeOK
  <2>5. ASSUME NEW why \in Errors, Reject(v, why)
        PROVE  UNCHANGED TheAttestation!vars
    <3>1. told[v] = None
      BY <2>3 DEF IInv, Waiting
    <3>2. [err |-> why, claim |-> None] # None
      BY AttestingNoneAssumption DEF Verdict
    <3>3. told' = told
      BY <2>4, <2>5, <3>1, <3>2 DEF Reject
    <3> QED
      BY <2>3, <2>5, <3>3 DEF Reject
  <2>6. ASSUME NEW claim, Accept(v, claim), claim \in Values,
               NEW f \in seen[v], NEW S \in SUBSET PCRs,
               claim = ValuesIn(f, S)
        PROVE  TheAttestation!Learn(v)
    <3>1. claim = TheAttestation!Values(f, S)
      BY <2>6 DEF ValuesIn, TheAttestation!Values
    <3>2. [err |-> "nil", claim |-> claim] # None
      BY <2>6, AttestingNoneAssumption DEF Verdict
    <3>3. told' = [told EXCEPT ![v] = claim]
      BY <2>4, <2>6, <3>2 DEF Accept
    <3>4. seen' = [seen EXCEPT ![v] = {}]
      BY <2>6 DEF Accept
    <3> QED
      BY <2>3, <3>1, <3>3, <3>4 DEF TheAttestation!Learn
  <2>7. CASE /\ VerifyQuote(OwnKey, quoted, signed.sig, r.digests) = "nil"
             /\ quoted.extraData = challenge[v]
    <3>1. PICK f \in seen[v] :
            /\ f \in States
            /\ Claim(quoted.pcrSelect, r.digests)
                 = ValuesIn(f, quoted.pcrSelect)
      BY <2>7, Accepted
    <3>2. quoted.pcrSelect \in SUBSET PCRs
      BY <2>7, Accepted
    <3>3. Claim(quoted.pcrSelect, r.digests) \in Values
      BY <3>1, <3>2, ValuesInType
    <3> QED
      BY <2>2, <2>6, <2>7, <3>1, <3>2, <3>3
  <2>8. /\ "another nonce" \in Errors
        /\ VerifyQuote(OwnKey, quoted, signed.sig, r.digests)
             \in Errors \cup {"nil"}
    BY DEF VerifyQuote, Errors
  <2> QED
    BY <2>2, <2>5, <2>7, <2>8
<1> QED
  BY <1>1, <1>3, <1>4, <1>5, <1>6 DEF Next, TheAttestation!Next

\* An accepted report tells values that the PCRs had at one moment after its
\* nonce was issued, whatever was measured, replayed or mixed up meanwhile.
THEOREM AttestationRefined == Spec => ImplementsAttestation
<1>1. Init => TheAttestation!Init
  BY DEF Init, DeviceInit, TheAttestation!Init
<1> QED
  BY <1>1, StepAttestation, Invariant, PTL
  DEF Spec, ImplementsAttestation, TheAttestation!Spec
=============================================================================
