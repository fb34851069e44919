-------------------------- MODULE ActivatingProofs --------------------------
(***************************************************************************)
(* Proofs about credential activation, for any number of goroutines, slots, *)
(* credentials and devices.  The argument: the slices a call holds were    *)
(* made for some binding (Honest), slices are recovered from only if both  *)
(* are of the same wrap and only under the Name and the EK of its binding  *)
(* (Recovers), and a session belongs to one call (CallsOwnSessions).       *)
(***************************************************************************)
EXTENDS Activating, FiniteSetTheorems, TLAPS

\* The wrap of a binding.
WrapOf(b) == MakeCredential(b.ek, b.ak, b.credential)

\* What was sent, and what a call holds, was made for bindings.
Honest ==
  /\ \A ch \in challenges : \E b \in bound : ch = WrapOf(b)
  /\ \A c \in Callers : call[c] # None =>
       /\ \E b \in bound : call[c].blob = WrapOf(b).blob
       /\ \E b \in bound : call[c].secret = WrapOf(b).secret

\* Only keys are loaded.
Loaded ==
  \A h \in ObjectHandles : objects[h] \in {AttestationKey, EndorsementKey, None}

\* The call record goes with the place of the call in its chain.
Places ==
  \A c \in Callers :
    /\ pc[c] = "idle" <=> call[c] = None
    /\ call[c] # None =>
         /\ pc[c] = "StartAuthSession" => call[c].session = None
         /\ pc[c] # "StartAuthSession" => call[c].session \in SessionHandles

IInv == TypeOK /\ Places /\ Loaded /\ Honest /\ CallsOwnSessions
-----------------------------------------------------------------------------
(* Lemmas about wraps.                                                     *)

\* None is told from every value it stands in for.
LEMMA NoneFacts ==
  /\ None \notin ObjectHandles /\ None \notin SessionHandles
  /\ None \notin Session /\ None \notin Primaries /\ None \notin Credentials
  /\ None \notin Call
BY NoneAssumption, ActivatingAssumption, ActivatingCallAssumption

\* The slices of a wrap are arguments of a call.
LEMMA WrapType ==
  ASSUME NEW ek \in Key, NEW n \in Key, NEW s \in Credentials
  PROVE  /\ MakeCredential(ek, n, s) \in Challenges
         /\ MakeCredential(ek, n, s).blob \in {ch.blob : ch \in Challenges}
         /\ MakeCredential(ek, n, s).secret \in {ch.secret : ch \in Challenges}
BY DEF Challenges

\* Nothing is recovered from two slices of different wraps, under another Name
\* than the wrap was made for, or with another EK (activate.go, the doc comment
\* of ActivateCredential: "iff the AK Name and EK match").
LEMMA Recovers ==
  ASSUME NEW b1, NEW b2, NEW name, NEW info, info # None,
         info = CertInfo(name, WrapOf(b1).blob, WrapOf(b2).secret)
  PROVE  /\ info = b1.credential /\ b2.credential = b1.credential
         /\ b1.ak = name /\ b1.ek = OwnEK
<1> DEFINE s == b1.credential
           seed == Seed(Ephemeral(s), b1.ek)
           derived == Seed(Ephemeral(b2.credential), OwnEK)
           enc == [key |-> StorageOf(seed, b1.ak), plain |-> s]
           blob == [outerHMAC   |-> [key |-> IntegrityOf(seed), enc |-> enc,
                                     name |-> b1.ak],
                    encIdentity |-> enc]
<1>1. /\ WrapOf(b1).blob = blob
      /\ WrapOf(b2).secret = Ephemeral(b2.credential)
  BY DEF WrapOf, MakeCredential
<1>2. /\ blob.outerHMAC = [key |-> IntegrityOf(derived), enc |-> blob.encIdentity,
                           name |-> name]
      /\ info = blob.encIdentity.plain
  BY <1>1 DEF CertInfo
<1>3. IntegrityOf(seed) = IntegrityOf(derived) /\ b1.ak = name
  BY <1>2
<1>4. seed = derived
  BY <1>3 DEF IntegrityOf, KDFa
<1>5. Ephemeral(s) = Ephemeral(b2.credential) /\ b1.ek = OwnEK
  BY <1>4 DEF Seed, KDFe, ECDH
<1>6. s = b2.credential
  BY <1>5 DEF Ephemeral
<1> QED
  BY <1>2, <1>3, <1>5, <1>6

\* Both slices of a wrap for the EK of this device give its credential back
\* under the Name it was made for.
LEMMA RoundTrip ==
  ASSUME NEW n, NEW s
  PROVE  CertInfo(n, MakeCredential(OwnEK, n, s).blob,
                     MakeCredential(OwnEK, n, s).secret) = s
BY DEF CertInfo, MakeCredential, Seed, StorageOf, IntegrityOf, KDFa

\* A Name that is computed is a key.
LEMMA NameType ==
  ASSUME NEW a \in Publics, ObjectName(a) # None
  PROVE  ObjectName(a) \in Key
BY ActivatingAssumption DEF ObjectName, PublicArea
-----------------------------------------------------------------------------
(* How each action moves the call of its goroutine.                        *)

\* Any step of a goroutine.
Step(c) ==
  \/ ActivateChallenge(c) \/ ActivateAKWithEK(c) \/ StartAuthSession(c)
  \/ PolicySecret(c) \/ ActivateCredential(c) \/ CommandFails(c)

\* A step of one goroutine leaves the calls of the others as they were.
LEMMA Frame ==
  ASSUME TypeOK, NEW c \in Callers, Step(c), NEW d \in Callers, d # c
  PROVE  pc'[d] = pc[d] /\ call'[d] = call[d]
BY DEF TypeOK, Step, ActivateChallenge, ActivateAKWithEK, Start,
       StartAuthSession, PolicySecret, ActivateCredential, CommandFails,
       GoOn, Fail

\* The library refuses the public areas.
Refuses(c) == /\ result' = [result EXCEPT ![c] = None]
              /\ UNCHANGED <<device, pc, call, challenges, bound, leftSessions>>

\* A call starts with the slices of two wraps, made for bindings.
LEMMA Starts ==
  ASSUME IInv, NEW c \in Callers, ActivateChallenge(c) \/ ActivateAKWithEK(c)
  PROVE  \/ Refuses(c)
         \/ /\ \E b1 \in Binding \cap bound', b2 \in Binding \cap bound' :
                 Start(c, WrapOf(b1).blob, WrapOf(b2).secret)
            /\ bound \subseteq bound' /\ bound' \subseteq Binding
            /\ UNCHANGED challenges
<1>0. bound \subseteq Binding
  BY DEF IInv, TypeOK
<1>1. CASE ActivateChallenge(c)
  <2>1. PICK ch1 \in challenges, ch2 \in challenges : Start(c, ch1.blob, ch2.secret)
    BY <1>1 DEF ActivateChallenge
  <2>2. PICK b1 \in bound : ch1 = WrapOf(b1)
    BY DEF IInv, Honest
  <2>3. PICK b2 \in bound : ch2 = WrapOf(b2)
    BY DEF IInv, Honest
  <2>4. UNCHANGED <<challenges, bound>>
    BY <1>1 DEF ActivateChallenge
  <2>5. Start(c, WrapOf(b1).blob, WrapOf(b2).secret)
    BY <2>1, <2>2, <2>3
  <2>6. b1 \in Binding \cap bound' /\ b2 \in Binding \cap bound'
    BY <1>0, <2>4
  <2> HIDE DEF WrapOf, Start
  <2> QED
    BY <1>0, <2>4, <2>5, <2>6
<1>2. ASSUME ActivateAKWithEK(c), ~ Refuses(c)
      PROVE  /\ \E b1 \in Binding \cap bound', b2 \in Binding \cap bound' :
                   Start(c, WrapOf(b1).blob, WrapOf(b2).secret)
             /\ bound \subseteq bound' /\ bound' \subseteq Binding
             /\ UNCHANGED challenges
  <2>1. PICK a \in Publics, e \in Publics, s \in Credentials :
          LET mc == MakeCredential(e.key, ObjectName(a), s)
          IN /\ ObjectName(a) # None
             /\ Start(c, mc.blob, mc.secret)
             /\ bound' = bound \cup
                  {[credential |-> s, ak |-> ObjectName(a), ek |-> e.key]}
             /\ UNCHANGED challenges
    BY <1>2 DEF ActivateAKWithEK, Refuses
  <2> DEFINE b == [credential |-> s, ak |-> ObjectName(a), ek |-> e.key]
  <2>2. b \in Binding /\ b \in bound'
    BY <2>1, NameType, ActivatingAssumption DEF Binding, PublicArea
  <2>3. Start(c, WrapOf(b).blob, WrapOf(b).secret)
    BY <2>1 DEF WrapOf
  <2>4. bound' = bound \cup {b} /\ UNCHANGED challenges
    BY <2>1
  <2> HIDE DEF b
  <2> QED
    BY <1>0, <2>2, <2>3, <2>4
<1> QED
  BY <1>1, <1>2

\* What the record of a call is when it starts.
LEMMA Started ==
  ASSUME TypeOK, NEW c \in Callers, NEW b1 \in Binding, NEW b2 \in Binding,
         Start(c, WrapOf(b1).blob, WrapOf(b2).secret)
  PROVE  /\ call'[c] \in Call /\ call'[c] # None
         /\ call'[c].session = None
         /\ call'[c].blob = WrapOf(b1).blob /\ call'[c].secret = WrapOf(b2).secret
         /\ pc'[c] = "StartAuthSession"
         /\ \A d \in Callers \ {c} : pc'[d] = pc[d] /\ call'[d] = call[d]
         /\ call' \in [Callers -> Call \cup {None}]
<1>1. PICK ak \in ObjectHandles, ek \in ObjectHandles :
        call' = [call EXCEPT ![c] =
          [ak |-> ak, ek |-> ek, blob |-> WrapOf(b1).blob,
           secret |-> WrapOf(b2).secret, session |-> None]]
  BY DEF Start
<1>2. /\ WrapOf(b1).blob \in {ch.blob : ch \in Challenges}
      /\ WrapOf(b2).secret \in {ch.secret : ch \in Challenges}
  BY WrapType DEF WrapOf, Binding
<1>3. PICK blob, secret : blob = WrapOf(b1).blob /\ secret = WrapOf(b2).secret
  OBVIOUS
<1>4. [ak |-> ak, ek |-> ek, blob |-> blob, secret |-> secret,
       session |-> None] \in Call
  BY <1>2, <1>3 DEF Call
<1> QED
  BY <1>1, <1>3, <1>4, NoneFacts DEF Start, TypeOK

\* The later commands of a call leave its slices alone, and bind nothing.
LEMMA Continues ==
  ASSUME TypeOK, Places, NEW c \in Callers,
         \/ StartAuthSession(c) \/ PolicySecret(c) \/ ActivateCredential(c)
         \/ CommandFails(c)
  PROVE  /\ call[c] # None /\ call[c] \in Call
         /\ call'[c] # None => /\ call'[c].blob = call[c].blob
                               /\ call'[c].secret = call[c].secret
         /\ UNCHANGED <<challenges, bound>>
<1>1. call[c] # None /\ call[c] \in Call
  BY DEF TypeOK, Places, StartAuthSession, PolicySecret, ActivateCredential,
         CommandFails
<1>2. UNCHANGED <<challenges, bound>>
  BY DEF StartAuthSession, PolicySecret, ActivateCredential, CommandFails, GoOn,
         Fail
<1>3. \/ call'[c] \in {None, call[c]}
      \/ \E h \in SessionHandles : call'[c] = [call[c] EXCEPT !.session = h]
  BY DEF TypeOK, StartAuthSession, PolicySecret, ActivateCredential,
         CommandFails, GoOn, Fail
<1> QED
  BY <1>1, <1>2, <1>3 DEF Call
-----------------------------------------------------------------------------
(* Type correctness.                                                       *)

\* The open sessions.
Open == {h \in SessionHandles : sessions[h] # None}

\* Both sets are finite.
LEMMA Finite ==
  /\ IsFiniteSet(Holding) /\ IsFiniteSet(Open)
  /\ IsFiniteSet(Holding') /\ IsFiniteSet(Open')
  /\ Cardinality(Holding) \in Nat /\ Cardinality(Open) \in Nat
  /\ Cardinality(Holding') \in Nat /\ Cardinality(Open') \in Nat
<1>1. IsFiniteSet(Callers) /\ IsFiniteSet(SessionHandles)
  BY ActivatingAssumption, DeviceAssumption
<1>2. /\ Holding \subseteq Callers /\ Holding' \subseteq Callers
      /\ Open \subseteq SessionHandles /\ Open' \subseteq SessionHandles
  BY DEF Holding, Open
<1>3. /\ IsFiniteSet(Holding) /\ IsFiniteSet(Open)
      /\ IsFiniteSet(Holding') /\ IsFiniteSet(Open')
  BY <1>1, <1>2, FS_Subset
<1> QED
  BY <1>3, FS_CardinalityType

\* The policy of the session of an EK is a policy.
LEMMA PolicyType == <<>> \in Policy /\ ekAuthPolicy \in Policy
BY DEF Policy, ekAuthPolicy

\* A step that does not belong to a goroutine preserves types.
LEMMA DeviceType ==
  ASSUME TypeOK, CreatePrimary \/ Challenge \/ Crash \/ Reset
  PROVE  TypeOK'
<1> USE DEF TypeOK, DeviceTypeOK
<1>1. CASE CreatePrimary
  BY <1>1 DEF CreatePrimary, TPM2_CreatePrimary, program, Primaries
<1>2. CASE Challenge
  <2>1. PICK a \in Publics, e \in Publics, s \in Credentials :
          /\ ObjectName(a) # None
          /\ challenges' =
               challenges \cup {MakeCredential(e.key, ObjectName(a), s)}
          /\ bound' = bound \cup {[credential |-> s, ak |-> ObjectName(a),
                                   ek |-> e.key]}
    BY <1>2 DEF Challenge
  <2>2. e.key \in Key /\ ObjectName(a) \in Key
    BY <2>1, NameType, ActivatingAssumption DEF PublicArea
  <2>3. MakeCredential(e.key, ObjectName(a), s) \in Challenges
    BY <2>2, WrapType
  <2>4. [credential |-> s, ak |-> ObjectName(a), ek |-> e.key] \in Binding
    BY <2>2 DEF Binding
  <2> QED
    BY <1>2, <2>1, <2>3, <2>4 DEF Challenge, device
<1>3. CASE Crash
  <2>1. Cardinality(Holding) \in Nat
    BY Finite
  <2> QED
    BY <1>3, <2>1 DEF Crash, ProgramDies, device
<1>4. CASE Reset
  BY <1>4 DEF Reset, ProgramDies, TPM_Reset
<1> QED
  BY <1>1, <1>2, <1>3, <1>4

\* A step of a goroutine preserves types.
LEMMA CallType ==
  ASSUME IInv, NEW c \in Callers, Step(c)
  PROVE  TypeOK'
<1>0. TypeOK /\ Places
  BY DEF IInv
<1> USE <1>0 DEF TypeOK, DeviceTypeOK
<1>1. CASE Refuses(c)
  BY <1>1 DEF Refuses, device
<1>2. ASSUME NEW b1 \in Binding, NEW b2 \in Binding,
             Start(c, WrapOf(b1).blob, WrapOf(b2).secret),
             bound' \subseteq Binding, UNCHANGED challenges
      PROVE  TypeOK'
  BY <1>2, Started DEF Start, device
<1>3. CASE StartAuthSession(c)
  <2>1. PICK h \in SessionHandles :
          /\ TPM2_StartAuthSession(h)
          /\ \/ Fail(c, [call[c] EXCEPT !.session = h])
             \/ GoOn(c, "PolicySecret", [call[c] EXCEPT !.session = h])
    BY <1>3 DEF StartAuthSession
  <2>2. [digest |-> <<>>, counter |-> Unbound] \in Session
    BY PolicyType DEF Session, Unbound
  <2>3. DeviceTypeOK'
    BY <2>1, <2>2 DEF TPM2_StartAuthSession
  <2>4. [call[c] EXCEPT !.session = h] \in Call
    BY <1>3, Continues DEF Call
  <2>5. CASE Fail(c, [call[c] EXCEPT !.session = h])
    BY <1>3, <2>3, <2>5 DEF StartAuthSession, Fail, Leaves
  <2>6. CASE GoOn(c, "PolicySecret", [call[c] EXCEPT !.session = h])
    BY <1>3, <2>3, <2>4, <2>6 DEF StartAuthSession, GoOn
  <2> QED
    BY <2>1, <2>5, <2>6
<1>4. CASE PolicySecret(c)
  <2> DEFINE h == call[c].session
  <2>1. call[c] \in Call /\ h \in SessionHandles
    BY <1>4 DEF PolicySecret, Places
  <2>2. sessions[h] \in Session
    BY <1>4, <2>1 DEF PolicySecret, TPM2_PolicySecret
  <2>3. Append(sessions[h].digest, SecretAssertion) \in Policy
    BY <2>2 DEF Session, Policy
  <2>4. [sessions[h] EXCEPT !.digest = Append(@, SecretAssertion)] \in Session
    BY <2>2, <2>3 DEF Session
  <2>5. DeviceTypeOK'
    BY <1>4, <2>1, <2>4 DEF PolicySecret, TPM2_PolicySecret
  <2>6. CASE Fail(c, call[c])
    BY <2>5, <2>6 DEF Fail, Leaves
  <2>7. CASE GoOn(c, "ActivateCredential", call[c])
    BY <2>1, <2>5, <2>7 DEF GoOn
  <2> QED
    BY <1>4, <2>6, <2>7 DEF PolicySecret
<1>5. CASE ActivateCredential(c)
  <2> DEFINE info == CertInfo(LoadedName(call[c].ak), call[c].blob, call[c].secret)
  <2>1. call[c] \in Call /\ call[c].session \in SessionHandles
    BY <1>5 DEF ActivateCredential, Places
  <2>2. [digest |-> <<>>, counter |-> Unbound] \in Session
    BY PolicyType DEF Session, Unbound
  <2>3. DeviceTypeOK'
    BY <1>5, <2>1, <2>2
    DEF ActivateCredential, TPM2_ActivateCredential, SessionUsed
  <2>4. info \in Credentials
    <3>1. info # None
      BY <1>5 DEF ActivateCredential
    <3>2. PICK b1 \in bound : call[c].blob = WrapOf(b1).blob
      BY <1>5, Continues DEF IInv, Honest
    <3>3. PICK b2 \in bound : call[c].secret = WrapOf(b2).secret
      BY <1>5, Continues DEF IInv, Honest
    <3>4. PICK name, got : name = LoadedName(call[c].ak) /\ got = info
      OBVIOUS
    <3>5. got # None /\ got = CertInfo(name, WrapOf(b1).blob, WrapOf(b2).secret)
      BY <3>1, <3>2, <3>3, <3>4
    <3>6. got = b1.credential
      BY ONLY <3>5, Recovers
    <3> QED
      BY <3>4, <3>6, <1>0 DEF Binding
  <2>5. /\ pc' = [pc EXCEPT ![c] = "idle"]
        /\ call' = [call EXCEPT ![c] = None]
        /\ result' \in {result, [result EXCEPT ![c] = info]}
        /\ UNCHANGED <<challenges, bound>>
        /\ Leaves(call[c])
    BY <1>5 DEF ActivateCredential, Fail
  <2>6. leftSessions' \in Nat
    BY <2>5 DEF Leaves
  <2> HIDE DEF info
  <2> QED
    BY <2>3, <2>4, <2>5, <2>6
<1>6. CASE CommandFails(c)
  BY <1>6 DEF CommandFails, Fail, Leaves, device
<1> QED
  BY <1>1, <1>2, <1>3, <1>4, <1>5, <1>6, Starts DEF Step

\* Every step preserves types.
LEMMA TypeStep == IInv /\ [Next]_vars => TypeOK'
<1> SUFFICES ASSUME IInv, [Next]_vars PROVE TypeOK'
  OBVIOUS
<1>1. CASE UNCHANGED vars
  BY <1>1 DEF vars, device, program, IInv, TypeOK, DeviceTypeOK
<1> QED
  BY <1>1, DeviceType, CallType DEF Next, Step, IInv
-----------------------------------------------------------------------------
(* The other parts of the inductive invariant.                             *)

\* The call records stay with their places.
LEMMA PlacesStep == IInv /\ [Next]_vars => Places'
<1> SUFFICES ASSUME IInv, [Next]_vars PROVE Places'
  OBVIOUS
<1> USE DEF Places
<1>0. TypeOK /\ Places
  BY DEF IInv
<1>1. CASE UNCHANGED <<pc, call>>
  BY <1>0, <1>1
<1>2. CASE Crash \/ Reset
  BY <1>2 DEF Crash, Reset, ProgramDies
<1>3. ASSUME NEW c \in Callers, NEW b1 \in Binding, NEW b2 \in Binding,
             Start(c, WrapOf(b1).blob, WrapOf(b2).secret)
      PROVE  Places'
  BY <1>0, <1>3, Started
<1>4. ASSUME NEW c \in Callers,
             \/ StartAuthSession(c) \/ PolicySecret(c)
             \/ ActivateCredential(c) \/ CommandFails(c)
      PROVE  Places'
  <2>1. call[c] # None /\ call[c] \in Call
    BY <1>0, <1>4, Continues
  <2>2. \A d \in Callers \ {c} : pc'[d] = pc[d] /\ call'[d] = call[d]
    BY <1>0, <1>4, Frame DEF Step
  <2>3. CASE call'[c] = None /\ pc'[c] = "idle"
    BY <1>0, <2>2, <2>3
  <2>4. CASE StartAuthSession(c) /\ ~ (call'[c] = None /\ pc'[c] = "idle")
    <3>1. PICK h \in SessionHandles :
            GoOn(c, "PolicySecret", [call[c] EXCEPT !.session = h])
      BY <1>0, <2>4 DEF StartAuthSession, Fail, TypeOK
    <3>2. call'[c] \in Call /\ call'[c].session = h /\ pc'[c] = "PolicySecret"
      BY <1>0, <2>1, <3>1 DEF GoOn, TypeOK, Call
    <3> QED
      BY <1>0, <2>2, <3>2, NoneFacts
  <2>5. CASE PolicySecret(c) /\ ~ (call'[c] = None /\ pc'[c] = "idle")
    <3>1. GoOn(c, "ActivateCredential", call[c])
      BY <1>0, <2>5 DEF PolicySecret, Fail, TypeOK
    <3> QED
      BY <1>0, <2>1, <2>2, <2>5, <3>1 DEF GoOn, PolicySecret, TypeOK
  <2>6. CASE ActivateCredential(c) \/ CommandFails(c)
    BY <1>0, <2>3, <2>6 DEF ActivateCredential, CommandFails, Fail, TypeOK
  <2> QED
    BY <1>4, <2>3, <2>4, <2>5, <2>6
<1>5. CASE UNCHANGED vars \/ CreatePrimary \/ Challenge
  BY <1>1, <1>5 DEF vars, program, CreatePrimary, Challenge
<1>6. ASSUME NEW c \in Callers, Refuses(c) PROVE Places'
  BY <1>1, <1>6 DEF Refuses
<1> QED
  BY <1>2, <1>3, <1>4, <1>5, <1>6, Starts DEF Next

\* Nothing but keys is ever loaded.
LEMMA LoadedStep == IInv /\ [Next]_vars => Loaded'
<1> SUFFICES ASSUME IInv, [Next]_vars PROVE Loaded'
  OBVIOUS
<1> USE DEF IInv, Loaded
<1>1. CASE UNCHANGED objects
  BY <1>1
<1>2. CASE CreatePrimary
  BY <1>2 DEF CreatePrimary, TPM2_CreatePrimary, TypeOK, DeviceTypeOK
<1>3. CASE Reset
  BY <1>3 DEF Reset, TPM_Reset
<1>4. CASE UNCHANGED vars \/ Challenge \/ Crash
  BY <1>1, <1>4 DEF vars, device, Challenge, Crash
<1>5. ASSUME NEW c \in Callers, Step(c) PROVE UNCHANGED objects
  BY <1>5
  DEF Step, device, ActivateChallenge, ActivateAKWithEK, Start,
      StartAuthSession, TPM2_StartAuthSession, PolicySecret, TPM2_PolicySecret,
      ActivateCredential, TPM2_ActivateCredential, CommandFails
<1> QED
  BY <1>1, <1>2, <1>3, <1>4, <1>5 DEF Next, Step

\* Slices stay those of bindings: a binding is never taken back.
LEMMA HonestStep == IInv /\ [Next]_vars => Honest'
<1> SUFFICES ASSUME IInv, [Next]_vars PROVE Honest'
  OBVIOUS
<1> USE DEF Honest
<1>0. TypeOK /\ Places /\ Honest
  BY DEF IInv
<1>1. CASE UNCHANGED <<call, challenges, bound>>
  BY <1>0, <1>1
<1>2. CASE Challenge
  <2>1. PICK a \in Publics, e \in Publics, s \in Credentials :
          /\ challenges' =
               challenges \cup {MakeCredential(e.key, ObjectName(a), s)}
          /\ bound' = bound \cup {[credential |-> s, ak |-> ObjectName(a),
                                   ek |-> e.key]}
    BY <1>2 DEF Challenge
  <2>2. PICK b : b = [credential |-> s, ak |-> ObjectName(a), ek |-> e.key]
    OBVIOUS
  <2>3. WrapOf(b) = MakeCredential(e.key, ObjectName(a), s)
    BY <2>2 DEF WrapOf
  <2>4. challenges' = challenges \cup {WrapOf(b)} /\ bound' = bound \cup {b}
    BY <2>1, <2>2, <2>3
  <2>5. UNCHANGED call
    BY <1>2 DEF Challenge
  <2> QED
    BY ONLY <1>0, <2>4, <2>5 DEF Honest
<1>3. CASE Crash \/ Reset
  BY <1>0, <1>3 DEF Crash, Reset, ProgramDies
<1>4. ASSUME NEW c \in Callers,
             \/ StartAuthSession(c) \/ PolicySecret(c)
             \/ ActivateCredential(c) \/ CommandFails(c)
      PROVE  Honest'
  <2>1. \A d \in Callers \ {c} : call'[d] = call[d]
    BY <1>0, <1>4, Frame DEF Step
  <2>2. /\ call[c] # None
        /\ call'[c] # None => /\ call'[c].blob = call[c].blob
                              /\ call'[c].secret = call[c].secret
        /\ UNCHANGED <<challenges, bound>>
    BY <1>0, <1>4, Continues
  <2> QED
    BY ONLY <1>0, <2>1, <2>2 DEF Honest
<1>5. ASSUME NEW c \in Callers,
             NEW b1 \in Binding \cap bound', NEW b2 \in Binding \cap bound',
             Start(c, WrapOf(b1).blob, WrapOf(b2).secret),
             bound \subseteq bound', UNCHANGED challenges
      PROVE  Honest'
  <2>1. /\ call'[c].blob = WrapOf(b1).blob /\ call'[c].secret = WrapOf(b2).secret
        /\ \A d \in Callers \ {c} : call'[d] = call[d]
    BY <1>0, <1>5, Started
  <2> QED
    BY ONLY <1>0, <1>5, <2>1 DEF Honest
<1>6. CASE UNCHANGED vars \/ CreatePrimary
  BY <1>1, <1>6 DEF vars, program, CreatePrimary
<1>7. ASSUME NEW c \in Callers, Refuses(c) PROVE Honest'
  BY <1>1, <1>7 DEF Refuses
<1> QED
  BY <1>2, <1>3, <1>4, <1>5, <1>6, <1>7, Starts DEF Next

\* What a step may do to the one session it uses: the session of its own call.
LEMMA OneSession ==
  ASSUME Places, CallsOwnSessions, NEW c \in Callers, NEW h \in SessionHandles,
         \A d \in Callers \ {c} : pc'[d] = pc[d] /\ call'[d] = call[d],
         \A d \in Callers \ {c} : call[d] # None => call[d].session # h,
         \A k \in SessionHandles \ {h} : sessions'[k] = sessions[k],
         call'[c] # None =>
           /\ call'[c].session = h /\ sessions'[h] # None
           /\ sessions'[h].digest =
                IF pc'[c] = "PolicySecret" THEN <<>> ELSE ekAuthPolicy
  PROVE  CallsOwnSessions'
<1>1. ASSUME NEW d \in Callers, d # c, call'[d] # None,
             pc'[d] # "StartAuthSession"
      PROVE  /\ sessions'[call'[d].session] # None
             /\ sessions'[call'[d].session].digest =
                  IF pc'[d] = "PolicySecret" THEN <<>> ELSE ekAuthPolicy
             /\ \A e \in Callers \ {d} :
                  call'[e] # None => call'[e].session # call'[d].session
  <2>1. call[d].session \in SessionHandles /\ call[d].session # h
    BY <1>1 DEF Places
  <2>2. call'[c] # None => call'[c].session # call[d].session
    BY <2>1
  <2> QED
    BY <1>1, <2>1, <2>2 DEF CallsOwnSessions
<1>2. ASSUME NEW d \in Callers, call'[d] # None, pc'[d] # "StartAuthSession"
      PROVE  /\ sessions'[call'[d].session] # None
             /\ sessions'[call'[d].session].digest =
                  IF pc'[d] = "PolicySecret" THEN <<>> ELSE ekAuthPolicy
             /\ \A e \in Callers \ {d} :
                  call'[e] # None => call'[e].session # call'[d].session
  BY <1>1, <1>2
<1> QED
  BY ONLY <1>2 DEF CallsOwnSessions

\* A goroutine opens a session in an empty slot, and touches no other.
LEMMA SessionsStep == IInv /\ [Next]_vars => CallsOwnSessions'
<1> SUFFICES ASSUME IInv, [Next]_vars PROVE CallsOwnSessions'
  OBVIOUS
<1>0. TypeOK /\ Places /\ Places' /\ CallsOwnSessions
  BY PlacesStep DEF IInv
<1>1. CASE UNCHANGED <<pc, call, sessions>>
  BY <1>0, <1>1 DEF CallsOwnSessions
<1>2. CASE Crash \/ Reset
  BY <1>2 DEF Crash, Reset, ProgramDies, CallsOwnSessions
<1>3. ASSUME NEW c \in Callers, NEW b1 \in Binding, NEW b2 \in Binding,
             Start(c, WrapOf(b1).blob, WrapOf(b2).secret)
      PROVE  CallsOwnSessions'
  <2>1. /\ call'[c].session = None /\ pc'[c] = "StartAuthSession"
        /\ \A d \in Callers \ {c} : pc'[d] = pc[d] /\ call'[d] = call[d]
    BY <1>0, <1>3, Started
  <2>2. UNCHANGED sessions
    BY <1>3 DEF Start, device
  <2> QED
    BY <1>0, <2>1, <2>2, NoneFacts DEF Places, CallsOwnSessions
<1>4. ASSUME NEW c \in Callers,
             \/ StartAuthSession(c) \/ PolicySecret(c)
             \/ ActivateCredential(c) \/ CommandFails(c)
      PROVE  CallsOwnSessions'
  <2>1. call[c] # None /\ call[c] \in Call
    BY <1>0, <1>4, Continues
  <2>2. \A d \in Callers \ {c} : pc'[d] = pc[d] /\ call'[d] = call[d]
    BY <1>0, <1>4, Frame DEF Step
  <2>3. CASE StartAuthSession(c)
    <3>1. PICK h \in SessionHandles :
            /\ TPM2_StartAuthSession(h)
            /\ \/ Fail(c, [call[c] EXCEPT !.session = h])
               \/ GoOn(c, "PolicySecret", [call[c] EXCEPT !.session = h])
      BY <2>3 DEF StartAuthSession
    <3>2. /\ sessions[h] = None
          /\ sessions'[h] # None /\ sessions'[h].digest = <<>>
          /\ \A k \in SessionHandles \ {h} : sessions'[k] = sessions[k]
      <4>1. [digest |-> <<>>, counter |-> Unbound] \in Session
        BY PolicyType DEF Session, Unbound
      <4> QED
        BY <1>0, <3>1, <4>1, NoneFacts
        DEF TPM2_StartAuthSession, TypeOK, DeviceTypeOK
    <3>3. \A d \in Callers \ {c} : call[d] # None => call[d].session # h
      BY <1>0, <3>2, NoneFacts DEF Places, CallsOwnSessions
    <3>4. \/ call'[c] = None
          \/ call'[c].session = h /\ pc'[c] = "PolicySecret"
      BY <1>0, <2>1, <3>1 DEF Fail, GoOn, TypeOK, Call
    <3> QED
      BY <1>0, <2>2, <3>2, <3>3, <3>4, OneSession
  <2>4. CASE PolicySecret(c)
    <3> DEFINE h == call[c].session
    <3>1. h \in SessionHandles /\ sessions[h] \in Session /\ sessions[h].digest = <<>>
      BY <1>0, <2>1, <2>4
      DEF PolicySecret, TPM2_PolicySecret, Places, TypeOK, DeviceTypeOK,
          CallsOwnSessions
    <3>2. /\ sessions'[h] = [sessions[h] EXCEPT !.digest = Append(@, SecretAssertion)]
          /\ \A k \in SessionHandles \ {h} : sessions'[k] = sessions[k]
      BY <1>0, <2>4, <3>1 DEF PolicySecret, TPM2_PolicySecret, TypeOK, DeviceTypeOK
    <3>3. sessions'[h].digest = ekAuthPolicy
      BY <3>1, <3>2 DEF Session, ekAuthPolicy
    <3>4. sessions'[h] # None
      <4>1. sessions'[h] \in Session
        <5>1. Append(sessions[h].digest, SecretAssertion) \in Policy
          BY <3>1, PolicyType DEF ekAuthPolicy
        <5> QED
          BY <3>1, <3>2, <5>1 DEF Session
      <4> QED
        BY <4>1, NoneFacts
    <3>5. \A d \in Callers \ {c} : call[d] # None => call[d].session # h
      BY <1>0, <2>1, <2>4 DEF PolicySecret, CallsOwnSessions
    <3>6. \/ call'[c] = None
          \/ call'[c] = call[c] /\ pc'[c] = "ActivateCredential"
      BY <1>0, <2>4 DEF PolicySecret, Fail, GoOn, TypeOK
    <3> HIDE DEF h
    <3>7. call'[c] # None => call'[c].session = h
      BY <3>6 DEF h
    <3>8. PICK k \in SessionHandles : k = h
      BY <3>1 DEF h
    <3> QED
      BY <1>0, <2>2, <3>2, <3>3, <3>4, <3>5, <3>6, <3>7, <3>8, OneSession
  <2>5. CASE ActivateCredential(c)
    <3> DEFINE h == call[c].session
    <3>1. \A k \in SessionHandles \ {h} : sessions'[k] = sessions[k]
      BY <1>0, <2>5
      DEF ActivateCredential, TPM2_ActivateCredential, SessionUsed, TypeOK,
          DeviceTypeOK
    <3>2. \A d \in Callers \ {c} : call[d] # None => call[d].session # h
      BY <1>0, <2>1, <2>5 DEF ActivateCredential, CallsOwnSessions
    <3>3. call'[c] = None
      BY <1>0, <2>5 DEF ActivateCredential, Fail, TypeOK
    <3> HIDE DEF h
    <3>4. PICK k \in SessionHandles : k = h
      BY <1>0, <2>1, <2>5 DEF ActivateCredential, Places, h
    <3> QED
      BY <1>0, <2>2, <3>1, <3>2, <3>3, <3>4, OneSession
  <2>6. CASE CommandFails(c)
    <3>1. call'[c] = None /\ UNCHANGED sessions
      BY <1>0, <2>6 DEF CommandFails, Fail, TypeOK, device
    <3> QED
      BY <1>0, <2>2, <3>1 DEF CallsOwnSessions
  <2> QED
    BY <1>4, <2>3, <2>4, <2>5, <2>6
<1>5. CASE UNCHANGED vars \/ CreatePrimary \/ Challenge
  BY <1>1, <1>5
  DEF vars, device, program, CreatePrimary, TPM2_CreatePrimary, Challenge
<1>6. ASSUME NEW c \in Callers, Refuses(c) PROVE CallsOwnSessions'
  BY <1>1, <1>6 DEF Refuses, device
<1> QED
  BY <1>2, <1>3, <1>4, <1>5, <1>6, Starts DEF Next

\* The initial states satisfy the inductive invariant.
LEMMA InitIInv == Init => IInv
BY DEF Init, DeviceInit, IInv, TypeOK, DeviceTypeOK, Places, Loaded, Honest,
       CallsOwnSessions

\* The inductive invariant holds in every reachable state.
THEOREM Invariant == Spec => []IInv
<1>1. IInv /\ [Next]_vars => IInv'
  BY TypeStep, PlacesStep, LoadedStep, HonestStep, SessionsStep DEF IInv
<1> QED
  BY <1>1, InitIInv, PTL DEF Spec

\* Every variable of credential activation and of the device keeps its type.
THEOREM TypeCorrect == Spec => []TypeOK
<1>1. IInv => TypeOK
  BY DEF IInv
<1> QED
  BY <1>1, Invariant, PTL

\* A session belongs to the one call that opened it, with the assertions of
\* that call (activate.go, ActivateAKWithEK).
THEOREM SessionsOwned == Spec => []CallsOwnSessions
<1>1. IInv => CallsOwnSessions
  BY DEF IInv
<1> QED
  BY <1>1, Invariant, PTL

\* Library and device agree: on the device of both keys, a call with both
\* slices is authorized and gets the credential (activate.go, doc comment of
\* ActivateCredential, "iff").
THEOREM Activates == Spec => []SameDeviceActivates
<1>1. ASSUME IInv PROVE SameDeviceActivates
  <2> SUFFICES ASSUME NEW c \in Callers, NEW b \in bound,
                      pc[c] = "ActivateCredential",
                      call[c].blob = WrapOf(b).blob,
                      call[c].secret = WrapOf(b).secret,
                      b.ak = OwnAK, objects[call[c].ak] = AttestationKey,
                      b.ek = OwnEK, objects[call[c].ek] = EndorsementKey
               PROVE  /\ ActivateAuthorized(call[c].ak, call[c].ek, call[c].session)
                      /\ CertInfo(LoadedName(call[c].ak), call[c].blob,
                                  call[c].secret) = b.credential
    BY DEF SameDeviceActivates, WrapOf
  <2>1. call[c] # None
    BY <1>1 DEF IInv, Places
  <2>2. /\ sessions[call[c].session] # None
        /\ sessions[call[c].session].digest = ekAuthPolicy
    BY <1>1, <2>1 DEF IInv, CallsOwnSessions
  <2>3. AttestationKey \notin {None, EndorsementKey}
    BY NoneFacts DEF Primaries, AttestationKey, EndorsementKey
  <2>4. LoadedName(call[c].ak) = b.ak
    BY DEF LoadedName, OwnAK, AttestationKey
  <2>5. PICK n, s : n = b.ak /\ s = b.credential
    OBVIOUS
  <2>6. CertInfo(n, WrapOf(b).blob, WrapOf(b).secret) = s
    BY <2>5, RoundTrip DEF WrapOf
  <2> QED
    BY <2>2, <2>3, <2>4, <2>5, <2>6 DEF ActivateAuthorized
<1> QED
  BY <1>1, Invariant, PTL
-----------------------------------------------------------------------------
(* Slots.                                                                  *)

\* A call that is over gives up its session, and is counted for it.
LEMMA Over ==
  ASSUME TypeOK, NEW c \in Callers, Step(c), call[c] # None, call'[c] = None,
         Leaves(call[c])
  PROVE  leftSessions' + Cardinality(Holding') = leftSessions + Cardinality(Holding)
<1>1. \A d \in Callers \ {c} : call'[d] = call[d]
  BY Frame
<1>2. Holding' = Holding \ {c}
  BY <1>1 DEF Holding
<1>3. CASE c \in Holding
  <2>1. leftSessions' = leftSessions + 1
    BY <1>3 DEF Holding, Leaves
  <2>2. Cardinality(Holding') = Cardinality(Holding) - 1
    BY <1>2, <1>3, Finite, FS_RemoveElement
  <2> QED
    BY <2>1, <2>2, Finite DEF TypeOK
<1>4. CASE c \notin Holding
  <2>1. leftSessions' = leftSessions
    BY <1>4 DEF Holding, Leaves, TypeOK
  <2>2. Holding' = Holding
    BY <1>2, <1>4
  <2> QED
    BY <2>1, <2>2
<1> QED
  BY <1>3, <1>4

\* Every session that is opened is held by the call it was opened for, or left
\* by it.
LEMMA SlotsStep == IInv /\ SlotsSpent /\ [Next]_vars => SlotsSpent'
<1> SUFFICES ASSUME IInv, SlotsSpent, [Next]_vars PROVE SlotsSpent'
  OBVIOUS
<1> DEFINE m == Cardinality(Holding)
           n == Cardinality(Open)
<1>0. TypeOK /\ Places /\ leftSessions \in Nat /\ m \in Nat /\ n \in Nat
      /\ m' \in Nat /\ n' \in Nat /\ leftSessions + m = n
  BY Finite DEF IInv, TypeOK, SlotsSpent, Open
<1> SUFFICES leftSessions' + m' = n'
  BY DEF SlotsSpent, Open
<1>1. CASE UNCHANGED <<leftSessions, sessions, call>>
  <2>1. Holding' = Holding /\ Open' = Open
    BY <1>1 DEF Holding, Open
  <2> QED
    BY <1>0, <1>1, <2>1
<1>2. CASE Crash
  <2>1. Holding' = {} /\ Open' = Open
    BY <1>2 DEF Crash, ProgramDies, device, Holding, Open
  <2>2. m' = 0 /\ n' = n /\ leftSessions' = leftSessions + m
    BY <1>2, <2>1, FS_EmptySet DEF Crash
  <2> QED
    BY <1>0, <2>2
<1>3. CASE Reset
  <2>1. Holding' = {} /\ Open' = {}
    BY <1>3 DEF Reset, ProgramDies, TPM_Reset, Holding, Open
  <2>2. m' = 0 /\ n' = 0 /\ leftSessions' = 0
    BY <1>3, <2>1, FS_EmptySet DEF Reset
  <2> QED
    BY <2>2
<1>4. ASSUME NEW c \in Callers, Step(c), call[c] # None, call'[c] = None,
             Leaves(call[c]), Open' = Open
      PROVE  leftSessions' + m' = n'
  BY <1>0, <1>4, Over
<1>5. ASSUME NEW c \in Callers, NEW b1 \in Binding, NEW b2 \in Binding,
             Start(c, WrapOf(b1).blob, WrapOf(b2).secret)
      PROVE  leftSessions' + m' = n'
  <2>1. /\ call'[c].session = None
        /\ \A d \in Callers \ {c} : call'[d] = call[d]
    BY <1>0, <1>5, Started
  <2>2. call[c] = None /\ UNCHANGED <<sessions, leftSessions>>
    BY <1>0, <1>5 DEF Start, Places, device
  <2>3. Holding' = Holding /\ Open' = Open
    BY <2>1, <2>2 DEF Holding, Open
  <2> QED
    BY <1>0, <2>2, <2>3
<1>6. ASSUME NEW c \in Callers, StartAuthSession(c)
      PROVE  leftSessions' + m' = n'
  <2>1. PICK h \in SessionHandles :
          /\ TPM2_StartAuthSession(h)
          /\ \/ Fail(c, [call[c] EXCEPT !.session = h])
             \/ GoOn(c, "PolicySecret", [call[c] EXCEPT !.session = h])
    BY <1>6 DEF StartAuthSession
  <2>2. h \notin Open /\ Open' = Open \cup {h}
    <3>1. [digest |-> <<>>, counter |-> Unbound] \in Session
      BY PolicyType DEF Session, Unbound
    <3> QED
      BY <1>0, <2>1, <3>1, NoneFacts
      DEF TPM2_StartAuthSession, Open, TypeOK, DeviceTypeOK
  <2>3. n' = n + 1
    BY <2>2, Finite, FS_AddElement
  <2>4. /\ call[c] \in Call /\ call[c] # None /\ c \notin Holding
        /\ \A d \in Callers \ {c} : call'[d] = call[d]
    BY <1>0, <1>6, Continues, Frame DEF Step, StartAuthSession, Places, Holding
  <2>5. [call[c] EXCEPT !.session = h].session = h /\ h # None
        /\ [call[c] EXCEPT !.session = h] \in Call
    BY <2>4, NoneFacts DEF Call
  <2>6. CASE Fail(c, [call[c] EXCEPT !.session = h])
    <3>1. call'[c] = None /\ leftSessions' = leftSessions + 1
      BY <1>0, <2>5, <2>6 DEF Fail, Leaves, TypeOK
    <3>2. Holding' = Holding
      BY <2>4, <3>1 DEF Holding
    <3> QED
      BY <1>0, <2>3, <3>1, <3>2
  <2>7. CASE GoOn(c, "PolicySecret", [call[c] EXCEPT !.session = h])
    <3>1. call'[c] = [call[c] EXCEPT !.session = h] /\ leftSessions' = leftSessions
      BY <1>0, <2>7 DEF GoOn, TypeOK
    <3>2. Holding' = Holding \cup {c}
      BY <2>4, <2>5, <3>1, NoneFacts DEF Holding
    <3>3. m' = m + 1
      BY <2>4, <3>2, Finite, FS_AddElement
    <3> QED
      BY <1>0, <2>3, <3>1, <3>3
  <2> QED
    BY <2>1, <2>6, <2>7
<1>7. ASSUME NEW c \in Callers, PolicySecret(c) PROVE leftSessions' + m' = n'
  <2>1. call[c] # None /\ call[c].session \in SessionHandles
    BY <1>0, <1>7 DEF PolicySecret, Places
  <2>2. Open' = Open
    <3>1. sessions[call[c].session] \in Session
      BY <1>0, <1>7, <2>1 DEF PolicySecret, TPM2_PolicySecret, TypeOK, DeviceTypeOK
    <3>2. [sessions[call[c].session] EXCEPT !.digest = Append(@, SecretAssertion)]
            \in Session
      <4>1. Append(sessions[call[c].session].digest, SecretAssertion) \in Policy
        BY <3>1 DEF Session, Policy
      <4> QED
        BY <3>1, <4>1 DEF Session
    <3> QED
      BY <1>0, <1>7, <2>1, <3>1, <3>2, NoneFacts
      DEF PolicySecret, TPM2_PolicySecret, Open, TypeOK, DeviceTypeOK
  <2>3. CASE Fail(c, call[c])
    <3>1. call'[c] = None /\ Leaves(call[c])
      BY <1>0, <2>3 DEF Fail, TypeOK
    <3> QED
      BY <1>4, <1>7, <2>1, <2>2, <3>1 DEF Step
  <2>4. CASE GoOn(c, "ActivateCredential", call[c])
    <3>1. UNCHANGED <<call, leftSessions>>
      BY <1>0, <2>4 DEF GoOn, TypeOK
    <3>2. Holding' = Holding
      BY <3>1 DEF Holding
    <3> QED
      BY <1>0, <2>2, <3>1, <3>2
  <2> QED
    BY <1>7, <2>3, <2>4 DEF PolicySecret
<1>8. ASSUME NEW c \in Callers, ActivateCredential(c)
      PROVE  leftSessions' + m' = n'
  <2>1. call[c] # None /\ call'[c] = None /\ Leaves(call[c])
    BY <1>0, <1>8 DEF ActivateCredential, Fail, Places, TypeOK
  <2>2. Open' = Open
    <3>1. call[c].session \in SessionHandles
      BY <1>0, <1>8 DEF ActivateCredential, Places
    <3>2. [digest |-> <<>>, counter |-> Unbound] # None
      BY PolicyType, NoneFacts DEF Session, Unbound
    <3> QED
      BY <1>0, <1>8, <3>1, <3>2
      DEF ActivateCredential, TPM2_ActivateCredential, ActivateAuthorized,
          SessionUsed, sessionContinue, Open, TypeOK, DeviceTypeOK
  <2> QED
    BY <1>4, <1>8, <2>1, <2>2 DEF Step
<1>9. ASSUME NEW c \in Callers, CommandFails(c) PROVE leftSessions' + m' = n'
  <2>1. /\ call[c] # None /\ call'[c] = None /\ Leaves(call[c]) /\ Open' = Open
    BY <1>0, <1>9 DEF CommandFails, Fail, Places, Open, TypeOK, device
  <2> QED
    BY <1>4, <1>9, <2>1 DEF Step
<1>10. CASE UNCHANGED vars \/ CreatePrimary \/ Challenge
  BY <1>1, <1>10
  DEF vars, device, program, CreatePrimary, TPM2_CreatePrimary, Challenge
<1>11. ASSUME NEW c \in Callers, Refuses(c) PROVE leftSessions' + m' = n'
  BY <1>1, <1>11 DEF Refuses, device
<1> QED
  BY <1>2, <1>3, <1>5, <1>6, <1>7, <1>8, <1>9, <1>10, <1>11, Starts DEF Next

\* However the calls of a boot end, each that has opened a session has a slot of
\* its own until the next reset: ActivateAKWithEK opens a session and nothing
\* closes it.
THEOREM SlotsBoundActivations == Spec => []SlotsSpent
<1>1. Init => SlotsSpent
  <2> SUFFICES ASSUME Init PROVE leftSessions + Cardinality(Holding) = Cardinality(Open)
    BY DEF SlotsSpent, Open
  <2>1. Holding = {} /\ Open = {} /\ leftSessions = 0
    BY DEF Init, DeviceInit, Holding, Open
  <2>2. Cardinality(Holding) = 0 /\ Cardinality(Open) = 0
    BY <2>1, FS_EmptySet
  <2> QED
    BY <2>1, <2>2
<1> QED
  BY <1>1, SlotsStep, Invariant, PTL DEF Spec
-----------------------------------------------------------------------------
(* Activating implements Activation.                                       *)

\* The kinds of key that are loaded.
Present == {objects[h].kind : h \in {h \in ObjectHandles : objects[h] # None}}

\* A credential is recovered where both its keys are.
LEMMA Releases ==
  ASSUME IInv, NEW c \in Callers, ActivateCredential(c), ~ Fail(c, call[c])
  PROVE  TheActivation!Recover(c)
<1> DEFINE args == call[c]
<1>1. PICK name, info :
        /\ name = LoadedName(args.ak) /\ info # None
        /\ info = CertInfo(name, args.blob, args.secret)
        /\ result' = [result EXCEPT ![c] = info]
  BY DEF ActivateCredential
<1>2. args # None /\ args \in Call
  BY Continues DEF IInv
<1>3. PICK b1 \in bound, b2 \in bound :
        args.blob = WrapOf(b1).blob /\ args.secret = WrapOf(b2).secret
  BY <1>2 DEF IInv, Honest
<1>4. info = b1.credential /\ b1.ak = name /\ b1.ek = OwnEK
  <2>1. info # None /\ info = CertInfo(name, WrapOf(b1).blob, WrapOf(b2).secret)
    BY <1>1, <1>3
  <2> QED
    BY ONLY <2>1, Recovers
<1>5. /\ args.ak \in ObjectHandles /\ args.ek \in ObjectHandles
      /\ objects[args.ak] \notin {None, EndorsementKey}
      /\ objects[args.ek] = EndorsementKey
      /\ UNCHANGED objects
  BY <1>2
  DEF ActivateCredential, TPM2_ActivateCredential, ActivateAuthorized, Call
<1>6. objects[args.ak] = AttestationKey
  BY <1>5 DEF IInv, Loaded
<1>7. b1.ak = OwnAK
  BY <1>1, <1>4, <1>6 DEF LoadedName, OwnAK, AttestationKey
<1>8. Present = {"attestation", "endorsement"}
  <2>1. AttestationKey # None /\ EndorsementKey # None
    BY NoneFacts DEF Primaries
  <2>2. AttestationKey.kind = "attestation" /\ EndorsementKey.kind = "endorsement"
    BY DEF AttestationKey, EndorsementKey
  <2>3. "attestation" \in Present /\ "endorsement" \in Present
    BY <1>5, <1>6, <2>1, <2>2 DEF Present
  <2>4. Present \subseteq {"attestation", "endorsement"}
    BY <2>2 DEF Present, IInv, Loaded
  <2> QED
    BY <2>3, <2>4
<1>9. Present' = Present
  BY <1>5 DEF Present
<1>10. UNCHANGED bound
  BY DEF ActivateCredential, Fail
<1> HIDE DEF args
<1> QED
  BY <1>1, <1>4, <1>7, <1>8, <1>9, <1>10
  DEF TheActivation!Recover, TheActivation!Kinds, Present, OwnAK, OwnEK

\* A binding that is made is the abstract one.
LEMMA Binds ==
  ASSUME TypeOK, NEW a \in Publics, NEW e \in Publics, NEW s \in Credentials,
         Fresh(s), ObjectName(a) # None,
         bound' = bound \cup {[credential |-> s, ak |-> ObjectName(a),
                              ek |-> e.key]},
         \/ UNCHANGED result
         \/ \E c \in Callers : result' = [result EXCEPT ![c] = None],
         UNCHANGED objects
  PROVE  TheActivation!Bind
<1> DEFINE b == [credential |-> s, ak |-> ObjectName(a), ek |-> e.key]
<1>1. b \in TheActivation!Binding
  BY NameType, ActivatingAssumption
  DEF PublicArea, Key, TheActivation!Binding, TheActivation!Key,
      TheActivation!Kinds
<1>2. \A old \in bound : old.credential # b.credential
  BY DEF Fresh
<1>3. bound' = bound \cup {b}
  OBVIOUS
<1> HIDE DEF b
<1> QED
  BY <1>1, <1>2, <1>3 DEF TheActivation!Bind

\* Every step of credential activation is an abstract step, or none.
LEMMA StepActivation ==
  IInv /\ [Next]_vars => [TheActivation!Next]_(TheActivation!vars)
<1> SUFFICES ASSUME IInv, [Next]_vars
             PROVE  [TheActivation!Next]_(TheActivation!vars)
  OBVIOUS
<1> USE DEF TheActivation!Next, TheActivation!vars
<1>0. TypeOK
  BY DEF IInv
<1>1. CASE UNCHANGED <<objects, bound, result>>
  BY <1>1
<1>2. CASE CreatePrimary
  <2>1. PICK h \in ObjectHandles, key \in {AttestationKey, EndorsementKey} :
          TPM2_CreatePrimary(h, key)
    BY <1>2 DEF CreatePrimary
  <2>2. key # None /\ key.kind \in TheActivation!Kinds
    BY NoneFacts
    DEF Primaries, AttestationKey, EndorsementKey, TheActivation!Kinds
  <2>3. Present' = Present \cup {key.kind}
    BY <1>0, <2>1, <2>2
    DEF Present, TPM2_CreatePrimary, TypeOK, DeviceTypeOK
  <2>4. UNCHANGED <<bound, result>>
    BY <1>2 DEF CreatePrimary, program
  <2> QED
    BY <2>2, <2>3, <2>4 DEF TheActivation!LoadKey, Present
<1>3. CASE Challenge
  <2>1. PICK a \in Publics, e \in Publics, s \in Credentials :
          /\ ObjectName(a) # None /\ Fresh(s)
          /\ bound' = bound \cup {[credential |-> s, ak |-> ObjectName(a),
                                   ek |-> e.key]}
    BY <1>3 DEF Challenge
  <2>2. UNCHANGED <<result, objects>>
    BY <1>3 DEF Challenge, device
  <2> QED
    BY <1>0, <2>1, <2>2, Binds
<1>4. CASE Crash
  BY <1>4 DEF Crash, ProgramDies, device, TheActivation!Crash
<1>5. CASE Reset
  <2>1. Present' = {}
    BY <1>5 DEF Reset, TPM_Reset, Present
  <2> QED
    BY <1>5, <2>1 DEF Reset, ProgramDies, TheActivation!Reset, Present
<1>6. ASSUME NEW c \in Callers, ActivateChallenge(c) \/ Refuses(c)
      PROVE  TheActivation!Forget(c)
  BY <1>6 DEF ActivateChallenge, Refuses, Start, device, TheActivation!Forget
<1>7. ASSUME NEW c \in Callers, ActivateAKWithEK(c), ~ Refuses(c)
      PROVE  TheActivation!Bind
  <2>1. PICK a \in Publics, e \in Publics, s \in Credentials :
          LET mc == MakeCredential(e.key, ObjectName(a), s)
          IN /\ Fresh(s) /\ ObjectName(a) # None
             /\ Start(c, mc.blob, mc.secret)
             /\ bound' = bound \cup
                  {[credential |-> s, ak |-> ObjectName(a), ek |-> e.key]}
    BY <1>7 DEF ActivateAKWithEK, Refuses
  <2>2. result' = [result EXCEPT ![c] = None] /\ UNCHANGED objects
    BY <2>1 DEF Start, device
  <2> QED
    BY <1>0, <2>1, <2>2, Binds
<1>8. ASSUME NEW c \in Callers, ActivateCredential(c)
      PROVE  [TheActivation!Next]_(TheActivation!vars)
  <2>1. CASE Fail(c, call[c])
    BY <1>1, <1>8, <2>1 DEF ActivateCredential, TPM2_ActivateCredential, Fail
  <2> QED
    BY <1>8, <2>1, Releases
<1>9. ASSUME NEW c \in Callers,
             StartAuthSession(c) \/ PolicySecret(c) \/ CommandFails(c)
      PROVE  UNCHANGED <<objects, bound, result>>
  BY <1>9
  DEF StartAuthSession, TPM2_StartAuthSession, PolicySecret, TPM2_PolicySecret,
      CommandFails, GoOn, Fail, device
<1>10. CASE UNCHANGED vars
  BY <1>1, <1>10 DEF vars, device, program
<1> HIDE DEF TheActivation!Next
<1>11. ASSUME NEW c \in Callers, Step(c)
       PROVE  [TheActivation!Next]_(TheActivation!vars)
  BY <1>1, <1>6, <1>7, <1>8, <1>9, <1>11 DEF Step, TheActivation!Next
<1> QED
  BY <1>2, <1>3, <1>4, <1>5, <1>10, <1>11 DEF Next, Step, TheActivation!Next

\* A credential is recovered only by a program beside the device whose AK and
\* EK it was bound to, with both loaded, whatever is lost, replayed or mixed up.
THEOREM ActivationRefined == Spec => ImplementsActivation
<1>1. Init => TheActivation!Init
  BY DEF Init, DeviceInit, TheActivation!Init
<1> QED
  BY <1>1, StepActivation, Invariant, PTL
  DEF Spec, ImplementsActivation, TheActivation!Spec
=============================================================================
