--------------------------- MODULE SealingProofs ---------------------------
(***************************************************************************)
(* Proofs about the sealing paths, for any number of callers, handles,     *)
(* secrets and measurements.  The argument for the vault: whatever carries *)
(* a secret (a blob, a wrap, a call, a loaded object) carries a policy that*)
(* names the PCRs the secret was sealed for and no other value for them    *)
(* (Bound), and a session that authorizes anything holds the PCR values of *)
(* this very moment (Snapshots).                                           *)
(*                                                                         *)
(* Then the handles, on top of that invariant: what a call opened stays    *)
(* its own, what it leaves behind uses up a slot, and what was sealed to a *)
(* state can be unsealed in it.                                            *)
(***************************************************************************)
EXTENDS Sealing, FiniteSetTheorems, TLAPS

\* The policy was made when secret s was sealed.  A read that did not fit in
\* one reply leaves None where a value should be.
Bound(policy, s) ==
  \E e \in kept :
    /\ e.secret = s
    /\ Len(policy) = 1
    /\ policy[1].sel = e.sel
    /\ \A p \in e.sel : policy[1].vals[p] \in {None, e.vals[p]}

\* Everything that carries a secret is bound.
Carriers ==
  /\ \A b \in blobs : Bound(b.priv.name.policy, b.priv.secret)
  /\ \A w \in wraps : Bound(w.dup.name.policy, w.dup.secret)
  /\ \A c \in Callers : call[c] # None =>
       Bound(call[c].priv.name.policy, call[c].priv.secret)
  /\ \A h \in ObjectHandles : objects[h] \in Sealed =>
       Bound(objects[h].policy, objects[h].secret)

\* What a read returned agrees with the PCRs at the time, where it has a value.
Readings ==
  \A c \in Callers : reading[c] # None =>
    \A p \in Platform(reading[c].sel) :
      reading[c].vals[p] \in {None, reading[c].truth[p]}

\* The policy digest of a session that can be used now is made of values that
\* the PCRs have now.
Snapshot(h) ==
  sessions[h] # None =>
    /\ sessions[h].counter \in Unbound..updateCounter
    /\ sessions[h].counter = Unbound => sessions[h].digest = <<>>
    /\ sessions[h].counter = updateCounter =>
         \A i \in DOMAIN sessions[h].digest :
           sessions[h].digest[i].vals = Current(sessions[h].digest[i].sel)

Snapshots == \A h \in SessionHandles : Snapshot(h)

\* The call record goes with the place of the call in its chain.
Place(c) ==
  /\ pc[c] = "idle" <=> call[c] = None
  /\ call[c] # None =>
       /\ pc[c] = "Import" => call[c].priv \in Duplicate
       /\ pc[c] # "Import" => call[c].priv \in Private
       /\ pc[c] \in {"StartAuthSession", "PolicyPCR", "Unseal"} =>
            call[c].item \in ObjectHandles
       /\ pc[c] \in {"PolicyPCR", "Unseal"} =>
            call[c].session \in SessionHandles

Places == \A c \in Callers : Place(c)
-----------------------------------------------------------------------------
(* Lemmas about the helpers.                                               *)

\* The window of the bitmap is the platform PCRs, for every index list.
LEMMA BitmapIsPlatform ==
  ASSUME NEW s \in Selections
  PROVE  bitmap(s) = Platform(s) /\ Platform(s) \subseteq PCRs
<1>1. s \subseteq Int
  BY SealingAssumption
<1>2. \A i \in Int : ~(i < 0 \/ i >= pcrSelectSize * 8) <=> i \in 0..23
  BY DEF pcrSelectSize
<1>3. bitmap(s) = Platform(s)
  BY <1>1, <1>2 DEF bitmap, Platform
<1>4. Platform(s) \subseteq PCRs
  BY SealingAssumption DEF Platform
<1> QED
  BY <1>3, <1>4

\* Values read from a PCR state are values.
LEMMA ValuesInType ==
  ASSUME NEW f \in [PCRs -> Seq(Digests)], NEW S
  PROVE  ValuesIn(f, S) \in Values
BY DEF ValuesIn, Values

\* An off-line policy digest is a policy.
LEMMA PolicyType ==
  ASSUME NEW s \in Selections, NEW v \in Values
  PROVE  /\ PolicyPCRDigest(s, v) \in Policy
         /\ Len(PolicyPCRDigest(s, v)) = 1
         /\ PolicyPCRDigest(s, v)[1] = [sel |-> Platform(s), vals |-> v]
BY BitmapIsPlatform DEF PolicyPCRDigest, Policy, Assertion

\* None is told from every value it stands in for.
LEMMA NoneFacts ==
  /\ None \notin Seq(Digests) /\ None \notin Secrets
  /\ None \notin ObjectHandles /\ None \notin SessionHandles
  /\ None \notin Session /\ None \notin Sealed /\ None # StorageKey
  /\ None \notin Call /\ None \notin Reading
BY NoneAssumption, CallAssumption DEF Primaries
-----------------------------------------------------------------------------
(* Type correctness.                                                       *)

\* Initially every variable has its type.
LEMMA InitType == Init => TypeOK
BY DEF Init, DeviceInit, TypeOK, DeviceTypeOK

\* Only so many calls are under way, so those that hold a slot can be counted.
LEMMA Counted ==
  ASSUME NEW S \in SUBSET Callers
  PROVE  IsFiniteSet(S) /\ Cardinality(S) \in Nat
BY FS_Subset, FS_CardinalityType, SealingAssumption

\* A measurement, a new primary, or a crash preserves types.
LEMMA DeviceType ==
  ASSUME TypeOK, PCRExtend \/ CreateStoragePrimary \/ Crash \/ Reset
  PROVE  TypeOK'
<1> USE DEF TypeOK, DeviceTypeOK
<1>1. CASE PCRExtend
  BY <1>1 DEF PCRExtend, TPM2_PCR_Extend, program, left
<1>2. CASE CreateStoragePrimary
  BY <1>2 DEF CreateStoragePrimary, TPM2_CreatePrimary, Primaries, left
<1>3. CASE Crash
  <2>1. Cardinality(WithItem) \in Nat /\ Cardinality(WithSession) \in Nat
    BY Counted DEF WithItem, WithSession
  <2> QED
    BY <1>3, <2>1 DEF Crash, ProgramDies, device
<1>4. CASE Reset
  BY <1>4 DEF Reset, ProgramDies, TPM_Reset
<1> QED
  BY <1>1, <1>2, <1>3, <1>4

\* Reading and sealing preserve types.
LEMMA SealType ==
  ASSUME TypeOK, NEW c \in Callers, PCRRead(c) \/ SealToPCR(c)
  PROVE  TypeOK'
<1> USE DEF TypeOK, DeviceTypeOK
<1>1. CASE PCRRead(c)
  <2>1. PICK s \in Selections :
          reading' = [reading EXCEPT ![c] =
            [sel |-> s, vals |-> Current(FirstReply(bitmap(s))),
             truth |-> Current(Platform(s))]]
    BY <1>1 DEF PCRRead
  <2>2. /\ Current(FirstReply(bitmap(s))) \in Values
        /\ Current(Platform(s)) \in Values
    BY ValuesInType DEF Current
  <2> QED
    BY <1>1, <2>1, <2>2 DEF PCRRead, Reading, device, left
<1>2. CASE SealToPCR(c)
  <2>1. reading[c] \in Reading
    BY <1>2 DEF SealToPCR
  <2> DEFINE policy == PolicyPCRDigest(reading[c].sel, reading[c].vals)
             pub(s) == [policy |-> policy, unique |-> s]
  <2>2. policy \in Policy /\ Platform(reading[c].sel) \subseteq PCRs
    BY <2>1, PolicyType, BitmapIsPlatform DEF Reading
  <2> HIDE DEF policy
  <2>3. PICK s \in Secrets :
          /\ blobs' = blobs \cup
               {[pub |-> pub(s), priv |-> [name |-> pub(s), secret |-> s]]}
          /\ kept' = kept \cup {[secret |-> s, sel |-> Platform(reading[c].sel),
                                 vals |-> reading[c].truth]}
    BY <1>2 DEF SealToPCR, policy
  <2>4. blobs' \subseteq [pub : Public, priv : Private]
    BY <2>2, <2>3 DEF Public, Private
  <2>5. kept' \subseteq Entry
    BY <2>1, <2>2, <2>3 DEF Entry, Reading
  <2> QED
    BY <1>2, <2>4, <2>5 DEF SealToPCR, device, left
<1> QED
  BY <1>1, <1>2

\* Wrapping preserves types.
LEMMA WrapType == ASSUME TypeOK, WrapToPCR PROVE TypeOK'
<1> USE DEF TypeOK, DeviceTypeOK
<1>1. PICK s \in Secrets, k \in Keys, sel \in Selections, g \in Golden :
        LET values == ValuesIn(g, Platform(sel))
            objectPublic == [policy |-> PolicyPCRDigest(sel, values),
                             unique |-> s]
        IN /\ wraps' = wraps \cup
                {[pub |-> objectPublic,
                  dup |-> [seed |-> SharedSeed(Ephemeral(s), k),
                           name |-> objectPublic, secret |-> s],
                  seed |-> Ephemeral(s)]}
           /\ kept' = kept \cup {[secret |-> s, sel |-> Platform(sel),
                                  vals |-> values]}
  BY DEF WrapToPCR
<1> DEFINE values == ValuesIn(g, Platform(sel))
           policy == PolicyPCRDigest(sel, values)
<1>2. values \in Values
  BY ValuesInType, SealingAssumption
<1> HIDE DEF values
<1>3. policy \in Policy /\ Platform(sel) \subseteq PCRs
  BY <1>2, PolicyType, BitmapIsPlatform
<1> HIDE DEF policy
<1>4. wraps' \subseteq [pub : Public, dup : Duplicate, seed : InSymSeed]
  <2>1. Ephemeral(s) \in InSymSeed /\ SharedSeed(Ephemeral(s), k) \in WrapSeed
    BY DEF Ephemeral, InSymSeed, SharedSeed, WrapSeed
  <2> QED
    BY <1>1, <1>3, <2>1 DEF values, policy, Public, Duplicate
<1>5. kept' \subseteq Entry
  BY <1>1, <1>2, <1>3 DEF values, Entry
<1> QED
  BY <1>4, <1>5 DEF WrapToPCR, device, left

\* The commands of an unsealing call preserve types, given where the call is.
LEMMA CallType ==
  ASSUME TypeOK, Places, NEW c \in Callers,
         \/ UnsealWithPCR(c) \/ ImportAndUnseal(c) \/ Import(c) \/ Load(c)
         \/ StartAuthSession(c) \/ PolicyPCR(c) \/ Unseal(c) \/ CommandFails(c)
  PROVE  TypeOK'
<1> USE DEF TypeOK, DeviceTypeOK
<1>0. pc[c] # "idle" => call[c] \in Call
  BY DEF Places, Place
<1>1. ASSUME NEW first \in {"Load", "Import"}, NEW pub \in Public,
             NEW priv \in Private \cup Duplicate,
             NEW seed \in InSymSeed \cup {None}, NEW s \in Selections,
             Start(c, first, pub, priv, seed, s)
      PROVE  TypeOK'
  <2>1. [pub |-> pub, priv |-> priv, seed |-> seed, sel |-> s,
         item |-> None, session |-> None] \in Call
    BY DEF Call
  <2> QED
    BY <1>1, <2>1 DEF Start, device, left
<1>2. CASE UnsealWithPCR(c)
  BY <1>1, <1>2 DEF UnsealWithPCR
<1>3. CASE ImportAndUnseal(c)
  BY <1>1, <1>3 DEF ImportAndUnseal
<1>4. CASE Import(c)
  <2> DEFINE args == [call[c] EXCEPT !.priv = [name   |-> call[c].pub,
                                               secret |-> @.secret],
                                      !.seed = None]
  <2>1. call[c].priv \in Duplicate /\ call[c] \in Call
    BY <1>0, <1>4 DEF Import, Places, Place
  <2>2. [name |-> call[c].pub, secret |-> call[c].priv.secret] \in Private
    BY <2>1 DEF Call, Private, Duplicate
  <2>3. args \in Call
    BY <2>1, <2>2 DEF Call
  <2> QED
    BY <1>4, <2>3 DEF Import, GoOn, device, left
<1>5. CASE Load(c)
  <2>1. PICK h \in ObjectHandles :
          /\ TPM2_Load(h, parent, call[c].priv, call[c].pub)
          /\ \/ Fail(c, [call[c] EXCEPT !.item = h])
             \/ GoOn(c, "StartAuthSession", [call[c] EXCEPT !.item = h])
    BY <1>5 DEF Load
  <2>2. call[c] \in Call /\ call[c].priv \in Private
    BY <1>0, <1>5 DEF Load, Places, Place
  <2>3. [kind |-> "sealed", secret |-> call[c].priv.secret,
         policy |-> call[c].pub.policy] \in Sealed
    BY <2>2 DEF Call, Private, Public, Sealed
  <2>4. DeviceTypeOK'
    BY <2>1, <2>3 DEF TPM2_Load
  <2>5. [call[c] EXCEPT !.item = h] \in Call
    BY <2>2 DEF Call
  <2>6. CASE Fail(c, [call[c] EXCEPT !.item = h])
    BY <1>5, <2>4, <2>6 DEF Load, Fail, Leaves
  <2>7. CASE GoOn(c, "StartAuthSession", [call[c] EXCEPT !.item = h])
    BY <1>5, <2>4, <2>5, <2>7 DEF Load, GoOn, left
  <2> QED
    BY <2>1, <2>6, <2>7
<1>6. CASE StartAuthSession(c)
  <2>1. PICK h \in SessionHandles :
          /\ TPM2_StartAuthSession(h)
          /\ \/ Fail(c, [call[c] EXCEPT !.session = h])
             \/ GoOn(c, "PolicyPCR", [call[c] EXCEPT !.session = h])
    BY <1>6 DEF StartAuthSession
  <2>2. [digest |-> <<>>, counter |-> Unbound] \in Session
    BY DEF Session, Policy, Unbound
  <2>3. DeviceTypeOK'
    BY <2>1, <2>2 DEF TPM2_StartAuthSession
  <2>4. [call[c] EXCEPT !.session = h] \in Call
    BY <1>0, <1>6 DEF StartAuthSession, Call
  <2>5. CASE Fail(c, [call[c] EXCEPT !.session = h])
    BY <1>6, <2>3, <2>5 DEF StartAuthSession, Fail, Leaves
  <2>6. CASE GoOn(c, "PolicyPCR", [call[c] EXCEPT !.session = h])
    BY <1>6, <2>3, <2>4, <2>6 DEF StartAuthSession, GoOn, left
  <2> QED
    BY <2>1, <2>5, <2>6
<1>7. CASE PolicyPCR(c)
  <2> DEFINE h == call[c].session
             new == [sel |-> bitmap(call[c].sel),
                     vals |-> Current(bitmap(call[c].sel))]
  <2>1. call[c] \in Call /\ h \in SessionHandles
    BY <1>0, <1>7 DEF PolicyPCR, Places, Place
  <2>2. new \in Assertion
    BY <2>1, BitmapIsPlatform, ValuesInType DEF Call, Assertion, Current
  <2> HIDE DEF new
  <2>3. sessions[h] \in Session
    BY <1>7, <2>1 DEF PolicyPCR, TPM2_PolicyPCR
  <2>4. /\ sessions' = [sessions EXCEPT ![h] =
             [digest |-> Append(@.digest, new), counter |-> updateCounter]]
        /\ UNCHANGED <<pcr, updateCounter, objects>>
    BY <1>7 DEF PolicyPCR, TPM2_PolicyPCR, new
  <2>5. Append(sessions[h].digest, new) \in Policy
    BY <2>2, <2>3 DEF Session, Policy
  <2>6. [digest |-> Append(sessions[h].digest, new), counter |-> updateCounter]
          \in Session
    BY <2>5 DEF Session
  <2>7. DeviceTypeOK'
    BY <2>1, <2>4, <2>6
  <2>8. CASE Fail(c, call[c])
    BY <1>7, <2>7, <2>8 DEF PolicyPCR, Fail, Leaves
  <2>9. CASE GoOn(c, "Unseal", call[c])
    BY <1>7, <2>1, <2>7, <2>9 DEF PolicyPCR, GoOn, left
  <2> QED
    BY <1>7, <2>8, <2>9 DEF PolicyPCR
<1>8. CASE Unseal(c)
  <2> DEFINE h == call[c].session
  <2>1. call[c] \in Call /\ h \in SessionHandles /\ call[c].item \in ObjectHandles
    BY <1>0, <1>8 DEF Unseal, Places, Place
  <2>2. [digest |-> <<>>, counter |-> Unbound] \in Session
    BY DEF Session, Policy, Unbound
  <2>3. DeviceTypeOK'
    BY <1>8, <2>1, <2>2 DEF Unseal, TPM2_Unseal, SessionUsed
  <2>4. objects[call[c].item].secret \in Secrets
    BY <1>8, <2>1 DEF Unseal, TPM2_Unseal, SessionUsed, Authorized, Sealed
  <2>5. /\ pc' = [pc EXCEPT ![c] = "idle"]
        /\ call' = [call EXCEPT ![c] = None]
        /\ \/ UNCHANGED result
           \/ result' = [result EXCEPT ![c] = objects[call[c].item].secret]
        /\ UNCHANGED <<reading, parent, blobs, wraps, kept>>
        /\ leftObjects' \in Nat /\ leftSessions' \in Nat
    BY <1>8 DEF Unseal, Fail, Leaves
  <2>6. result' \in [Callers -> Secrets \cup {None}]
    BY <2>4, <2>5
  <2>7. call' \in [Callers -> Call \cup {None}]
    BY <2>5
  <2> QED
    BY <2>3, <2>5, <2>6, <2>7
<1>9. CASE CommandFails(c)
  BY <1>9 DEF CommandFails, Fail, Leaves, device
<1> QED
  BY <1>2, <1>3, <1>4, <1>5, <1>6, <1>7, <1>8, <1>9

\* Every step preserves types.
LEMMA TypeStep == TypeOK /\ Places /\ [Next]_vars => TypeOK'
<1> SUFFICES ASSUME TypeOK, Places, [Next]_vars PROVE TypeOK'
  OBVIOUS
<1>1. CASE UNCHANGED vars
  BY <1>1 DEF vars, device, program, left, TypeOK, DeviceTypeOK
<1> QED
  BY <1>1, DeviceType, SealType, WrapType, CallType DEF Next
-----------------------------------------------------------------------------
(* The parts of the inductive invariant.                                   *)

\* A step of one caller leaves the others' calls and places as they were.
LEMMA Frame ==
  ASSUME TypeOK, NEW c \in Callers,
         \/ PCRRead(c) \/ SealToPCR(c) \/ UnsealWithPCR(c) \/ ImportAndUnseal(c)
         \/ Import(c) \/ Load(c) \/ StartAuthSession(c) \/ PolicyPCR(c)
         \/ Unseal(c) \/ CommandFails(c),
         NEW d \in Callers, d # c
  PROVE  pc'[d] = pc[d] /\ call'[d] = call[d]
BY DEF TypeOK, PCRRead, SealToPCR, UnsealWithPCR, ImportAndUnseal, Start,
       Import, Load, StartAuthSession, PolicyPCR, Unseal, CommandFails, GoOn, Fail

\* The first command of a call finds its arguments.
LEMMA StartPlace ==
  ASSUME TypeOK, NEW c \in Callers,
         UnsealWithPCR(c) \/ ImportAndUnseal(c)
  PROVE  Place(c)'
<1>1. ASSUME NEW first \in {"Load", "Import"}, NEW pub \in Public,
             NEW priv \in Private \cup Duplicate,
             NEW seed \in InSymSeed \cup {None}, NEW s \in Selections,
             priv \in IF first = "Load" THEN Private ELSE Duplicate,
             Start(c, first, pub, priv, seed, s)
      PROVE  Place(c)'
  <2>1. pc'[c] = first
    BY <1>1 DEF Start, TypeOK
  <2>2. call'[c] = [pub |-> pub, priv |-> priv, seed |-> seed, sel |-> s,
                    item |-> None, session |-> None]
    BY <1>1 DEF Start, TypeOK
  <2>3. call'[c] \in Call
    BY <2>2 DEF Call
  <2> QED
    BY <1>1, <2>1, <2>2, <2>3, NoneFacts DEF Place
<1>2. CASE UnsealWithPCR(c)
  BY <1>1, <1>2 DEF UnsealWithPCR, TypeOK
<1>3. CASE ImportAndUnseal(c)
  BY <1>1, <1>3 DEF ImportAndUnseal, TypeOK
<1> QED
  BY <1>2, <1>3

\* A command that succeeds leaves the call with what the next one takes.
LEMMA GoOnPlace ==
  ASSUME TypeOK, NEW c \in Callers, Place(c),
         NEW next \in {"Load", "StartAuthSession", "PolicyPCR", "Unseal"},
         NEW args \in Call, GoOn(c, next, args), args.priv \in Private,
         next # "Load" => args.item \in ObjectHandles,
         next \in {"PolicyPCR", "Unseal"} => args.session \in SessionHandles
  PROVE  Place(c)'
<1>1. pc'[c] = next /\ call'[c] = args
  BY DEF GoOn, TypeOK
<1> QED
  BY <1>1, NoneFacts DEF Place

\* The commands of a call keep its record in step with its place.
LEMMA CallPlace ==
  ASSUME TypeOK, NEW c \in Callers, Place(c),
         \/ Import(c) \/ Load(c) \/ StartAuthSession(c) \/ PolicyPCR(c)
         \/ Unseal(c) \/ CommandFails(c)
  PROVE  Place(c)'
<1>0. pc[c] # "idle" => call[c] \in Call
  BY DEF Place, TypeOK
<1>1. CASE pc'[c] = "idle" /\ call'[c] = None
  BY <1>1 DEF Place
<1>2. CASE Import(c)
  <2> DEFINE new == [name |-> call[c].pub, secret |-> call[c].priv.secret]
             args == [call[c] EXCEPT !.priv = new, !.seed = None]
  <2>1. call[c] \in Call /\ call[c].priv \in Duplicate
    BY <1>0, <1>2 DEF Import, Place
  <2>2. new \in Private
    BY <2>1 DEF Call, Private, Duplicate
  <2>3. args \in Call /\ args.priv \in Private
    BY <2>1, <2>2 DEF Call
  <2>4. GoOn(c, "Load", args)
    BY <1>2 DEF Import
  <2> QED
    BY <2>3, <2>4, GoOnPlace
<1>3. CASE Load(c)
  <2>1. PICK h \in ObjectHandles :
          \/ Fail(c, [call[c] EXCEPT !.item = h])
          \/ GoOn(c, "StartAuthSession", [call[c] EXCEPT !.item = h])
    BY <1>3 DEF Load
  <2> DEFINE args == [call[c] EXCEPT !.item = h]
  <2>2. args \in Call /\ args.item = h /\ args.priv \in Private
    BY <1>0, <1>3 DEF Load, Call, Place
  <2>3. Fail(c, args) => Place(c)'
    BY <1>1 DEF Fail, TypeOK
  <2> QED
    BY <2>1, <2>2, <2>3, GoOnPlace
<1>4. CASE StartAuthSession(c)
  <2>1. PICK h \in SessionHandles :
          \/ Fail(c, [call[c] EXCEPT !.session = h])
          \/ GoOn(c, "PolicyPCR", [call[c] EXCEPT !.session = h])
    BY <1>4 DEF StartAuthSession
  <2> DEFINE args == [call[c] EXCEPT !.session = h]
  <2>2. /\ args \in Call /\ args.session = h
        /\ args.priv \in Private /\ args.item \in ObjectHandles
    BY <1>0, <1>4 DEF StartAuthSession, Call, Place
  <2>3. Fail(c, args) => Place(c)'
    BY <1>1 DEF Fail, TypeOK
  <2> QED
    BY <2>1, <2>2, <2>3, GoOnPlace
<1>5. CASE PolicyPCR(c)
  <2>1. Fail(c, call[c]) => Place(c)'
    BY <1>1 DEF Fail, TypeOK
  <2>2. /\ call[c] \in Call /\ call[c].priv \in Private
        /\ call[c].item \in ObjectHandles /\ call[c].session \in SessionHandles
    BY <1>0, <1>5 DEF PolicyPCR, Place
  <2> QED
    BY <1>5, <2>1, <2>2, GoOnPlace DEF PolicyPCR
<1>6. CASE Unseal(c) \/ CommandFails(c)
  BY <1>1, <1>6 DEF Unseal, CommandFails, Fail, TypeOK
<1> QED
  BY <1>2, <1>3, <1>4, <1>5, <1>6

\* Every step keeps the record of every call in step with its place.
LEMMA PlacesStep == TypeOK /\ Places /\ [Next]_vars => Places'
<1> SUFFICES ASSUME TypeOK, Places, [Next]_vars, NEW d \in Callers
             PROVE  Place(d)'
  BY DEF Places
<1>0. Place(d)
  BY DEF Places
<1>1. CASE UNCHANGED <<pc, call>>
  BY <1>0, <1>1 DEF Place
<1>2. CASE Crash \/ Reset
  BY <1>2 DEF Crash, Reset, ProgramDies, Place
<1>3. CASE UNCHANGED vars \/ PCRExtend \/ CreateStoragePrimary \/ WrapToPCR
  BY <1>1, <1>3 DEF vars, program, PCRExtend, CreateStoragePrimary, WrapToPCR
<1>4. ASSUME NEW c \in Callers, PCRRead(c) \/ SealToPCR(c) PROVE Place(d)'
  BY <1>1, <1>4 DEF PCRRead, SealToPCR
<1>5. ASSUME NEW c \in Callers,
             \/ UnsealWithPCR(c) \/ ImportAndUnseal(c) \/ Import(c) \/ Load(c)
             \/ StartAuthSession(c) \/ PolicyPCR(c) \/ Unseal(c)
             \/ CommandFails(c)
      PROVE  Place(d)'
  <2>1. CASE c = d
    BY <1>0, <1>5, <2>1, StartPlace, CallPlace
  <2>2. CASE c # d
    BY <1>0, <1>5, <2>2, Frame DEF Place
  <2> QED
    BY <2>1, <2>2
<1> QED
  BY <1>2, <1>3, <1>4, <1>5 DEF Next

\* A read is true of the PCRs at its time, and nothing changes it later.
LEMMA ReadingsStep == TypeOK /\ Readings /\ [Next]_vars => Readings'
<1> SUFFICES ASSUME TypeOK, Readings, [Next]_vars PROVE Readings'
  OBVIOUS
<1>1. CASE UNCHANGED reading
  BY <1>1 DEF Readings
<1>2. CASE Crash \/ Reset
  BY <1>2 DEF Crash, Reset, ProgramDies, Readings
<1>3. ASSUME NEW c \in Callers, PCRRead(c) PROVE Readings'
  <2>1. PICK s \in Selections :
          reading' = [reading EXCEPT ![c] =
            [sel |-> s, vals |-> Current(FirstReply(bitmap(s))),
             truth |-> Current(Platform(s))]]
    BY <1>3 DEF PCRRead
  <2>2. \A p \in Platform(s) :
          Current(FirstReply(bitmap(s)))[p] \in {None, Current(Platform(s))[p]}
    BY BitmapIsPlatform DEF Current, ValuesIn
  <2>3. ASSUME NEW d \in Callers, reading'[d] # None,
               NEW p \in Platform(reading'[d].sel)
        PROVE  reading'[d].vals[p] \in {None, reading'[d].truth[p]}
    <3>1. CASE d = c
      BY <2>1, <2>2, <2>3, <3>1 DEF TypeOK
    <3>2. CASE d # c
      BY <2>1, <2>3, <3>2 DEF TypeOK, Readings
    <3> QED
      BY <3>1, <3>2
  <2> QED
    BY <2>3 DEF Readings, Platform
<1>4. CASE UNCHANGED vars \/ PCRExtend \/ CreateStoragePrimary \/ WrapToPCR
  BY <1>1, <1>4 DEF vars, program, PCRExtend, CreateStoragePrimary, WrapToPCR
<1>5. ASSUME NEW c \in Callers,
             \/ SealToPCR(c) \/ UnsealWithPCR(c) \/ ImportAndUnseal(c)
             \/ Import(c) \/ Load(c) \/ StartAuthSession(c) \/ PolicyPCR(c)
             \/ Unseal(c) \/ CommandFails(c)
      PROVE  Readings'
  BY <1>1, <1>5
  DEF SealToPCR, UnsealWithPCR, ImportAndUnseal, Start, Import, Load,
      StartAuthSession, PolicyPCR, Unseal, CommandFails, GoOn, Fail
<1> QED
  BY <1>2, <1>3, <1>4, <1>5 DEF Next

\* A session that is opened, or used up, has no assertion.
LEMMA FreshSnapshot ==
  ASSUME TypeOK, TypeOK', NEW h \in SessionHandles,
         sessions'[h] = [digest |-> <<>>, counter |-> Unbound]
  PROVE  Snapshot(h)'
BY DEF Snapshot, Unbound, TypeOK, DeviceTypeOK

\* PolicyPCR adds the values of this moment to values of this moment.
LEMMA PolicySnapshot ==
  ASSUME TypeOK, NEW h \in SessionHandles, NEW S \in SUBSET PCRs,
         Snapshot(h), TPM2_PolicyPCR(h, S)
  PROVE  Snapshot(h)'
<1> DEFINE new == [sel |-> S, vals |-> Current(S)]
           old == sessions[h].digest
<1>1. old \in Seq(Assertion \cup {SecretAssertion}) /\ updateCounter \in Nat /\ sessions[h] # None
  BY DEF TPM2_PolicyPCR, TypeOK, DeviceTypeOK, Session, Policy
<1>2. /\ sessions'[h] = [digest |-> Append(old, new), counter |-> updateCounter]
      /\ UNCHANGED <<pcr, updateCounter>>
  BY DEF TPM2_PolicyPCR, TypeOK, DeviceTypeOK
<1>3. new \in Assertion
  BY ValuesInType DEF Assertion, Current, TypeOK, DeviceTypeOK
<1>4. \A i \in DOMAIN old : old[i].vals = Current(old[i].sel)
  BY <1>1 DEF Snapshot, TPM2_PolicyPCR
<1>5. new.vals = Current(new.sel)
  OBVIOUS
<1> HIDE DEF new
<1>6. ASSUME NEW i \in DOMAIN Append(old, new)
      PROVE  Append(old, new)[i].vals = Current(Append(old, new)[i].sel)
  <2>1. CASE i = Len(old) + 1
    BY <1>1, <1>3, <1>5, <2>1
  <2>2. CASE i # Len(old) + 1
    <3>1. i \in DOMAIN old /\ Append(old, new)[i] = old[i]
      BY <1>1, <1>3, <2>2
    <3> QED
      BY <1>4, <3>1
  <2> QED
    BY <2>1, <2>2
<1>7. \A T : Current(T)' = Current(T)
  BY <1>2 DEF Current
<1> QED
  BY <1>1, <1>2, <1>6, <1>7 DEF Snapshot, Unbound

\* What was folded into a session before a measurement has an older counter.
LEMMA SnapshotsStep ==
  TypeOK /\ TypeOK' /\ Places /\ Snapshots /\ [Next]_vars => Snapshots'
<1> SUFFICES ASSUME TypeOK, TypeOK', Places, Snapshots, [Next]_vars,
                    NEW h \in SessionHandles
             PROVE  Snapshot(h)'
  BY DEF Snapshots
<1>0. Snapshot(h)
  BY DEF Snapshots
<1>1. CASE UNCHANGED <<pcr, updateCounter, sessions>>
  BY <1>0, <1>1 DEF Snapshot, Current
<1>2. CASE PCRExtend
  <2>1. updateCounter' = updateCounter + 1 /\ UNCHANGED sessions
    BY <1>2 DEF PCRExtend, TPM2_PCR_Extend
  <2> QED
    BY <1>0, <2>1 DEF Snapshot, Unbound, TypeOK, DeviceTypeOK
<1>3. CASE Reset
  BY <1>3 DEF Reset, TPM_Reset, Snapshot
<1>4. CASE UNCHANGED vars \/ CreateStoragePrimary \/ WrapToPCR \/ Crash
  BY <1>1, <1>4 DEF vars, device, CreateStoragePrimary, TPM2_CreatePrimary,
                    WrapToPCR, Crash
<1>5. ASSUME NEW c \in Callers, StartAuthSession(c) PROVE Snapshot(h)'
  <2>1. PICK t \in SessionHandles : TPM2_StartAuthSession(t)
    BY <1>5 DEF StartAuthSession
  <2>2. CASE h = t
    BY <2>1, <2>2, FreshSnapshot DEF TPM2_StartAuthSession, TypeOK, DeviceTypeOK
  <2>3. CASE h # t
    BY <1>0, <2>1, <2>3
    DEF TPM2_StartAuthSession, Snapshot, Current, TypeOK, DeviceTypeOK
  <2> QED
    BY <2>2, <2>3
<1>6. ASSUME NEW c \in Callers, PolicyPCR(c) PROVE Snapshot(h)'
  <2> DEFINE t == call[c].session
             S == bitmap(call[c].sel)
  <2>1. t \in SessionHandles /\ S \subseteq PCRs /\ TPM2_PolicyPCR(t, S)
    BY <1>6, BitmapIsPlatform DEF PolicyPCR, Places, Place, TypeOK, Call
  <2>2. CASE h = t
    BY <1>0, <2>1, <2>2, PolicySnapshot
  <2>3. CASE h # t
    BY <1>0, <2>1, <2>3
    DEF TPM2_PolicyPCR, Snapshot, Current, TypeOK, DeviceTypeOK
  <2> QED
    BY <2>2, <2>3
<1>7. ASSUME NEW c \in Callers, Unseal(c) PROVE Snapshot(h)'
  <2> DEFINE t == call[c].session
  <2>1. t \in SessionHandles /\ TPM2_Unseal(call[c].item, t, TRUE)
    BY <1>7 DEF Unseal, sessionContinue, Places, Place, TypeOK
  <2>2. CASE h = t
    BY <2>1, <2>2, FreshSnapshot DEF TPM2_Unseal, SessionUsed, TypeOK, DeviceTypeOK
  <2>3. CASE h # t
    BY <1>0, <2>1, <2>3
    DEF TPM2_Unseal, SessionUsed, Snapshot, Current, TypeOK, DeviceTypeOK
  <2> QED
    BY <2>2, <2>3
<1>8. ASSUME NEW c \in Callers,
             \/ PCRRead(c) \/ SealToPCR(c) \/ UnsealWithPCR(c)
             \/ ImportAndUnseal(c) \/ Import(c) \/ Load(c) \/ CommandFails(c)
      PROVE  Snapshot(h)'
  BY <1>1, <1>8
  DEF device, PCRRead, SealToPCR, UnsealWithPCR, ImportAndUnseal, Start,
      Import, Load, TPM2_Load, CommandFails
<1> QED
  BY <1>2, <1>3, <1>4, <1>5, <1>6, <1>7, <1>8 DEF Next

\* Nothing is forgotten: what is bound stays bound while more is kept.
LEMMA BoundStays ==
  ASSUME NEW policy, NEW s, Bound(policy, s), kept \subseteq kept'
  PROVE  Bound(policy, s)'
BY DEF Bound

\* Nothing that was sealed is taken out of the history.
LEMMA KeptGrows == [Next]_vars => kept \subseteq kept'
BY DEF Next, vars, program, PCRExtend, CreateStoragePrimary, WrapToPCR, Crash,
       Reset, ProgramDies, PCRRead, SealToPCR, UnsealWithPCR, ImportAndUnseal,
       Start, Import, Load, StartAuthSession, PolicyPCR, Unseal, CommandFails,
       GoOn, Fail

\* The policy that PolicyPCRDigest computes for an entry is bound to it.
LEMMA DigestBound ==
  ASSUME NEW sel \in Selections, NEW vals \in Values, NEW truth, NEW s,
         \A p \in Platform(sel) : vals[p] \in {None, truth[p]},
         [secret |-> s, sel |-> Platform(sel), vals |-> truth] \in kept'
  PROVE  Bound(PolicyPCRDigest(sel, vals), s)'
<1> DEFINE e == [secret |-> s, sel |-> Platform(sel), vals |-> truth]
           policy == PolicyPCRDigest(sel, vals)
<1>1. Len(policy) = 1 /\ policy[1] = [sel |-> Platform(sel), vals |-> vals]
  BY PolicyType
<1>2. e.secret = s /\ e.sel = Platform(sel) /\ e.vals = truth
  OBVIOUS
<1> HIDE DEF e, policy
<1>3. e \in kept'
  BY DEF e
<1>4. Bound(policy, s)'
  BY <1>1, <1>2, <1>3 DEF Bound
<1> QED
  BY <1>4 DEF policy

\* Blobs stay bound.
LEMMA BlobsStep ==
  ASSUME TypeOK, Readings, Carriers, [Next]_vars, NEW b \in blobs'
  PROVE  Bound(b.priv.name.policy, b.priv.secret)'
<1>1. CASE b \in blobs
  BY <1>1, BoundStays, KeptGrows DEF Carriers
<1>2. ASSUME NEW c \in Callers, SealToPCR(c), b \notin blobs
      PROVE  Bound(b.priv.name.policy, b.priv.secret)'
  <2>1. PICK sel \in Selections, vals \in Values, truth \in Values :
          reading[c] = [sel |-> sel, vals |-> vals, truth |-> truth]
    BY <1>2 DEF SealToPCR, TypeOK, Reading
  <2>2. \A p \in Platform(sel) : vals[p] \in {None, truth[p]}
    BY <1>2, <2>1 DEF SealToPCR, Readings
  <2> DEFINE pub(s) == [policy |-> PolicyPCRDigest(sel, vals), unique |-> s]
  <2>3. PICK s \in Secrets :
          /\ blobs' = blobs \cup
               {[pub |-> pub(s), priv |-> [name |-> pub(s), secret |-> s]]}
          /\ kept' = kept \cup {[secret |-> s, sel |-> Platform(sel),
                                 vals |-> truth]}
    BY <1>2, <2>1 DEF SealToPCR
  <2>4. [secret |-> s, sel |-> Platform(sel), vals |-> truth] \in kept'
    BY <2>3
  <2>5. Bound(PolicyPCRDigest(sel, vals), s)'
    BY <2>2, <2>4, DigestBound
  <2>6. b.priv.name.policy = PolicyPCRDigest(sel, vals) /\ b.priv.secret = s
    BY <1>2, <2>3
  <2> QED
    BY <2>5, <2>6
<1>3. ASSUME ~ \E c \in Callers : SealToPCR(c) PROVE UNCHANGED blobs
  BY <1>3
  DEF Next, vars, program, PCRExtend, CreateStoragePrimary, WrapToPCR, Crash,
      Reset, ProgramDies, PCRRead, UnsealWithPCR, ImportAndUnseal, Start,
      Import, Load, StartAuthSession, PolicyPCR, Unseal, CommandFails, GoOn, Fail
<1> QED
  BY <1>1, <1>2, <1>3

\* Wraps stay bound.
LEMMA WrapsStep ==
  ASSUME TypeOK, Carriers, [Next]_vars, NEW w \in wraps'
  PROVE  Bound(w.dup.name.policy, w.dup.secret)'
<1>1. CASE w \in wraps
  BY <1>1, BoundStays, KeptGrows DEF Carriers
<1>2. CASE WrapToPCR /\ w \notin wraps
  <2>1. PICK s \in Secrets, k \in Keys, sel \in Selections, g \in Golden :
          LET values == ValuesIn(g, Platform(sel))
              objectPublic == [policy |-> PolicyPCRDigest(sel, values),
                               unique |-> s]
          IN /\ wraps' = wraps \cup
                  {[pub |-> objectPublic,
                    dup |-> [seed |-> SharedSeed(Ephemeral(s), k),
                             name |-> objectPublic, secret |-> s],
                    seed |-> Ephemeral(s)]}
             /\ kept' = kept \cup {[secret |-> s, sel |-> Platform(sel),
                                    vals |-> values]}
    BY <1>2 DEF WrapToPCR
  <2>2. PICK values \in Values : values = ValuesIn(g, Platform(sel))
    BY ValuesInType, SealingAssumption
  <2>3. [secret |-> s, sel |-> Platform(sel), vals |-> values] \in kept'
    BY <2>1, <2>2
  <2>4. Bound(PolicyPCRDigest(sel, values), s)'
    BY <2>3, DigestBound
  <2>5. w.dup.name.policy = PolicyPCRDigest(sel, values) /\ w.dup.secret = s
    BY <1>2, <2>1, <2>2
  <2> QED
    BY <2>4, <2>5
<1>3. ASSUME ~ WrapToPCR PROVE UNCHANGED wraps
  BY <1>3
  DEF Next, vars, program, PCRExtend, CreateStoragePrimary, Crash, Reset,
      ProgramDies, PCRRead, SealToPCR, UnsealWithPCR, ImportAndUnseal, Start,
      Import, Load, StartAuthSession, PolicyPCR, Unseal, CommandFails, GoOn, Fail
<1> QED
  BY <1>1, <1>2, <1>3

\* The private area a call holds stays bound.
LEMMA CallsStep ==
  ASSUME TypeOK, Places, Carriers, [Next]_vars,
         NEW d \in Callers, call'[d] # None
  PROVE  Bound(call[d].priv.name.policy, call[d].priv.secret)'
<1> DEFINE priv == call[d].priv
<1>1. CASE call[d] # None /\ call'[d].priv = priv
  <2>1. PICK policy, s : policy = priv.name.policy /\ s = priv.secret
    OBVIOUS
  <2>2. Bound(policy, s)
    BY <1>1, <2>1 DEF Carriers
  <2>3. Bound(policy, s)'
    BY <2>2, BoundStays, KeptGrows
  <2>4. call'[d].priv.name.policy = policy /\ call'[d].priv.secret = s
    BY <1>1, <2>1
  <2> QED
    BY <2>3, <2>4
<1>2. ASSUME NEW c \in Callers, UnsealWithPCR(c), c = d
      PROVE  Bound(call[d].priv.name.policy, call[d].priv.secret)'
  <2>1. PICK b \in blobs : call'[d].priv = b.priv
    BY <1>2 DEF UnsealWithPCR, Start, TypeOK
  <2>2. Bound(b.priv.name.policy, b.priv.secret)'
    BY BoundStays, KeptGrows DEF Carriers
  <2> QED
    BY <2>1, <2>2
<1>3. ASSUME NEW c \in Callers, ImportAndUnseal(c), c = d
      PROVE  Bound(call[d].priv.name.policy, call[d].priv.secret)'
  <2>1. PICK b \in wraps : call'[d].priv = b.dup
    BY <1>3 DEF ImportAndUnseal, Start, TypeOK
  <2>2. Bound(b.dup.name.policy, b.dup.secret)'
    BY BoundStays, KeptGrows DEF Carriers
  <2> QED
    BY <2>1, <2>2
<1>4. ASSUME NEW c \in Callers, Import(c), c = d
      PROVE  Bound(call[d].priv.name.policy, call[d].priv.secret)'
  <2>1. call[d] \in Call /\ priv \in Duplicate /\ priv.name = call[d].pub
    BY <1>4 DEF Import, ImportAccepts, TypeOK, Places, Place
  <2>2. call'[d].priv = [name |-> call[d].pub, secret |-> priv.secret]
    BY <1>4, <2>1 DEF Import, GoOn, TypeOK, Call
  <2>3. PICK policy, s : policy = priv.name.policy /\ s = priv.secret
    OBVIOUS
  <2>4. Bound(policy, s)
    BY <1>4, <2>3 DEF Carriers, Places, Place, Import
  <2>5. Bound(policy, s)'
    BY <2>4, BoundStays, KeptGrows
  <2>6. call'[d].priv.name.policy = policy /\ call'[d].priv.secret = s
    BY <2>1, <2>2, <2>3
  <2> QED
    BY <2>5, <2>6
<1>5. ASSUME NEW c \in Callers, c = d,
             \/ Load(c) \/ StartAuthSession(c) \/ PolicyPCR(c)
             \/ Unseal(c) \/ CommandFails(c)
      PROVE  Bound(call[d].priv.name.policy, call[d].priv.secret)'
  <2>1. call[d] \in Call /\ call[d] # None
    BY <1>5, NoneFacts DEF Load, StartAuthSession, PolicyPCR, Unseal,
                           CommandFails, Places, Place, TypeOK
  <2>2. /\ (Unseal(d) \/ CommandFails(d)) => call'[d] = None
        /\ \A args : Fail(d, args) => call'[d] = None
    BY DEF Fail, Unseal, CommandFails, TypeOK
  <2>3. ASSUME NEW h \in ObjectHandles,
               GoOn(d, "StartAuthSession", [call[d] EXCEPT !.item = h])
        PROVE  call'[d].priv = priv
    BY <2>1, <2>3 DEF GoOn, Call, TypeOK
  <2>4. ASSUME NEW h \in SessionHandles,
               GoOn(d, "PolicyPCR", [call[d] EXCEPT !.session = h])
        PROVE  call'[d].priv = priv
    BY <2>1, <2>4 DEF GoOn, Call, TypeOK
  <2>5. GoOn(d, "Unseal", call[d]) => call'[d].priv = priv
    BY DEF GoOn, TypeOK
  <2>6. call'[d] # None => call'[d].priv = priv
    <3>1. CASE Load(d)
      BY <2>2, <2>3, <3>1 DEF Load
    <3>2. CASE StartAuthSession(d)
      BY <2>2, <2>4, <3>2 DEF StartAuthSession
    <3>3. CASE PolicyPCR(d)
      BY <2>2, <2>5, <3>3 DEF PolicyPCR
    <3> QED
      BY <1>5, <2>2, <3>1, <3>2, <3>3
  <2> QED
    BY ONLY <1>1, <2>1, <2>6, call'[d] # None
<1>6. ASSUME NEW c \in Callers, c # d,
             \/ PCRRead(c) \/ SealToPCR(c) \/ UnsealWithPCR(c)
             \/ ImportAndUnseal(c) \/ Import(c) \/ Load(c)
             \/ StartAuthSession(c) \/ PolicyPCR(c) \/ Unseal(c)
             \/ CommandFails(c)
      PROVE  Bound(call[d].priv.name.policy, call[d].priv.secret)'
  BY <1>1, <1>6, Frame
<1>7. CASE UNCHANGED call
  BY <1>1, <1>7
<1>8. ~ (Crash \/ Reset)
  BY DEF Crash, Reset, ProgramDies
<1>9. CASE UNCHANGED vars \/ PCRExtend \/ CreateStoragePrimary \/ WrapToPCR
  BY <1>7, <1>9 DEF vars, program, PCRExtend, CreateStoragePrimary, WrapToPCR
<1>10. ASSUME NEW c \in Callers, PCRRead(c) \/ SealToPCR(c)
       PROVE  Bound(call[d].priv.name.policy, call[d].priv.secret)'
  BY <1>7, <1>10 DEF PCRRead, SealToPCR
<1> QED
  BY <1>2, <1>3, <1>4, <1>5, <1>6, <1>8, <1>9, <1>10 DEF Next

\* Loaded objects stay bound: Load takes the policy from the public area that
\* the private area names.
LEMMA ObjectsStep ==
  ASSUME TypeOK, Places, Carriers, [Next]_vars,
         NEW h \in ObjectHandles, objects'[h] \in Sealed
  PROVE  Bound(objects[h].policy, objects[h].secret)'
<1>1. CASE objects'[h] = objects[h]
  <2>1. PICK policy, s : policy = objects[h].policy /\ s = objects[h].secret
    OBVIOUS
  <2>2. Bound(policy, s)
    BY <1>1, <2>1 DEF Carriers
  <2>3. Bound(policy, s)'
    BY <2>2, BoundStays, KeptGrows
  <2> QED
    BY <1>1, <2>1, <2>3
<1>2. ASSUME NEW c \in Callers, Load(c), objects'[h] # objects[h]
      PROVE  Bound(objects[h].policy, objects[h].secret)'
  <2> DEFINE priv == call[c].priv
  <2>1. TPM2_Load(h, parent, priv, call[c].pub)
    BY <1>2 DEF Load, TPM2_Load, TypeOK, DeviceTypeOK
  <2>2. PICK policy, s : policy = priv.name.policy /\ s = priv.secret
    OBVIOUS
  <2>3. objects'[h].policy = policy /\ objects'[h].secret = s
    BY <2>1, <2>2 DEF TPM2_Load, TypeOK, DeviceTypeOK
  <2>4. Bound(policy, s)
    BY <1>2, <2>2 DEF Carriers, Places, Place, Load
  <2>5. Bound(policy, s)'
    BY <2>4, BoundStays, KeptGrows
  <2> QED
    BY <2>3, <2>5
<1>3. CASE CreateStoragePrimary
  <2>1. StorageKey \notin Sealed
    BY DEF StorageKey, Sealed
  <2> QED
    BY <1>1, <1>3, <2>1
    DEF CreateStoragePrimary, TPM2_CreatePrimary, TypeOK, DeviceTypeOK
<1>4. CASE Reset
  BY <1>4, NoneFacts DEF Reset, TPM_Reset
<1>5. CASE UNCHANGED vars \/ PCRExtend \/ WrapToPCR \/ Crash
  BY <1>1, <1>5 DEF vars, device, PCRExtend, TPM2_PCR_Extend, WrapToPCR, Crash
<1>6. ASSUME NEW c \in Callers,
             \/ PCRRead(c) \/ SealToPCR(c) \/ UnsealWithPCR(c)
             \/ ImportAndUnseal(c) \/ Import(c) \/ StartAuthSession(c)
             \/ PolicyPCR(c) \/ Unseal(c) \/ CommandFails(c)
      PROVE  Bound(objects[h].policy, objects[h].secret)'
  BY <1>1, <1>6
  DEF device, PCRRead, SealToPCR, UnsealWithPCR, ImportAndUnseal, Start,
      Import, StartAuthSession, TPM2_StartAuthSession, PolicyPCR,
      TPM2_PolicyPCR, Unseal, TPM2_Unseal, SessionUsed, CommandFails
<1> QED
  BY <1>1, <1>2, <1>3, <1>4, <1>5, <1>6 DEF Next
-----------------------------------------------------------------------------
(* The inductive invariant and its consequences.                           *)

IInv == TypeOK /\ Places /\ Readings /\ Snapshots /\ Carriers

\* The initial states satisfy the inductive invariant.
LEMMA InitIInv == Init => IInv
<1> SUFFICES ASSUME Init PROVE IInv
  OBVIOUS
<1>1. TypeOK
  BY InitType
<1>2. Places /\ Readings /\ Snapshots
  BY DEF Init, DeviceInit, Places, Place, Readings, Snapshots, Snapshot
<1>3. Carriers
  BY NoneFacts DEF Init, DeviceInit, Carriers
<1> QED
  BY <1>1, <1>2, <1>3 DEF IInv

\* Every step preserves the inductive invariant.
LEMMA StepIInv == IInv /\ [Next]_vars => IInv'
<1> SUFFICES ASSUME IInv, [Next]_vars PROVE IInv'
  OBVIOUS
<1> USE DEF IInv
<1>1. TypeOK' /\ Places' /\ Readings'
  BY TypeStep, PlacesStep, ReadingsStep
<1>2. Snapshots'
  BY <1>1, SnapshotsStep
<1>3. Carriers'
  BY BlobsStep, WrapsStep, CallsStep, ObjectsStep DEF Carriers
<1> QED
  BY <1>1, <1>2, <1>3

\* The inductive invariant holds in every reachable state.
THEOREM Invariant == Spec => []IInv
BY InitIInv, StepIInv, PTL DEF Spec

\* Every variable of the sealing paths and of the device keeps its type.
THEOREM TypeCorrect == Spec => []TypeOK
<1>1. IInv => TypeOK
  BY DEF IInv
<1> QED
  BY <1>1, Invariant, PTL

-----------------------------------------------------------------------------
(* Sealing implements Vault.                                               *)

\* The heart of it: an authorized unseal gives out a secret that was sealed
\* for values the PCRs have now.
LEMMA Releases ==
  ASSUME IInv, NEW item \in ObjectHandles, NEW session \in SessionHandles,
         Authorized(item, session)
  PROVE  \E e \in kept : /\ e.secret = objects[item].secret
                         /\ \A p \in e.sel : pcr[p] = e.vals[p]
<1> DEFINE policy == objects[item].policy
<1>1. PICK e \in kept :
        /\ e.secret = objects[item].secret
        /\ Len(policy) = 1
        /\ policy[1].sel = e.sel
        /\ \A p \in e.sel : policy[1].vals[p] \in {None, e.vals[p]}
  BY DEF IInv, Carriers, Authorized, Bound
<1>2. policy \in Seq(Assertion \cup {SecretAssertion}) /\ 1 \in DOMAIN policy
  BY <1>1 DEF Authorized, Sealed, Policy
<1>3. sessions[session].digest = policy /\ sessions[session].counter = updateCounter
  BY <1>1, <1>2 DEF Authorized, IInv, Snapshots, Snapshot
<1>4. policy[1].vals = Current(policy[1].sel)
  BY <1>2, <1>3 DEF Authorized, IInv, Snapshots, Snapshot
<1>5. e.sel \subseteq PCRs
  BY DEF IInv, TypeOK, Entry
<1>6. ASSUME NEW p \in e.sel PROVE pcr[p] = e.vals[p]
  <2>1. policy[1].vals[p] = pcr[p]
    BY <1>1, <1>4, <1>5 DEF Current, ValuesIn
  <2>2. pcr[p] # None
    BY <1>5, NoneFacts DEF IInv, TypeOK, DeviceTypeOK
  <2> QED
    BY <1>1, <2>1, <2>2
<1> QED
  BY <1>1, <1>6

\* Sealing and wrapping keep one more secret in the vault.
LEMMA Keeps ==
  ASSUME TypeOK, TypeOK', NEW s, NEW e, e.secret = s, Fresh(s),
         kept' = kept \cup {e}, UNCHANGED <<pcr, result>>
  PROVE  TheVault!Keep
<1>1. e \in kept' /\ e \in TheVault!Entry
  BY DEF TypeOK, Entry, TheVault!Entry, Values
<1> QED
  BY <1>1 DEF TheVault!Keep, Fresh

\* Every step of the sealing paths is a step of the vault, or none.
LEMMA StepVault ==
  IInv /\ IInv' /\ [Next]_vars => [TheVault!Next]_(TheVault!vars)
<1> SUFFICES ASSUME IInv, IInv', [Next]_vars
             PROVE  [TheVault!Next]_(TheVault!vars)
  OBVIOUS
<1> USE DEF TheVault!Next, TheVault!vars
<1>0. TypeOK /\ TypeOK' /\ Places
  BY DEF IInv
<1>1. CASE UNCHANGED vars \/ CreateStoragePrimary
  BY <1>1 DEF vars, device, program, CreateStoragePrimary, TPM2_CreatePrimary
<1>2. CASE PCRExtend
  BY <1>2 DEF PCRExtend, TPM2_PCR_Extend, program, TheVault!Measure
<1>3. CASE Crash
  BY <1>3 DEF Crash, ProgramDies, device, TheVault!Crash
<1>4. CASE Reset
  BY <1>4 DEF Reset, ProgramDies, TPM_Reset, TheVault!Reset
<1>5. CASE WrapToPCR
  <2>1. PICK s \in Secrets, sel \in Selections, g \in Golden :
          /\ Fresh(s)
          /\ kept' = kept \cup {[secret |-> s, sel |-> Platform(sel),
                                 vals |-> ValuesIn(g, Platform(sel))]}
    BY <1>5 DEF WrapToPCR
  <2>2. UNCHANGED <<pcr, result>>
    BY <1>5 DEF WrapToPCR, device
  <2> QED
    BY <1>0, <2>1, <2>2, Keeps
<1>6. ASSUME NEW c \in Callers, SealToPCR(c) PROVE TheVault!Keep
  <2>1. PICK s \in Secrets :
          /\ Fresh(s)
          /\ kept' = kept \cup {[secret |-> s, sel |-> Platform(reading[c].sel),
                                 vals |-> reading[c].truth]}
    BY <1>6 DEF SealToPCR
  <2>2. UNCHANGED <<pcr, result>>
    BY <1>6 DEF SealToPCR, device
  <2>3. PICK e : e = [secret |-> s, sel |-> Platform(reading[c].sel),
                      vals |-> reading[c].truth]
    OBVIOUS
  <2> QED
    BY <1>0, <2>1, <2>2, <2>3, Keeps
<1>7. ASSUME NEW c \in Callers, UnsealWithPCR(c) \/ ImportAndUnseal(c)
      PROVE  TheVault!Forget(c)
  BY <1>7 DEF UnsealWithPCR, ImportAndUnseal, Start, device, TheVault!Forget
<1>8. ASSUME NEW c \in Callers, Unseal(c)
      PROVE  TheVault!Release(c) \/ UNCHANGED TheVault!vars
  <2> DEFINE item == call[c].item
  <2>1. UNCHANGED <<pcr, kept>>
    BY <1>8 DEF Unseal, TPM2_Unseal, SessionUsed, Fail
  <2>2. \/ UNCHANGED result
        \/ result' = [result EXCEPT ![c] = objects[item].secret]
    BY <1>8 DEF Unseal, Fail
  <2>3. Authorized(item, call[c].session)
    BY <1>8 DEF Unseal, TPM2_Unseal, SessionUsed
  <2>4. item \in ObjectHandles /\ call[c].session \in SessionHandles
    BY <1>0, <1>8 DEF Unseal, Places, Place
  <2>5. PICK e \in kept : /\ e.secret = objects[item].secret
                         /\ \A p \in e.sel : pcr[p] = e.vals[p]
    BY <2>3, <2>4, Releases
  <2> QED
    BY <2>1, <2>2, <2>5 DEF TheVault!Release
<1>9. ASSUME NEW c \in Callers,
             \/ PCRRead(c) \/ Import(c) \/ Load(c) \/ StartAuthSession(c)
             \/ PolicyPCR(c) \/ CommandFails(c)
      PROVE  UNCHANGED TheVault!vars
  BY <1>9
  DEF device, PCRRead, Import, Load, TPM2_Load, StartAuthSession,
      TPM2_StartAuthSession, PolicyPCR, TPM2_PolicyPCR, CommandFails, GoOn, Fail
<1> QED
  BY <1>1, <1>2, <1>3, <1>4, <1>5, <1>6, <1>7, <1>8, <1>9 DEF Next

\* UnsealWithPCR and ImportAndUnseal give out a secret only at a moment when
\* the PCRs it was sealed for have the values it was sealed to.
THEOREM VaultRefined == Spec => ImplementsVault
<1>1. Init => TheVault!Init
  BY DEF Init, DeviceInit, TheVault!Init
<1> QED
  BY <1>1, StepVault, Invariant, PTL
  DEF Spec, ImplementsVault, TheVault!Spec

-----------------------------------------------------------------------------
(* The handles of the calls.                                               *)

\* A call holds no handle before the command that opens it.
Unopened ==
  \A c \in Callers : call[c] # None =>
    /\ pc[c] \in {"Import", "Load"} => call[c].item = None
    /\ pc[c] \in {"Import", "Load", "StartAuthSession"} => call[c].session = None

\* The handles of two calls differ.
Apart(c, d) == /\ call[c].item = None \/ call[c].item # call[d].item
               /\ call[c].session = None \/ call[c].session # call[d].session

\* The handles of a call name what it opened.
Owns(c) ==
  /\ call[c].item # None =>
       objects[call[c].item] = [kind   |-> "sealed",
                                secret |-> call[c].priv.secret,
                                policy |-> call[c].pub.policy]
  /\ pc[c] = "PolicyPCR" => /\ sessions[call[c].session] # None
                            /\ sessions[call[c].session].digest = <<>>
  /\ pc[c] = "Unseal" => /\ sessions[call[c].session] # None
                         /\ Len(sessions[call[c].session].digest) = 1

HInv == IInv /\ Unopened /\ CallsOwnHandles

\* Any step of a goroutine with a call under way.
CallStep(c) == \/ Import(c) \/ Load(c) \/ StartAuthSession(c) \/ PolicyPCR(c)
               \/ Unseal(c) \/ CommandFails(c)
-----------------------------------------------------------------------------
(* What the invariant says of one call.                                    *)

\* CallsOwnHandles, in parts.
LEMMA Parts ==
  CallsOwnHandles <=>
    \A c \in Callers : call[c] # None =>
      Owns(c) /\ \A d \in Callers \ {c} : call[d] # None => Apart(c, d)
BY DEF CallsOwnHandles, Owns, Apart

\* A step leaves the handles of all calls but one as they were.
LEMMA OneCall ==
  ASSUME CallsOwnHandles, Places, NEW c \in Callers,
         \A d \in Callers \ {c} : pc'[d] = pc[d] /\ call'[d] = call[d],
         \A d \in Callers \ {c} : call[d] # None =>
           /\ call[d].item # None => objects'[call[d].item] = objects[call[d].item]
           /\ pc[d] \in {"PolicyPCR", "Unseal"} =>
                sessions'[call[d].session] = sessions[call[d].session],
         call'[c] # None =>
           /\ Owns(c)'
           /\ \A d \in Callers \ {c} : call[d] # None =>
                Apart(c, d)' /\ Apart(d, c)'
  PROVE  CallsOwnHandles'
<1>1. ASSUME NEW d \in Callers \ {c}, call'[d] # None PROVE Owns(d)'
  BY <1>1, Parts DEF Owns
<1>2. ASSUME NEW d \in Callers \ {c}, call'[d] # None,
             NEW e \in Callers \ {d}, call'[e] # None
      PROVE  Apart(d, e)'
  <2>1. CASE e = c
    BY <1>2, <2>1
  <2>2. CASE e # c
    BY <1>2, <2>2, Parts DEF Apart
  <2> QED
    BY <2>1, <2>2
<1>3. \A d \in Callers \ {c} : call'[d] = call[d]
  OBVIOUS
<1>4. (\A e \in Callers : call[e] # None =>
         Owns(e) /\ \A d \in Callers \ {e} : call[d] # None => Apart(e, d))'
  BY <1>1, <1>2, <1>3
<1> QED
  BY <1>4 DEF CallsOwnHandles, Owns, Apart

\* The objects and sessions that calls hold are there.
LEMMA Held ==
  ASSUME HInv, NEW d \in Callers, call[d] # None
  PROVE  /\ call[d] \in Call
         /\ call[d].item # None =>
              call[d].item \in ObjectHandles /\ objects[call[d].item] # None
         /\ call[d].session # None =>
              call[d].session \in SessionHandles /\ sessions[call[d].session] # None
<1>1. call[d] \in Call
  BY DEF HInv, IInv, TypeOK
<1>2. ASSUME call[d].item # None
      PROVE  call[d].item \in ObjectHandles /\ objects[call[d].item] # None
  <2>1. call[d].item \in ObjectHandles
    BY <1>1, <1>2 DEF Call
  <2>2. call[d].priv.secret \in Secrets /\ call[d].pub.policy \in Policy
    BY <1>1 DEF Call, Private, Duplicate, Public
  <2>3. PICK s \in Secrets, p \in Policy :
          objects[call[d].item] = [kind |-> "sealed", secret |-> s, policy |-> p]
    BY <1>2, <2>2 DEF HInv, CallsOwnHandles
  <2>4. objects[call[d].item] \in Sealed
    BY <2>3 DEF Sealed
  <2> QED
    BY <2>1, <2>4, NoneFacts
<1>3. ASSUME call[d].session # None
      PROVE  call[d].session \in SessionHandles /\ sessions[call[d].session] # None
  <2>1. call[d].session \in SessionHandles
    BY <1>1, <1>3 DEF Call
  <2>2. pc[d] \in {"PolicyPCR", "Unseal"}
    BY <1>3 DEF HInv, IInv, TypeOK, Places, Place, Unopened
  <2> QED
    BY <2>1, <2>2 DEF HInv, CallsOwnHandles
<1> QED
  BY <1>1, <1>2, <1>3

\* A session that is opened, or used up, is there.
LEMMA FreshSession == [digest |-> <<>>, counter |-> Unbound] # None
<1>1. [digest |-> <<>>, counter |-> Unbound] \in Session
  BY DEF Session, Policy, Unbound
<1> QED
  BY <1>1, NoneFacts

\* A command of a call, when it succeeds, adds to the call what it opened.
LEMMA Moves ==
  ASSUME HInv, NEW c \in Callers, CallStep(c)
  PROVE  /\ call[c] # None
         /\ \A d \in Callers \ {c} : pc'[d] = pc[d] /\ call'[d] = call[d]
<1>1. call[c] # None
  BY DEF CallStep, Import, Load, StartAuthSession, PolicyPCR, Unseal,
         CommandFails, HInv, IInv, Places, Place
<1> QED
  BY <1>1, Frame DEF CallStep, HInv, IInv
-----------------------------------------------------------------------------
(* The steps.                                                              *)

\* A call opens its item by Load and its session by StartAuthSession.
LEMMA UnopenedStep == HInv /\ [Next]_vars => Unopened'
<1> SUFFICES ASSUME HInv, [Next]_vars PROVE Unopened'
  OBVIOUS
<1>0. TypeOK /\ Places /\ Unopened
  BY DEF HInv, IInv
<1>1. CASE UNCHANGED <<pc, call>>
  BY <1>0, <1>1 DEF Unopened
<1>2. CASE Crash \/ Reset
  BY <1>2 DEF Crash, Reset, ProgramDies, Unopened
<1>3. CASE UNCHANGED vars \/ PCRExtend \/ CreateStoragePrimary \/ WrapToPCR
  BY <1>1, <1>3 DEF vars, program, PCRExtend, CreateStoragePrimary, WrapToPCR
<1>4. ASSUME NEW c \in Callers, PCRRead(c) \/ SealToPCR(c) PROVE Unopened'
  BY <1>1, <1>4 DEF PCRRead, SealToPCR
<1>5. ASSUME NEW c \in Callers, UnsealWithPCR(c) \/ ImportAndUnseal(c)
      PROVE  Unopened'
  <2>1. \A d \in Callers \ {c} : pc'[d] = pc[d] /\ call'[d] = call[d]
    BY <1>0, <1>5, Frame
  <2>2. call'[c].item = None /\ call'[c].session = None
    BY <1>0, <1>5 DEF UnsealWithPCR, ImportAndUnseal, Start, TypeOK
  <2> QED
    BY <1>0, <2>1, <2>2 DEF Unopened
<1>6. ASSUME NEW c \in Callers, CallStep(c) PROVE Unopened'
  <2>1. /\ \A d \in Callers \ {c} : pc'[d] = pc[d] /\ call'[d] = call[d]
        /\ call[c] \in Call /\ call[c] # None
    BY <1>0, <1>6, Moves DEF TypeOK
  <2>2. CASE call'[c] = None
    BY <1>0, <2>1, <2>2 DEF Unopened
  <2>3. CASE Import(c)
    <3>1. PICK new : call' = [call EXCEPT ![c] = [@ EXCEPT !.priv = new, !.seed = None]]
      BY <1>0, <2>1, <2>3 DEF Import, GoOn, TypeOK
    <3>2. /\ call'[c].item = call[c].item /\ call'[c].session = call[c].session
          /\ pc[c] = "Import"
      BY <1>0, <2>1, <2>3, <3>1 DEF Import, TypeOK, Call
    <3> QED
      BY <1>0, <2>1, <3>2 DEF Unopened
  <2>4. CASE Load(c) /\ call'[c] # None
    <3>1. PICK h \in ObjectHandles :
            GoOn(c, "StartAuthSession", [call[c] EXCEPT !.item = h])
      BY <1>0, <2>4 DEF Load, Fail, TypeOK
    <3>2. /\ call'[c].session = call[c].session /\ pc[c] = "Load"
          /\ pc'[c] = "StartAuthSession"
      BY <1>0, <2>1, <2>4, <3>1 DEF Load, GoOn, TypeOK, Call
    <3> QED
      BY <1>0, <2>1, <3>2 DEF Unopened
  <2>5. CASE (StartAuthSession(c) \/ PolicyPCR(c)) /\ call'[c] # None
    <3>1. pc'[c] \in {"PolicyPCR", "Unseal"}
      BY <1>0, <2>5 DEF StartAuthSession, PolicyPCR, Fail, GoOn, TypeOK
    <3> QED
      BY <1>0, <2>1, <3>1 DEF Unopened
  <2>6. (Unseal(c) \/ CommandFails(c)) => call'[c] = None
    BY <1>0 DEF Unseal, CommandFails, Fail, TypeOK
  <2> QED
    BY <1>6, <2>2, <2>3, <2>4, <2>5, <2>6 DEF CallStep
<1> QED
  BY <1>2, <1>3, <1>4, <1>5, <1>6 DEF Next, CallStep

\* An item is loaded into an empty slot.
LEMMA LoadOwns ==
  ASSUME HInv, NEW c \in Callers, Load(c) PROVE CallsOwnHandles'
<1>1. PICK h \in ObjectHandles :
        /\ TPM2_Load(h, parent, call[c].priv, call[c].pub)
        /\ \/ Fail(c, [call[c] EXCEPT !.item = h])
           \/ GoOn(c, "StartAuthSession", [call[c] EXCEPT !.item = h])
  BY DEF Load
<1>2. /\ TypeOK /\ Places /\ CallsOwnHandles
      /\ call[c] # None /\ call[c] \in Call
      /\ call[c].item = None /\ call[c].session = None
      /\ \A d \in Callers \ {c} : pc'[d] = pc[d] /\ call'[d] = call[d]
  BY Moves, Held DEF HInv, IInv, Unopened, Load, CallStep
<1>3. PICK s, p : s = call[c].priv.secret /\ p = call[c].pub.policy
  OBVIOUS
<1>4. /\ objects[h] = None /\ UNCHANGED sessions
      /\ objects' = [objects EXCEPT ![h] =
                       [kind |-> "sealed", secret |-> s, policy |-> p]]
  BY <1>1, <1>3 DEF TPM2_Load
<1>5. \A d \in Callers : call[d] # None => call[d].item # h
  BY <1>4, Held, NoneFacts
<1>6. \A d \in Callers \ {c} : call[d] # None =>
        /\ call[d].item # None => objects'[call[d].item] = objects[call[d].item]
        /\ pc[d] \in {"PolicyPCR", "Unseal"} =>
             sessions'[call[d].session] = sessions[call[d].session]
  BY <1>2, <1>4, <1>5, Held DEF TypeOK, DeviceTypeOK
<1>7. ASSUME call'[c] # None
      PROVE  /\ pc'[c] = "StartAuthSession"
             /\ call'[c] = [call[c] EXCEPT !.item = h]
  BY <1>1, <1>2, <1>7 DEF Fail, GoOn, TypeOK
<1>8. ASSUME call'[c] # None
      PROVE  /\ call'[c].item = h /\ call'[c].session = None
             /\ call'[c].priv.secret = s /\ call'[c].pub.policy = p
  BY <1>2, <1>3, <1>7, <1>8 DEF Call
<1>9. objects'[h] = [kind |-> "sealed", secret |-> s, policy |-> p]
  BY <1>2, <1>4 DEF TypeOK, DeviceTypeOK
<1>10. ASSUME call'[c] # None PROVE Owns(c)'
  BY <1>7, <1>8, <1>9, <1>10 DEF Owns
<1>11. ASSUME call'[c] # None, NEW d \in Callers \ {c}, call[d] # None
       PROVE  Apart(c, d)' /\ Apart(d, c)'
  BY <1>2, <1>5, <1>8, <1>11 DEF Apart
<1> QED
  BY <1>2, <1>6, <1>10, <1>11, OneCall

\* A session is opened in an empty slot.
LEMMA SessionOwns ==
  ASSUME HInv, NEW c \in Callers, StartAuthSession(c) PROVE CallsOwnHandles'
<1>1. PICK h \in SessionHandles :
        /\ TPM2_StartAuthSession(h)
        /\ \/ Fail(c, [call[c] EXCEPT !.session = h])
           \/ GoOn(c, "PolicyPCR", [call[c] EXCEPT !.session = h])
  BY DEF StartAuthSession
<1>2. /\ TypeOK /\ Places /\ CallsOwnHandles
      /\ call[c] # None /\ call[c] \in Call /\ Owns(c)
      /\ \A d \in Callers \ {c} : pc'[d] = pc[d] /\ call'[d] = call[d]
  BY Moves, Held, Parts DEF HInv, IInv, CallStep
<1>3. /\ sessions[h] = None /\ UNCHANGED objects
      /\ sessions'[h] = [digest |-> <<>>, counter |-> Unbound]
      /\ \A k \in SessionHandles \ {h} : sessions'[k] = sessions[k]
  BY <1>1, <1>2 DEF TPM2_StartAuthSession, TypeOK, DeviceTypeOK
<1>4. sessions'[h] # None /\ sessions'[h].digest = <<>>
  BY <1>3, FreshSession
<1>5. \A d \in Callers : call[d] # None => call[d].session # h
  BY <1>3, Held, NoneFacts
<1>6. \A d \in Callers \ {c} : call[d] # None =>
        /\ call[d].item # None => objects'[call[d].item] = objects[call[d].item]
        /\ pc[d] \in {"PolicyPCR", "Unseal"} =>
             sessions'[call[d].session] = sessions[call[d].session]
  BY <1>2, <1>3, <1>5 DEF Places, Place
<1>7. ASSUME call'[c] # None
      PROVE  pc'[c] = "PolicyPCR" /\ call'[c] = [call[c] EXCEPT !.session = h]
  BY <1>1, <1>2, <1>7 DEF Fail, GoOn, TypeOK
<1>8. ASSUME call'[c] # None
      PROVE  /\ call'[c].session = h /\ call'[c].item = call[c].item
             /\ call'[c].priv = call[c].priv /\ call'[c].pub = call[c].pub
  BY <1>2, <1>7, <1>8 DEF Call
<1>9. ASSUME call'[c] # None PROVE Owns(c)'
  BY <1>2, <1>3, <1>4, <1>7, <1>8, <1>9 DEF Owns
<1>10. ASSUME call'[c] # None, NEW d \in Callers \ {c}, call[d] # None
       PROVE  Apart(c, d)' /\ Apart(d, c)'
  BY <1>2, <1>5, <1>8, <1>10, Parts DEF Apart
<1> QED
  BY <1>2, <1>6, <1>9, <1>10, OneCall

\* PolicyPCR adds the first assertion to the session of its own call.
LEMMA Asserts ==
  ASSUME HInv, NEW c \in Callers, PolicyPCR(c)
  PROVE  /\ call[c].session \in SessionHandles /\ pc[c] = "PolicyPCR"
         /\ UNCHANGED objects
         /\ sessions'[call[c].session] # None
         /\ Len(sessions'[call[c].session].digest) = 1
         /\ sessions'[call[c].session].digest[1] \in Assertion
         /\ sessions'[call[c].session].digest[1].sel = bitmap(call[c].sel)
         /\ \A k \in SessionHandles \ {call[c].session} : sessions'[k] = sessions[k]
         /\ call'[c] # None => pc'[c] = "Unseal" /\ call'[c] = call[c]
<1> DEFINE h == call[c].session
           new == [sel |-> bitmap(call[c].sel), vals |-> Current(bitmap(call[c].sel))]
<1>1. /\ TypeOK /\ call[c] # None /\ call[c] \in Call /\ Owns(c)
      /\ h \in SessionHandles /\ pc[c] = "PolicyPCR"
  BY Moves, Held, Parts DEF HInv, IInv, CallStep, PolicyPCR, Places, Place
<1>2. sessions[h] \in Session /\ sessions[h].digest = <<>>
  BY <1>1 DEF Owns, TypeOK, DeviceTypeOK
<1>3. /\ UNCHANGED objects
      /\ sessions'[h] = [digest |-> Append(<<>>, new), counter |-> updateCounter]
      /\ \A k \in SessionHandles \ {h} : sessions'[k] = sessions[k]
  BY <1>1, <1>2 DEF PolicyPCR, TPM2_PolicyPCR, TypeOK, DeviceTypeOK
<1>4. new \in Assertion /\ new.sel = bitmap(call[c].sel)
  BY <1>1, BitmapIsPlatform, ValuesInType
  DEF Call, Assertion, Current, TypeOK, DeviceTypeOK
<1> HIDE DEF new
<1>5. /\ Append(<<>>, new) \in Policy /\ Len(Append(<<>>, new)) = 1
      /\ Append(<<>>, new)[1] = new
  BY <1>4 DEF Policy
<1>6. sessions'[h] \in Session /\ sessions'[h].digest = Append(<<>>, new)
  BY <1>1, <1>3, <1>5 DEF Session, TypeOK, DeviceTypeOK
<1>7. call'[c] # None => pc'[c] = "Unseal" /\ call'[c] = call[c]
  BY <1>1 DEF PolicyPCR, Fail, GoOn, TypeOK
<1> QED
  BY <1>1, <1>3, <1>4, <1>5, <1>6, <1>7, NoneFacts

\* PolicyPCR leaves the handles of every call as they were.
LEMMA PolicyOwns ==
  ASSUME HInv, NEW c \in Callers, PolicyPCR(c) PROVE CallsOwnHandles'
<1> DEFINE h == call[c].session
<1>1. /\ Places /\ CallsOwnHandles /\ call[c] # None /\ Owns(c)
      /\ \A d \in Callers \ {c} : pc'[d] = pc[d] /\ call'[d] = call[d]
  BY Moves, Parts DEF HInv, IInv, CallStep
<1>2. \A d \in Callers \ {c} : call[d] # None => call[d].session # h
  BY <1>1, Asserts, NoneFacts, Parts DEF Apart
<1>3. \A d \in Callers \ {c} : call[d] # None =>
        /\ call[d].item # None => objects'[call[d].item] = objects[call[d].item]
        /\ pc[d] \in {"PolicyPCR", "Unseal"} =>
             sessions'[call[d].session] = sessions[call[d].session]
  BY <1>1, <1>2, Asserts DEF Places, Place
<1>4. ASSUME call'[c] # None PROVE Owns(c)'
  BY <1>1, <1>4, Asserts DEF Owns
<1>5. ASSUME call'[c] # None, NEW d \in Callers \ {c}, call[d] # None
      PROVE  Apart(c, d)' /\ Apart(d, c)'
  BY <1>1, <1>5, Asserts, Parts DEF Apart
<1> HIDE DEF h
<1> QED
  BY <1>1, <1>3, <1>4, <1>5, OneCall

\* What a call opened stays its own.
LEMMA HandlesStep == HInv /\ [Next]_vars => CallsOwnHandles'
<1> SUFFICES ASSUME HInv, [Next]_vars PROVE CallsOwnHandles'
  OBVIOUS
<1>0. TypeOK /\ Places /\ CallsOwnHandles
  BY DEF HInv, IInv
<1>1. CASE UNCHANGED <<pc, call, objects, sessions>>
  BY <1>0, <1>1 DEF CallsOwnHandles
<1>2. CASE Crash \/ Reset
  BY <1>2 DEF Crash, Reset, ProgramDies, CallsOwnHandles
<1>3. CASE CreateStoragePrimary
  <2>1. PICK h \in ObjectHandles : TPM2_CreatePrimary(h, StorageKey)
    BY <1>3 DEF CreateStoragePrimary
  <2>2. /\ objects[h] = None
        /\ \A k \in ObjectHandles \ {h} : objects'[k] = objects[k]
        /\ UNCHANGED <<pc, call, sessions>>
    BY <1>0, <1>3, <2>1
    DEF CreateStoragePrimary, TPM2_CreatePrimary, TypeOK, DeviceTypeOK
  <2>3. \A d \in Callers : call[d] # None /\ call[d].item # None =>
          objects'[call[d].item] = objects[call[d].item]
    BY <2>2, Held
  <2> QED
    BY <1>0, <2>2, <2>3 DEF CallsOwnHandles
<1>4. CASE UNCHANGED vars \/ PCRExtend \/ WrapToPCR
  BY <1>1, <1>4
  DEF vars, device, program, PCRExtend, TPM2_PCR_Extend, WrapToPCR
<1>5. ASSUME NEW c \in Callers, PCRRead(c) \/ SealToPCR(c)
      PROVE  CallsOwnHandles'
  BY <1>1, <1>5 DEF PCRRead, SealToPCR, device
<1>6. ASSUME NEW c \in Callers, UnsealWithPCR(c) \/ ImportAndUnseal(c)
      PROVE  CallsOwnHandles'
  <2>1. \A d \in Callers \ {c} : pc'[d] = pc[d] /\ call'[d] = call[d]
    BY <1>0, <1>6, Frame
  <2>2. /\ call'[c].item = None /\ call'[c].session = None
        /\ pc'[c] \in {"Import", "Load"}
        /\ UNCHANGED <<objects, sessions>>
    BY <1>0, <1>6 DEF UnsealWithPCR, ImportAndUnseal, Start, TypeOK, device
  <2>3. Owns(c)'
    BY <2>2 DEF Owns
  <2>4. \A d \in Callers \ {c} : Apart(c, d)' /\ Apart(d, c)'
    BY <2>2 DEF Apart
  <2> QED
    BY <1>0, <2>1, <2>2, <2>3, <2>4, OneCall
<1>7. ASSUME NEW c \in Callers, Import(c) PROVE CallsOwnHandles'
  <2>1. /\ \A d \in Callers \ {c} : pc'[d] = pc[d] /\ call'[d] = call[d]
        /\ call[c] \in Call /\ call[c].item = None /\ call[c].session = None
    BY <1>7, Moves, Held DEF CallStep, HInv, Unopened, Import
  <2>2. PICK new : call' = [call EXCEPT ![c] = [@ EXCEPT !.priv = new, !.seed = None]]
    BY <1>0, <2>1, <1>7 DEF Import, GoOn, TypeOK
  <2>3. /\ call'[c].item = None /\ call'[c].session = None
        /\ pc'[c] = "Load" /\ UNCHANGED <<objects, sessions>>
    BY <1>0, <1>7, <2>1, <2>2 DEF Import, GoOn, TypeOK, Call, device
  <2>4. Owns(c)'
    BY <2>3 DEF Owns
  <2>5. \A d \in Callers \ {c} : Apart(c, d)' /\ Apart(d, c)'
    BY <2>3 DEF Apart
  <2> QED
    BY <1>0, <2>1, <2>3, <2>4, <2>5, OneCall
<1>8. ASSUME NEW c \in Callers, Unseal(c) PROVE CallsOwnHandles'
  <2>1. /\ \A d \in Callers \ {c} : pc'[d] = pc[d] /\ call'[d] = call[d]
        /\ call[c] # None /\ call'[c] = None
        /\ call[c].session \in SessionHandles
    BY <1>0, <1>8, Moves DEF CallStep, Unseal, Fail, TypeOK, Places, Place
  <2>2. /\ UNCHANGED objects
        /\ \A k \in SessionHandles \ {call[c].session} : sessions'[k] = sessions[k]
    BY <1>0, <1>8 DEF Unseal, TPM2_Unseal, SessionUsed, TypeOK, DeviceTypeOK
  <2>3. \A d \in Callers \ {c} : call[d] # None =>
          call[d].session # call[c].session
    BY <1>0, <2>1, NoneFacts, Parts DEF Apart
  <2>4. \A d \in Callers \ {c} : call[d] # None =>
          /\ call[d].item # None => objects'[call[d].item] = objects[call[d].item]
          /\ pc[d] \in {"PolicyPCR", "Unseal"} =>
               sessions'[call[d].session] = sessions[call[d].session]
    BY <1>0, <2>1, <2>2, <2>3 DEF Places, Place
  <2> QED
    BY <1>0, <2>1, <2>4, OneCall
<1>9. ASSUME NEW c \in Callers, CommandFails(c) PROVE CallsOwnHandles'
  <2>1. /\ \A d \in Callers \ {c} : pc'[d] = pc[d] /\ call'[d] = call[d]
        /\ call'[c] = None /\ UNCHANGED <<objects, sessions>>
    BY <1>0, <1>9, Moves DEF CallStep, CommandFails, Fail, TypeOK, device
  <2> QED
    BY <1>0, <2>1, OneCall
<1> QED
  BY <1>2, <1>3, <1>4, <1>5, <1>6, <1>7, <1>8, <1>9, LoadOwns, SessionOwns,
     PolicyOwns DEF Next

\* The invariant of the handles holds in every reachable state.
LEMMA Handles == Spec => []HInv
<1>1. Init => Unopened /\ CallsOwnHandles
  BY DEF Init, Unopened, CallsOwnHandles
<1>2. IInv /\ IInv' /\ Unopened /\ CallsOwnHandles /\ [Next]_vars
        => Unopened' /\ CallsOwnHandles'
  BY UnopenedStep, HandlesStep DEF HInv
<1>3. HInv <=> IInv /\ Unopened /\ CallsOwnHandles
  BY DEF HInv
<1> QED
  BY <1>1, <1>2, <1>3, Invariant, PTL DEF Spec

\* While a call carries handles, they name what it opened, and no other call
\* has them (seal.go, UnsealWithPCR; import.go, ImportAndUnseal).
THEOREM HandlesOwned == Spec => []CallsOwnHandles
<1>1. HInv => CallsOwnHandles
  BY DEF HInv
<1> QED
  BY <1>1, Handles, PTL
-----------------------------------------------------------------------------
(* Slots.                                                                  *)

\* The slots in use: by loaded objects that are not a primary, by sessions.
LoadedItems  == {h \in DOMAIN objects : objects[h] \in Sealed}
OpenSessions == {h \in DOMAIN sessions : sessions[h] # None}

\* The two counts of SlotsSpent.
ObjectsSpent  == leftObjects + Cardinality(WithItem) = Cardinality(LoadedItems)
SessionsSpent == leftSessions + Cardinality(WithSession) = Cardinality(OpenSessions)

\* SlotsSpent, in parts.
LEMMA Counts == SlotsSpent <=> ObjectsSpent /\ SessionsSpent
BY DEF SlotsSpent, ObjectsSpent, SessionsSpent, LoadedItems, OpenSessions

\* All these sets are finite, their cardinalities numbers.
LEMMA Finite ==
  ASSUME TypeOK
  PROVE  /\ IsFiniteSet(WithItem) /\ IsFiniteSet(WithSession)
         /\ IsFiniteSet(LoadedItems) /\ IsFiniteSet(OpenSessions)
         /\ Cardinality(WithItem) \in Nat /\ Cardinality(WithSession) \in Nat
         /\ Cardinality(LoadedItems) \in Nat /\ Cardinality(OpenSessions) \in Nat
<1>1. /\ IsFiniteSet(Callers)
      /\ IsFiniteSet(ObjectHandles) /\ IsFiniteSet(SessionHandles)
  BY SealingAssumption, DeviceAssumption
<1>2. /\ WithItem \subseteq Callers /\ WithSession \subseteq Callers
      /\ LoadedItems \subseteq ObjectHandles /\ OpenSessions \subseteq SessionHandles
  BY DEF WithItem, WithSession, LoadedItems, OpenSessions, TypeOK, DeviceTypeOK
<1>3. /\ IsFiniteSet(WithItem) /\ IsFiniteSet(WithSession)
      /\ IsFiniteSet(LoadedItems) /\ IsFiniteSet(OpenSessions)
  BY <1>1, <1>2, FS_Subset
<1> QED
  BY <1>3, FS_CardinalityType

\* A step that disturbs neither the calls' handles nor the slots.
LEMMA NoMore ==
  ASSUME ObjectsSpent, SessionsSpent, UNCHANGED left,
         WithItem' = WithItem, WithSession' = WithSession,
         LoadedItems' = LoadedItems, OpenSessions' = OpenSessions
  PROVE  ObjectsSpent' /\ SessionsSpent'
BY DEF ObjectsSpent, SessionsSpent, left

\* The call that ends with what it has opened.
LEMMA Over ==
  ASSUME TypeOK, ObjectsSpent, SessionsSpent, NEW c \in Callers,
         call[c] # None, call'[c] = None, Leaves(call[c]),
         \A d \in Callers \ {c} : call'[d] = call[d],
         LoadedItems' = LoadedItems, OpenSessions' = OpenSessions
  PROVE  ObjectsSpent' /\ SessionsSpent'
<1>1. WithItem' = WithItem \ {c} /\ WithSession' = WithSession \ {c}
  BY DEF WithItem, WithSession
<1>2. leftObjects' + Cardinality(WithItem') = leftObjects + Cardinality(WithItem)
  <2>1. CASE c \in WithItem
    <3>1. leftObjects' = leftObjects + 1
      BY <2>1 DEF WithItem, Leaves
    <3>2. Cardinality(WithItem') = Cardinality(WithItem) - 1
      BY <1>1, <2>1, Finite, FS_RemoveElement
    <3> QED
      BY <3>1, <3>2, Finite DEF TypeOK
  <2>2. CASE c \notin WithItem
    <3>1. leftObjects' = leftObjects
      BY <2>2 DEF WithItem, Leaves, TypeOK
    <3>2. WithItem' = WithItem
      BY <1>1, <2>2
    <3> QED
      BY <3>1, <3>2
  <2> QED
    BY <2>1, <2>2
<1>3. leftSessions' + Cardinality(WithSession')
        = leftSessions + Cardinality(WithSession)
  <2>1. CASE c \in WithSession
    <3>1. leftSessions' = leftSessions + 1
      BY <2>1 DEF WithSession, Leaves
    <3>2. Cardinality(WithSession') = Cardinality(WithSession) - 1
      BY <1>1, <2>1, Finite, FS_RemoveElement
    <3> QED
      BY <3>1, <3>2, Finite DEF TypeOK
  <2>2. CASE c \notin WithSession
    <3>1. leftSessions' = leftSessions
      BY <2>2 DEF WithSession, Leaves, TypeOK
    <3>2. WithSession' = WithSession
      BY <1>1, <2>2
    <3> QED
      BY <3>1, <3>2
  <2> QED
    BY <2>1, <2>2
<1> QED
  BY <1>2, <1>3 DEF ObjectsSpent, SessionsSpent

\* Load takes a slot, for the call or for good.
LEMMA LoadSpends ==
  ASSUME HInv, ObjectsSpent, SessionsSpent, NEW c \in Callers, Load(c)
  PROVE  ObjectsSpent' /\ SessionsSpent'
<1>1. PICK h \in ObjectHandles :
        /\ TPM2_Load(h, parent, call[c].priv, call[c].pub)
        /\ \/ Fail(c, [call[c] EXCEPT !.item = h])
           \/ GoOn(c, "StartAuthSession", [call[c] EXCEPT !.item = h])
  BY DEF Load
<1>2. /\ TypeOK /\ call[c] # None /\ call[c] \in Call
      /\ call[c].item = None /\ call[c].session = None
      /\ \A d \in Callers \ {c} : call'[d] = call[d]
  BY Moves, Held DEF HInv, IInv, Unopened, Load, CallStep
<1>3. UNCHANGED sessions /\ h \notin LoadedItems /\ LoadedItems' = LoadedItems \cup {h}
  <2>1. PICK s, p : s = call[c].priv.secret /\ p = call[c].pub.policy
    OBVIOUS
  <2>2. /\ objects[h] = None /\ UNCHANGED sessions
        /\ objects' = [objects EXCEPT ![h] =
                         [kind |-> "sealed", secret |-> s, policy |-> p]]
    BY <1>1, <2>1 DEF TPM2_Load
  <2>3. s \in Secrets /\ p \in Policy
    BY <1>2, <2>1 DEF Call, Private, Duplicate, Public
  <2>4. [kind |-> "sealed", secret |-> s, policy |-> p] \in Sealed
    BY <2>3 DEF Sealed
  <2> QED
    BY <1>2, <2>2, <2>4, NoneFacts DEF LoadedItems, TypeOK, DeviceTypeOK
<1>4. /\ OpenSessions' = OpenSessions
      /\ Cardinality(LoadedItems') = Cardinality(LoadedItems) + 1
  BY <1>2, <1>3, Finite, FS_AddElement DEF OpenSessions
<1>5. /\ [call[c] EXCEPT !.item = h].item = h /\ h # None
      /\ [call[c] EXCEPT !.item = h].session = None
  BY <1>2, NoneFacts DEF Call
<1>6. CASE Fail(c, [call[c] EXCEPT !.item = h])
  <2>1. /\ call'[c] = None /\ leftObjects' = leftObjects + 1
        /\ leftSessions' = leftSessions
    BY <1>2, <1>5, <1>6 DEF Fail, Leaves, TypeOK
  <2>2. WithItem' = WithItem /\ WithSession' = WithSession
    BY <1>2, <2>1 DEF WithItem, WithSession
  <2> QED
    BY <1>2, <1>4, <2>1, <2>2, Finite DEF ObjectsSpent, SessionsSpent, TypeOK
<1>7. CASE GoOn(c, "StartAuthSession", [call[c] EXCEPT !.item = h])
  <2>1. call'[c] = [call[c] EXCEPT !.item = h] /\ UNCHANGED left
    BY <1>2, <1>7 DEF GoOn, TypeOK
  <2>2. [call[c] EXCEPT !.item = h] # None
    BY <1>2, NoneFacts DEF Call
  <2>3. /\ c \notin WithItem /\ WithItem' = WithItem \cup {c}
        /\ WithSession' = WithSession
    BY <1>2, <1>5, <2>1, <2>2 DEF WithItem, WithSession
  <2>4. Cardinality(WithItem') = Cardinality(WithItem) + 1
    BY <1>2, <2>3, Finite, FS_AddElement
  <2> QED
    BY <1>2, <1>4, <2>1, <2>3, <2>4, Finite
    DEF ObjectsSpent, SessionsSpent, TypeOK, left
<1> QED
  BY <1>1, <1>6, <1>7

\* StartAuthSession takes a slot, for the call or for good.
LEMMA SessionSpends ==
  ASSUME HInv, ObjectsSpent, SessionsSpent, NEW c \in Callers, StartAuthSession(c)
  PROVE  ObjectsSpent' /\ SessionsSpent'
<1>1. PICK h \in SessionHandles :
        /\ TPM2_StartAuthSession(h)
        /\ \/ Fail(c, [call[c] EXCEPT !.session = h])
           \/ GoOn(c, "PolicyPCR", [call[c] EXCEPT !.session = h])
  BY DEF StartAuthSession
<1>2. /\ TypeOK /\ call[c] # None /\ call[c] \in Call
      /\ call[c].item \in ObjectHandles /\ call[c].session = None
      /\ \A d \in Callers \ {c} : call'[d] = call[d]
  BY Moves, Held DEF HInv, IInv, Places, Place, Unopened, StartAuthSession, CallStep
<1>3. UNCHANGED objects /\ h \notin OpenSessions /\ OpenSessions' = OpenSessions \cup {h}
  BY <1>1, <1>2, FreshSession
  DEF TPM2_StartAuthSession, OpenSessions, TypeOK, DeviceTypeOK
<1>4. /\ LoadedItems' = LoadedItems
      /\ Cardinality(OpenSessions') = Cardinality(OpenSessions) + 1
  BY <1>2, <1>3, Finite, FS_AddElement DEF LoadedItems
<1>5. /\ [call[c] EXCEPT !.session = h].session = h /\ h # None
      /\ [call[c] EXCEPT !.session = h].item = call[c].item
      /\ call[c].item # None
  BY <1>2, NoneFacts DEF Call
<1>6. c \in WithItem /\ c \notin WithSession
  BY <1>2, <1>5 DEF WithItem, WithSession
<1>7. CASE Fail(c, [call[c] EXCEPT !.session = h])
  <2>1. /\ call'[c] = None /\ leftObjects' = leftObjects + 1
        /\ leftSessions' = leftSessions + 1
    BY <1>2, <1>5, <1>7 DEF Fail, Leaves, TypeOK
  <2>2. WithItem' = WithItem \ {c} /\ WithSession' = WithSession
    BY <1>2, <2>1 DEF WithItem, WithSession
  <2>3. Cardinality(WithItem') = Cardinality(WithItem) - 1
    BY <1>2, <1>6, <2>2, Finite, FS_RemoveElement
  <2> QED
    BY <1>2, <1>4, <2>1, <2>2, <2>3, Finite DEF ObjectsSpent, SessionsSpent, TypeOK
<1>8. CASE GoOn(c, "PolicyPCR", [call[c] EXCEPT !.session = h])
  <2>1. call'[c] = [call[c] EXCEPT !.session = h] /\ UNCHANGED left
    BY <1>2, <1>8 DEF GoOn, TypeOK
  <2>2. [call[c] EXCEPT !.session = h] # None
    BY <1>2, NoneFacts DEF Call
  <2>3. WithSession' = WithSession \cup {c} /\ WithItem' = WithItem
    BY <1>2, <1>5, <1>6, <2>1, <2>2 DEF WithItem, WithSession
  <2>4. Cardinality(WithSession') = Cardinality(WithSession) + 1
    BY <1>2, <1>6, <2>3, Finite, FS_AddElement
  <2> QED
    BY <1>2, <1>4, <2>1, <2>3, <2>4, Finite
    DEF ObjectsSpent, SessionsSpent, TypeOK, left
<1> QED
  BY <1>1, <1>7, <1>8

\* A call under way gives nothing back, whatever command it issues.
LEMMA CallSpends ==
  ASSUME HInv, ObjectsSpent, SessionsSpent, NEW c \in Callers,
         Import(c) \/ PolicyPCR(c) \/ Unseal(c) \/ CommandFails(c)
  PROVE  ObjectsSpent' /\ SessionsSpent'
<1>0. /\ TypeOK /\ Places /\ call[c] # None /\ call[c] \in Call
      /\ \A d \in Callers \ {c} : call'[d] = call[d]
  BY Moves, Held DEF HInv, IInv, CallStep
<1>1. LoadedItems' = LoadedItems /\ OpenSessions' = OpenSessions
  <2>1. CASE Import(c) \/ CommandFails(c)
    BY <2>1 DEF Import, CommandFails, device, LoadedItems, OpenSessions
  <2>2. CASE PolicyPCR(c)
    <3>1. /\ call[c].session \in SessionHandles /\ UNCHANGED objects
          /\ sessions[call[c].session] # None /\ sessions'[call[c].session] # None
          /\ \A k \in SessionHandles \ {call[c].session} : sessions'[k] = sessions[k]
      BY <2>2, Asserts DEF HInv, CallsOwnHandles, PolicyPCR, TPM2_PolicyPCR
    <3>2. DOMAIN sessions = SessionHandles /\ DOMAIN sessions' = SessionHandles
      BY <1>0, <2>2 DEF PolicyPCR, TPM2_PolicyPCR, TypeOK, DeviceTypeOK
    <3> QED
      BY <3>1, <3>2 DEF LoadedItems, OpenSessions
  <2>3. CASE Unseal(c)
    <3>1. /\ call[c].session \in SessionHandles /\ UNCHANGED objects
          /\ sessions[call[c].session] # None
          /\ sessions' = [sessions EXCEPT ![call[c].session] =
                            [digest |-> <<>>, counter |-> Unbound]]
      BY <1>0, <2>3, Held, NoneFacts
      DEF Unseal, TPM2_Unseal, SessionUsed, sessionContinue, Places, Place
    <3> QED
      BY <1>0, <3>1, FreshSession DEF LoadedItems, OpenSessions, TypeOK, DeviceTypeOK
  <2> QED
    BY <2>1, <2>2, <2>3
<1>2. CASE call'[c] = None /\ Leaves(call[c])
  BY <1>0, <1>1, <1>2, Over
<1>3. CASE Import(c) \/ GoOn(c, "Unseal", call[c])
  <2>1. /\ call'[c] # None /\ UNCHANGED left
        /\ call'[c].item = call[c].item /\ call'[c].session = call[c].session
    <3>1. CASE Import(c)
      <4> DEFINE new == [name |-> call[c].pub, secret |-> call[c].priv.secret]
      <4>1. /\ UNCHANGED left
            /\ call'[c] = [call[c] EXCEPT !.priv = new, !.seed = None]
        BY <1>0, <3>1 DEF Import, GoOn, TypeOK
      <4>2. call[c].priv \in Duplicate
        BY <1>0, <3>1 DEF Import, Places, Place
      <4>3. new \in Private
        BY <1>0, <4>2 DEF Call, Private, Duplicate
      <4>4. [call[c] EXCEPT !.priv = new, !.seed = None] \in Call
        BY <1>0, <4>3 DEF Call
      <4> QED
        BY <1>0, <4>1, <4>4, NoneFacts DEF Call
    <3>2. CASE GoOn(c, "Unseal", call[c])
      BY <1>0, <3>2 DEF GoOn, TypeOK
    <3> QED
      BY <1>3, <3>1, <3>2
  <2>2. WithItem' = WithItem /\ WithSession' = WithSession
    BY <1>0, <2>1 DEF WithItem, WithSession
  <2> QED
    BY <1>1, <2>1, <2>2, NoMore
<1>4. ASSUME Fail(c, call[c]) \/ Unseal(c) \/ CommandFails(c)
      PROVE  call'[c] = None /\ Leaves(call[c])
  BY <1>0, <1>4 DEF Fail, Unseal, CommandFails, TypeOK
<1> QED
  BY <1>2, <1>3, <1>4 DEF PolicyPCR

\* The slot of an item, and that of a session, is held by the call it was
\* opened for, or left by it.
LEMMA SlotsStep == HInv /\ HInv' /\ SlotsSpent /\ [Next]_vars => SlotsSpent'
<1> SUFFICES ASSUME HInv, HInv', SlotsSpent, [Next]_vars
             PROVE  ObjectsSpent' /\ SessionsSpent'
  BY DEF SlotsSpent, ObjectsSpent, SessionsSpent, LoadedItems, OpenSessions
<1>0. TypeOK /\ TypeOK' /\ Places /\ ObjectsSpent /\ SessionsSpent
  BY Counts DEF HInv, IInv
<1>1. CASE UNCHANGED <<call, objects, sessions, left>>
  BY <1>0, <1>1, NoMore DEF WithItem, WithSession, LoadedItems, OpenSessions
<1>2. CASE Crash
  <2>1. /\ WithItem' = {} /\ WithSession' = {}
        /\ LoadedItems' = LoadedItems /\ OpenSessions' = OpenSessions
    BY <1>2
    DEF Crash, ProgramDies, device, WithItem, WithSession, LoadedItems, OpenSessions
  <2>2. /\ Cardinality(WithItem') = 0 /\ Cardinality(WithSession') = 0
        /\ leftObjects' = leftObjects + Cardinality(WithItem)
        /\ leftSessions' = leftSessions + Cardinality(WithSession)
    BY <1>2, <2>1, FS_EmptySet DEF Crash
  <2> QED
    BY <1>0, <2>1, <2>2, Finite DEF TypeOK, ObjectsSpent, SessionsSpent
<1>3. CASE Reset
  <2>1. /\ WithItem' = {} /\ WithSession' = {}
        /\ LoadedItems' = {} /\ OpenSessions' = {}
        /\ leftObjects' = 0 /\ leftSessions' = 0
    BY <1>3, NoneFacts
    DEF Reset, ProgramDies, TPM_Reset, WithItem, WithSession, LoadedItems,
        OpenSessions
  <2> QED
    BY <2>1, FS_EmptySet DEF ObjectsSpent, SessionsSpent
<1>4. CASE CreateStoragePrimary
  <2>1. PICK h \in ObjectHandles :
          objects[h] = None /\ objects' = [objects EXCEPT ![h] = StorageKey]
    BY <1>4 DEF CreateStoragePrimary, TPM2_CreatePrimary
  <2>2. UNCHANGED <<call, sessions, left>>
    BY <1>4 DEF CreateStoragePrimary, TPM2_CreatePrimary
  <2>3. StorageKey \notin Sealed
    BY DEF StorageKey, Sealed
  <2>4. LoadedItems' = LoadedItems
    BY <1>0, <2>1, <2>3, NoneFacts DEF LoadedItems, TypeOK, DeviceTypeOK
  <2> QED
    BY <1>0, <2>2, <2>4, NoMore DEF WithItem, WithSession, OpenSessions
<1>5. CASE UNCHANGED vars \/ PCRExtend \/ WrapToPCR
  BY <1>1, <1>5
  DEF vars, device, program, PCRExtend, TPM2_PCR_Extend, WrapToPCR
<1>6. ASSUME NEW c \in Callers, PCRRead(c) \/ SealToPCR(c)
      PROVE  ObjectsSpent' /\ SessionsSpent'
  BY <1>1, <1>6 DEF PCRRead, SealToPCR, device
<1>7. ASSUME NEW c \in Callers, UnsealWithPCR(c) \/ ImportAndUnseal(c)
      PROVE  ObjectsSpent' /\ SessionsSpent'
  <2>1. \A d \in Callers \ {c} : call'[d] = call[d]
    BY <1>0, <1>7, Frame
  <2>2. /\ call[c] = None /\ call'[c].item = None /\ call'[c].session = None
        /\ UNCHANGED <<objects, sessions, left>>
    BY <1>0, <1>7
    DEF UnsealWithPCR, ImportAndUnseal, Start, Places, Place, TypeOK, device
  <2>3. WithItem' = WithItem /\ WithSession' = WithSession
    BY <2>1, <2>2 DEF WithItem, WithSession
  <2> QED
    BY <1>0, <2>2, <2>3, NoMore DEF LoadedItems, OpenSessions
<1> QED
  BY <1>0, <1>2, <1>3, <1>4, <1>5, <1>6, <1>7, LoadSpends, SessionSpends,
     CallSpends DEF Next

\* However the calls of a boot end, each that has loaded an object, and each
\* that has opened a session, has a slot of its own until the next reset:
\* UnsealWithPCR (seal.go) and ImportAndUnseal (import.go) flush neither handle.
THEOREM SlotsRunOut == Spec => []SlotsSpent
<1>1. Init => SlotsSpent
  <2> SUFFICES ASSUME Init PROVE ObjectsSpent /\ SessionsSpent
    BY Counts
  <2>1. /\ WithItem = {} /\ WithSession = {} /\ leftObjects = 0 /\ leftSessions = 0
        /\ LoadedItems = {} /\ OpenSessions = {}
    BY NoneFacts
    DEF Init, DeviceInit, WithItem, WithSession, LoadedItems, OpenSessions
  <2> QED
    BY <2>1, FS_EmptySet DEF ObjectsSpent, SessionsSpent
<1> QED
  BY <1>1, Handles, SlotsStep, PTL DEF Spec
-----------------------------------------------------------------------------
(* Sealing and unsealing agree.                                            *)

\* Every read fits in one reply.
Fits == \A s \in Selections : Cardinality(Platform(s)) <= MaxDigests

\* There is a value for each PCR of the selection, and for no other.
HasAll(S, vals) == \A p \in PCRs : p \in S <=> vals[p] # None

\* A policy of one PCR assertion that has all its values.
Whole(policy) == /\ policy \in Seq(Assertion) /\ Len(policy) = 1
                 /\ HasAll(policy[1].sel, policy[1].vals)

WholeReadings ==
  \A c \in Callers : reading[c] # None =>
    HasAll(Platform(reading[c].sel), reading[c].vals)

WholeCarriers ==
  /\ \A b \in blobs : Whole(b.priv.name.policy)
  /\ \A w \in wraps : Whole(w.dup.name.policy)
  /\ \A c \in Callers : call[c] # None => Whole(call[c].priv.name.policy)

\* What was loaded is what the private area names.
Matched ==
  \A c \in Callers : call[c] # None /\ call[c].item # None =>
    call[c].pub = call[c].priv.name

\* A secret was kept once.
KeptOnce == \A e \in kept, f \in kept : e.secret = f.secret => e = f

\* The session of a call that reached Unseal holds what the call asked for.
Asked ==
  \A c \in Callers : pc[c] = "Unseal" =>
    /\ sessions[call[c].session].digest[1] \in Assertion
    /\ sessions[call[c].session].digest[1].sel = bitmap(call[c].sel)

AInv == HInv /\ WholeReadings /\ WholeCarriers /\ Matched /\ KeptOnce /\ Asked

\* A read that fits has the value of every PCR of the selection.
LEMMA OneReply ==
  ASSUME Fits, NEW s \in Selections
  PROVE  FirstReply(bitmap(s)) = Platform(s)
<1>1. bitmap(s) = Platform(s) /\ Platform(s) \subseteq 0..23
  BY BitmapIsPlatform DEF Platform
<1>2. IsFiniteSet(Platform(s))
  <2>1. PICK a \in Int, b \in Int : a = 0 /\ b = 23
    OBVIOUS
  <2>2. IsFiniteSet(a..b) /\ Platform(s) \subseteq a..b
    BY <1>1, <2>1, FS_Interval
  <2> QED
    BY <2>2, FS_Subset
<1>3. ASSUME NEW p \in Platform(s)
      PROVE  Cardinality({q \in Platform(s) : q < p}) < MaxDigests
  <2> DEFINE below == {q \in Platform(s) : q < p}
  <2>1. below \subseteq Platform(s) /\ below # Platform(s)
    BY <1>1
  <2>2. /\ Cardinality(below) <= Cardinality(Platform(s))
        /\ Cardinality(below) # Cardinality(Platform(s))
        /\ IsFiniteSet(below)
    BY <1>2, <2>1, FS_Subset
  <2>3. Cardinality(below) \in Nat /\ Cardinality(Platform(s)) \in Nat
    BY <1>2, <2>2, FS_CardinalityType
  <2> QED
    BY <2>2, <2>3, DeviceAssumption DEF Fits
<1> QED
  BY <1>1, <1>3 DEF FirstReply

\* Values read from a PCR state are all there.
LEMMA AllRead ==
  ASSUME NEW f \in [PCRs -> Seq(Digests)], NEW S
  PROVE  HasAll(S, ValuesIn(f, S))
BY NoneFacts DEF HasAll, ValuesIn

\* The policy of a read that has all values is whole.
LEMMA WholePolicy ==
  ASSUME NEW s \in Selections, NEW v \in Values, HasAll(Platform(s), v)
  PROVE  Whole(PolicyPCRDigest(s, v))
<1>1. PICK a \in Assertion : a = [sel |-> Platform(s), vals |-> v]
  BY BitmapIsPlatform DEF Assertion
<1>2. PolicyPCRDigest(s, v) = <<a>> /\ HasAll(a.sel, a.vals)
  BY <1>1, BitmapIsPlatform DEF PolicyPCRDigest
<1> QED
  BY <1>1, <1>2 DEF Whole

\* Every read has all its values.
LEMMA WholeReadingsStep ==
  Fits /\ AInv /\ [Next]_vars => WholeReadings'
<1> SUFFICES ASSUME Fits, AInv, [Next]_vars PROVE WholeReadings'
  OBVIOUS
<1>0. TypeOK /\ WholeReadings
  BY DEF AInv, HInv, IInv
<1>1. CASE UNCHANGED reading
  BY <1>0, <1>1 DEF WholeReadings
<1>2. CASE Crash \/ Reset
  BY <1>2 DEF Crash, Reset, ProgramDies, WholeReadings
<1>3. ASSUME NEW c \in Callers, PCRRead(c) PROVE WholeReadings'
  <2>1. PICK s \in Selections :
          reading' = [reading EXCEPT ![c] =
            [sel |-> s, vals |-> Current(FirstReply(bitmap(s))),
             truth |-> Current(Platform(s))]]
    BY <1>3 DEF PCRRead
  <2>2. HasAll(Platform(s), Current(FirstReply(bitmap(s))))
    BY <1>0, OneReply, AllRead DEF Current, TypeOK, DeviceTypeOK
  <2>3. PICK vals, truth :
          /\ vals = Current(FirstReply(bitmap(s)))
          /\ truth = Current(Platform(s))
    OBVIOUS
  <2>4. /\ HasAll(Platform(s), vals)
        /\ reading' = [reading EXCEPT ![c] = [sel |-> s, vals |-> vals,
                                              truth |-> truth]]
    BY <2>1, <2>2, <2>3
  <2> QED
    BY ONLY <1>0, <2>4 DEF TypeOK, WholeReadings
<1>4. CASE UNCHANGED vars \/ PCRExtend \/ CreateStoragePrimary \/ WrapToPCR
  BY <1>1, <1>4 DEF vars, program, PCRExtend, CreateStoragePrimary, WrapToPCR
<1>5. ASSUME NEW c \in Callers,
             SealToPCR(c) \/ UnsealWithPCR(c) \/ ImportAndUnseal(c) \/ CallStep(c)
      PROVE  WholeReadings'
  BY <1>1, <1>5
  DEF SealToPCR, UnsealWithPCR, ImportAndUnseal, Start, CallStep, Import, Load,
      StartAuthSession, PolicyPCR, Unseal, CommandFails, GoOn, Fail
<1> QED
  BY <1>2, <1>3, <1>4, <1>5 DEF Next, CallStep

\* The commands of a call keep the name of its private area, and Load takes
\* no other public area than the one named.
LEMMA NamesKept ==
  ASSUME HInv, NEW c \in Callers, CallStep(c), call'[c] # None
  PROVE  /\ call'[c].priv.name = call[c].priv.name
         /\ call'[c].pub = call[c].pub
         /\ \/ call'[c].item = call[c].item
            \/ call[c].pub = call[c].priv.name
<1>0. TypeOK /\ Places /\ call[c] # None /\ call[c] \in Call
  BY Moves DEF HInv, IInv, TypeOK
<1>1. CASE Import(c)
  <2>1. PICK new : /\ new = [name |-> call[c].pub, secret |-> call[c].priv.secret]
                   /\ call'[c] = [call[c] EXCEPT !.priv = new, !.seed = None]
    BY <1>0, <1>1 DEF Import, GoOn, TypeOK
  <2>2. call[c].priv.name = call[c].pub
    BY <1>1 DEF Import, ImportAccepts
  <2>3. /\ call'[c].priv = new /\ call'[c].pub = call[c].pub
        /\ call'[c].item = call[c].item
    BY <1>0, <2>1 DEF Call
  <2> QED
    BY <2>1, <2>2, <2>3
<1>2. CASE Load(c)
  <2>1. PICK h \in ObjectHandles : call'[c] = [call[c] EXCEPT !.item = h]
    BY <1>0, <1>2 DEF Load, Fail, GoOn, TypeOK
  <2>2. call[c].pub = call[c].priv.name
    BY <1>2 DEF Load, TPM2_Load
  <2> QED
    BY <1>0, <2>1, <2>2 DEF Call
<1>3. CASE StartAuthSession(c)
  <2>1. PICK h \in SessionHandles : call'[c] = [call[c] EXCEPT !.session = h]
    BY <1>0, <1>3 DEF StartAuthSession, Fail, GoOn, TypeOK
  <2> QED
    BY <1>0, <2>1 DEF Call
<1>4. PolicyPCR(c) => call'[c] = call[c]
  BY Asserts
<1>5. ~ Unseal(c) /\ ~ CommandFails(c)
  BY <1>0 DEF Unseal, CommandFails, Fail, TypeOK
<1> QED
  BY <1>1, <1>2, <1>3, <1>4, <1>5 DEF CallStep

\* What carries a secret keeps the policy it was made with.
LEMMA WholeCarriersStep ==
  ASSUME AInv, [Next]_vars PROVE WholeCarriers'
<1>0. TypeOK /\ Places /\ WholeReadings /\ WholeCarriers
  BY DEF AInv, HInv, IInv
<1>1. CASE UNCHANGED <<blobs, wraps, call>>
  BY <1>0, <1>1 DEF WholeCarriers
<1>2. CASE Crash \/ Reset
  BY <1>0, <1>2 DEF Crash, Reset, ProgramDies, WholeCarriers
<1>3. ASSUME NEW c \in Callers, SealToPCR(c) PROVE WholeCarriers'
  <2>1. PICK s, policy :
          /\ s \in Secrets
          /\ policy = PolicyPCRDigest(reading[c].sel, reading[c].vals)
          /\ blobs' = blobs \cup
               {[pub  |-> [policy |-> policy, unique |-> s],
                 priv |-> [name   |-> [policy |-> policy, unique |-> s],
                           secret |-> s]]}
    BY <1>3 DEF SealToPCR
  <2>2. reading[c] \in Reading /\ HasAll(Platform(reading[c].sel), reading[c].vals)
    BY <1>0, <1>3 DEF SealToPCR, TypeOK, WholeReadings
  <2>3. Whole(policy)
    BY <2>1, <2>2, WholePolicy DEF Reading
  <2>4. UNCHANGED <<wraps, call>>
    BY <1>3 DEF SealToPCR
  <2> QED
    BY ONLY <1>0, <2>1, <2>3, <2>4 DEF WholeCarriers
<1>4. CASE WrapToPCR
  <2>1. PICK s, k, sel, g, policy :
          /\ s \in Secrets /\ k \in Keys /\ sel \in Selections /\ g \in Golden
          /\ policy = PolicyPCRDigest(sel, ValuesIn(g, Platform(sel)))
          /\ wraps' = wraps \cup
               {[pub |-> [policy |-> policy, unique |-> s],
                 dup |-> [seed   |-> SharedSeed(Ephemeral(s), k),
                          name   |-> [policy |-> policy, unique |-> s],
                          secret |-> s],
                 seed |-> Ephemeral(s)]}
    BY <1>4 DEF WrapToPCR
  <2>2. g \in [PCRs -> Seq(Digests)]
    BY <2>1, SealingAssumption
  <2>3. Whole(policy)
    BY <2>1, <2>2, ValuesInType, AllRead, WholePolicy
  <2>4. UNCHANGED <<blobs, call>>
    BY <1>4 DEF WrapToPCR
  <2> QED
    BY ONLY <1>0, <2>1, <2>3, <2>4 DEF WholeCarriers
<1>5. ASSUME NEW c \in Callers, UnsealWithPCR(c) \/ ImportAndUnseal(c)
      PROVE  WholeCarriers'
  <2>1. \A d \in Callers \ {c} : call'[d] = call[d]
    BY <1>0, <1>5, Frame
  <2>2. \/ \E b \in blobs : call'[c].priv = b.priv
        \/ \E w \in wraps : call'[c].priv = w.dup
    BY <1>0, <1>5 DEF UnsealWithPCR, ImportAndUnseal, Start, TypeOK
  <2>3. UNCHANGED <<blobs, wraps>>
    BY <1>5 DEF UnsealWithPCR, ImportAndUnseal, Start
  <2>4. Whole(call'[c].priv.name.policy)
    BY <1>0, <2>2 DEF WholeCarriers
  <2> QED
    BY ONLY <1>0, <2>1, <2>3, <2>4 DEF WholeCarriers
<1>6. ASSUME NEW c \in Callers, CallStep(c) PROVE WholeCarriers'
  <2>1. /\ call[c] # None /\ call[c] \in Call
        /\ \A d \in Callers \ {c} : call'[d] = call[d]
    BY <1>0, <1>6, Moves DEF AInv, TypeOK
  <2>2. UNCHANGED <<blobs, wraps>>
    BY <1>6 DEF CallStep, Import, Load, StartAuthSession, PolicyPCR, Unseal,
                CommandFails, GoOn, Fail
  <2>3. call'[c] # None => call'[c].priv.name = call[c].priv.name
    BY <1>6, NamesKept DEF AInv
  <2> QED
    BY <1>0, <2>1, <2>2, <2>3 DEF WholeCarriers
<1>7. CASE UNCHANGED vars \/ PCRExtend \/ CreateStoragePrimary
  BY <1>1, <1>7 DEF vars, program, PCRExtend, CreateStoragePrimary
<1>8. ASSUME NEW c \in Callers, PCRRead(c) PROVE WholeCarriers'
  BY <1>1, <1>8 DEF PCRRead
<1> QED
  BY <1>2, <1>3, <1>4, <1>5, <1>6, <1>7, <1>8 DEF Next, CallStep

\* A call loads what its private area names.
LEMMA MatchedStep == ASSUME AInv, [Next]_vars PROVE Matched'
<1>0. TypeOK /\ Places /\ Matched
  BY DEF AInv, HInv, IInv
<1>1. CASE UNCHANGED call
  BY <1>0, <1>1 DEF Matched
<1>2. CASE Crash \/ Reset
  BY <1>2 DEF Crash, Reset, ProgramDies, Matched
<1>3. ASSUME NEW c \in Callers, UnsealWithPCR(c) \/ ImportAndUnseal(c)
      PROVE  Matched'
  <2>1. call'[c].item = None /\ \A d \in Callers \ {c} : call'[d] = call[d]
    BY <1>0, <1>3, Frame DEF UnsealWithPCR, ImportAndUnseal, Start, TypeOK
  <2> QED
    BY <1>0, <2>1 DEF Matched
<1>4. ASSUME NEW c \in Callers, CallStep(c) PROVE Matched'
  <2>1. /\ call[c] # None /\ call[c] \in Call
        /\ \A d \in Callers \ {c} : call'[d] = call[d]
    BY <1>0, <1>4, Moves DEF AInv, TypeOK
  <2>2. call'[c] # None =>
          /\ call'[c].priv.name = call[c].priv.name
          /\ call'[c].pub = call[c].pub
          /\ \/ call'[c].item = call[c].item
             \/ call[c].pub = call[c].priv.name
    BY <1>4, NamesKept DEF AInv
  <2> QED
    BY <1>0, <2>1, <2>2 DEF Matched
<1>5. CASE UNCHANGED vars \/ PCRExtend \/ CreateStoragePrimary \/ WrapToPCR
  BY <1>1, <1>5 DEF vars, program, PCRExtend, CreateStoragePrimary, WrapToPCR
<1>6. ASSUME NEW c \in Callers, PCRRead(c) \/ SealToPCR(c) PROVE Matched'
  BY <1>1, <1>6 DEF PCRRead, SealToPCR
<1> QED
  BY <1>2, <1>3, <1>4, <1>5, <1>6 DEF Next, CallStep

\* A secret that was kept is not kept again.
LEMMA KeptOnceStep == ASSUME KeptOnce, [Next]_vars PROVE KeptOnce'
<1>1. CASE UNCHANGED kept
  BY <1>1 DEF KeptOnce
<1>2. ASSUME NEW e, Fresh(e.secret), kept' = kept \cup {e} PROVE KeptOnce'
  BY <1>2 DEF KeptOnce, Fresh
<1>3. ASSUME NEW c \in Callers, SealToPCR(c) PROVE KeptOnce'
  <2>1. PICK s, e :
          /\ s \in Secrets
          /\ Fresh(s) /\ kept' = kept \cup {e}
          /\ e = [secret |-> s, sel |-> Platform(reading[c].sel),
                  vals |-> reading[c].truth]
    BY <1>3 DEF SealToPCR
  <2> QED
    BY <1>2, <2>1
<1>4. CASE WrapToPCR
  <2>1. PICK s, sel, g, e :
          /\ s \in Secrets /\ sel \in Selections /\ g \in Golden
          /\ Fresh(s) /\ kept' = kept \cup {e}
          /\ e = [secret |-> s, sel |-> Platform(sel),
                  vals |-> ValuesIn(g, Platform(sel))]
    BY <1>4 DEF WrapToPCR
  <2> QED
    BY <1>2, <2>1
<1>5. ASSUME ~ WrapToPCR, ~ \E c \in Callers : SealToPCR(c) PROVE UNCHANGED kept
  BY <1>5
  DEF Next, vars, program, PCRExtend, CreateStoragePrimary, Crash, Reset,
      ProgramDies, PCRRead, UnsealWithPCR, ImportAndUnseal, Start, Import, Load,
      StartAuthSession, PolicyPCR, Unseal, CommandFails, GoOn, Fail
<1> QED
  BY <1>1, <1>3, <1>4, <1>5

\* Only a call itself touches its session.
LEMMA SessionKept ==
  ASSUME HInv, NEW c \in Callers, CallStep(c),
         NEW d \in Callers \ {c}, pc[d] = "Unseal"
  PROVE  sessions'[call[d].session] = sessions[call[d].session]
<1>1. /\ TypeOK /\ Places /\ call[c] # None /\ call[d] # None
      /\ call[d].session \in SessionHandles
  BY Moves DEF HInv, IInv, Places, Place
<1>2. sessions[call[d].session] # None /\ call[c].session # call[d].session
  BY <1>1, Held, NoneFacts, Parts DEF HInv, Apart
<1>3. CASE StartAuthSession(c)
  BY <1>1, <1>2, <1>3
  DEF StartAuthSession, TPM2_StartAuthSession, TypeOK, DeviceTypeOK
<1>4. CASE PolicyPCR(c)
  BY <1>1, <1>2, <1>4, Asserts
<1>5. CASE Unseal(c)
  BY <1>1, <1>2, <1>5
  DEF Unseal, TPM2_Unseal, SessionUsed, TypeOK, DeviceTypeOK
<1>6. CASE Import(c) \/ Load(c) \/ CommandFails(c)
  BY <1>6 DEF Import, Load, TPM2_Load, CommandFails, device
<1> QED
  BY <1>3, <1>4, <1>5, <1>6 DEF CallStep

\* The assertion in the session of a call is the one it asked for.
LEMMA AskedStep == ASSUME AInv, [Next]_vars PROVE Asked'
<1>0. HInv /\ TypeOK /\ Asked
  BY DEF AInv, HInv, IInv
<1>1. CASE UNCHANGED <<pc, call, sessions>>
  BY <1>0, <1>1 DEF Asked
<1>2. CASE Crash \/ Reset
  BY <1>2 DEF Crash, Reset, ProgramDies, Asked
<1>3. ASSUME NEW c \in Callers, UnsealWithPCR(c) \/ ImportAndUnseal(c)
      PROVE  Asked'
  <2>1. /\ pc'[c] # "Unseal" /\ UNCHANGED sessions
        /\ \A d \in Callers \ {c} : pc'[d] = pc[d] /\ call'[d] = call[d]
    BY <1>0, <1>3, Frame DEF UnsealWithPCR, ImportAndUnseal, Start, TypeOK, device
  <2> QED
    BY <1>0, <2>1 DEF Asked
<1>4. ASSUME NEW c \in Callers, CallStep(c) PROVE Asked'
  <2>1. \A d \in Callers \ {c} : pc'[d] = pc[d] /\ call'[d] = call[d]
    BY <1>0, <1>4, Moves
  <2>2. \A d \in Callers \ {c} : pc[d] = "Unseal" =>
          sessions'[call[d].session] = sessions[call[d].session]
    BY <1>0, <1>4, SessionKept
  <2>3. CASE PolicyPCR(c)
    <3>1. pc'[c] = "Unseal" => call'[c] = call[c]
      BY <1>0, <2>3, Asserts DEF PolicyPCR, Fail, GoOn, TypeOK
    <3> QED
      BY <1>0, <2>1, <2>2, <2>3, <3>1, Asserts DEF Asked
  <2>4. CASE ~ PolicyPCR(c)
    <3>1. pc'[c] # "Unseal"
      BY <1>0, <1>4, <2>4
      DEF CallStep, Import, Load, StartAuthSession, Unseal, CommandFails, GoOn,
          Fail, TypeOK
    <3> QED
      BY <1>0, <2>1, <2>2, <3>1 DEF Asked
  <2> QED
    BY <2>3, <2>4
<1>5. CASE UNCHANGED vars \/ PCRExtend \/ CreateStoragePrimary \/ WrapToPCR
  BY <1>1, <1>5
  DEF vars, device, program, PCRExtend, TPM2_PCR_Extend, CreateStoragePrimary,
      TPM2_CreatePrimary, WrapToPCR
<1>6. ASSUME NEW c \in Callers, PCRRead(c) \/ SealToPCR(c) PROVE Asked'
  BY <1>1, <1>6 DEF PCRRead, SealToPCR, device
<1> QED
  BY <1>2, <1>3, <1>4, <1>5, <1>6 DEF Next, CallStep

\* A whole policy is one assertion.
LEMMA WholeOne ==
  ASSUME NEW policy, Whole(policy)
  PROVE  policy[1] \in Assertion /\ policy = <<policy[1]>>
<1>1. policy \in Seq(Assertion) /\ Len(policy) = 1
  BY DEF Whole
<1> QED
  BY ONLY <1>1

\* Device and library compute the same policy digest.
LEMMA Agree == AInv => SealedStateUnseals
<1> SUFFICES ASSUME AInv, NEW c \in Callers, NEW e \in kept,
                    pc[c] = "Unseal", call[c].priv.secret = e.secret,
                    Platform(call[c].sel) = e.sel, Current(e.sel) = e.vals,
                    sessions[call[c].session].counter = updateCounter
             PROVE  Authorized(call[c].item, call[c].session)
  BY DEF SealedStateUnseals
<1> DEFINE item == call[c].item
           session == call[c].session
           policy == call[c].priv.name.policy
<1>1. /\ TypeOK /\ call[c] # None /\ call[c] \in Call
      /\ item \in ObjectHandles /\ session \in SessionHandles
      /\ item # None
  BY NoneFacts DEF AInv, HInv, IInv, TypeOK, Places, Place
<1>2. sessions[session] \in Session /\ Len(sessions[session].digest) = 1
  BY <1>1 DEF AInv, HInv, CallsOwnHandles, TypeOK, DeviceTypeOK
<1>3. objects[item] \in Sealed /\ objects[item].policy = policy
  <2>1. PICK s, p : /\ s = call[c].priv.secret /\ p = call[c].pub.policy
                    /\ objects[item] = [kind |-> "sealed", secret |-> s, policy |-> p]
    <3>1. Owns(c)
      BY <1>1, Parts DEF AInv, HInv
    <3> QED
      BY <1>1, <3>1 DEF Owns
  <2>2. p = policy
    BY <1>1, <2>1 DEF AInv, Matched
  <2>3. s \in Secrets /\ p \in Policy
    BY <1>1, <2>1 DEF Call, Private, Duplicate, Public
  <2> QED
    BY <2>1, <2>2, <2>3 DEF Sealed
<1>4. PICK a \in Assertion : policy = <<a>> /\ HasAll(a.sel, a.vals)
  <2>1. Whole(policy)
    BY <1>1 DEF AInv, WholeCarriers
  <2>2. policy[1] \in Assertion /\ policy = <<policy[1]>>
    BY ONLY <2>1, WholeOne
  <2>3. HasAll(policy[1].sel, policy[1].vals)
    BY ONLY <2>1 DEF Whole
  <2> QED
    BY ONLY <2>2, <2>3
<1>5. a.sel = e.sel /\ \A p \in e.sel : a.vals[p] \in {None, e.vals[p]}
  <2>1. PICK f \in kept : /\ f.secret = call[c].priv.secret
                          /\ policy[1].sel = f.sel
                          /\ \A p \in f.sel : policy[1].vals[p] \in {None, f.vals[p]}
    <3>1. Carriers
      BY DEF AInv, HInv, IInv
    <3>2. Bound(policy, call[c].priv.secret)
      BY <1>1, <3>1 DEF Carriers
    <3> QED
      BY <3>2 DEF Bound
  <2>2. f = e
    BY <2>1 DEF AInv, KeptOnce
  <2> QED
    BY <1>4, <2>1, <2>2
<1>6. a.vals = Current(e.sel)
  <2>1. ASSUME NEW p \in PCRs PROVE a.vals[p] = Current(e.sel)[p]
    BY <1>4, <1>5, <2>1 DEF HasAll, Current, ValuesIn
  <2>2. a.vals \in [PCRs -> Seq(Digests) \cup {None}]
    BY DEF Assertion, Values
  <2> QED
    BY <2>1, <2>2 DEF Current, ValuesIn
<1>7. PICK b \in Assertion : /\ sessions[session].digest = <<b>>
                             /\ b.sel = bitmap(call[c].sel)
  BY <1>2 DEF AInv, Asked, Session, Policy
<1>8. b.vals = Current(b.sel) /\ b.sel = e.sel
  <2>1. b.vals = Current(b.sel)
    BY <1>1, <1>2, <1>7, NoneFacts DEF AInv, HInv, IInv, Snapshots, Snapshot
  <2> QED
    BY <1>1, <1>7, <2>1, BitmapIsPlatform DEF Call
<1>9. a = b
  BY <1>5, <1>6, <1>8 DEF Assertion
<1> QED
  BY <1>1, <1>2, <1>3, <1>4, <1>7, <1>9, NoneFacts DEF Authorized, TypeOK, DeviceTypeOK

\* If every read fits in one reply, what was sealed or wrapped for a state of
\* the PCRs can be unsealed in it: library and device compute the same policy
\* digest (seal.go, PolicyPCRDigest against PolicyPCR).
THEOREM SealedUnseals == ASSUME Fits PROVE Spec => []SealedStateUnseals
<1>1. Init => WholeReadings /\ WholeCarriers /\ Matched /\ KeptOnce /\ Asked
  BY DEF Init, WholeReadings, WholeCarriers, Matched, KeptOnce, Asked
<1>2. AInv /\ HInv' /\ [Next]_vars => AInv'
  BY WholeReadingsStep, WholeCarriersStep, MatchedStep, KeptOnceStep, AskedStep
  DEF AInv
<1>3. AInv <=> HInv /\ WholeReadings /\ WholeCarriers /\ Matched /\ KeptOnce
               /\ Asked
  BY DEF AInv
<1> QED
  BY <1>1, <1>2, <1>3, Handles, Agree, PTL DEF Spec
=============================================================================
