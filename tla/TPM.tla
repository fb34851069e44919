-------------------------------- MODULE TPM --------------------------------
(***************************************************************************)
(* The device behind the transport, as far as sealing and attestation rely *)
(* on it: PCRs with their update counter, transient object slots, policy   *)
(* session slots, and the effect of each command.  The device is outside   *)
(* the repository; a caller of these actions decides whether the response  *)
(* of a command reaches the program.                                       *)
(*                                                                         *)
(* Hashes are injective here: a PCR is the sequence of digests extended    *)
(* into it since the platform was reset, a policy digest the sequence of   *)
(* assertions folded into it, and the Name of an object its public area.   *)
(***************************************************************************)
EXTENDS Integers, FiniteSets, Sequences

CONSTANTS
  PCRs,                     \* the PCRs that are extended or selected
  Digests,                  \* what is extended into them
  MaxDigests,               \* the digests that fit in one PCR_Read reply
  ObjectHandles,            \* the transient object slots
  SessionHandles,           \* the policy session slots
  Secrets,                  \* what is sealed
  Keys, OwnKey,             \* primary keys, one per device; that of this device
  None                      \* an empty slot, a missing value

ASSUME DeviceAssumption ==
  /\ PCRs \subseteq 0..23
  /\ MaxDigests \in Nat
  /\ OwnKey \in Keys
  /\ IsFiniteSet(ObjectHandles) /\ IsFiniteSet(SessionHandles)

VARIABLES
  pcr,                      \* pcr[p]: what has been extended into PCR p
  updateCounter,            \* pcrUpdateCounter
  objects,                  \* the loaded objects
  sessions                  \* the open policy sessions

device == <<pcr, updateCounter, objects, sessions>>

\* The digests of some PCRs, in ascending order: a value for each of them.
Values == [PCRs -> Seq(Digests) \cup {None}]

\* One PolicyPCR: a selection and the values it had.  PolicySecret of the
\* endorsement hierarchy: knowledge of its authorization value.
Assertion       == [sel : SUBSET PCRs, vals : Values]
SecretAssertion == [secret |-> "endorsement"]
Policy          == Seq(Assertion \cup {SecretAssertion})

\* A sealed object: its public area, its private area; and a private area that
\* is wrapped under a seed, with the point from which the holder of a storage
\* key has the seed too.
Public    == [policy : Policy, unique : Secrets]
Private   == [name : Public, secret : Secrets]
InSymSeed == [drawnFor : Secrets]
WrapSeed  == [drawnFor : Secrets, srk : Keys]
Duplicate == [seed : WrapSeed, name : Public, secret : Secrets]

\* The seed that the drawer of a point and the holder of a key have in common.
SharedSeed(point, k) == [drawnFor |-> point.drawnFor, srk |-> k]

\* What is loaded.  A primary key is derived from its template and a seed of
\* the device, so there is one of each kind.
StorageKey     == [kind |-> "storage"]
AttestationKey == [kind |-> "attestation"]
EndorsementKey == [kind |-> "endorsement"]
Primaries      == {StorageKey, AttestationKey, EndorsementKey}
Sealed     == [kind : {"sealed"}, secret : Secrets, policy : Policy]
Session    == [digest : Policy, counter : Int]

\* None is none of the values it stands in for.
ASSUME NoneAssumption ==
  /\ None \notin Secrets \cup ObjectHandles \cup SessionHandles
  /\ None \notin Seq(Digests) /\ None \notin Session
  /\ None \notin Sealed \cup Primaries

\* The counter of a session without a PCR assertion.
Unbound == -1

DeviceTypeOK ==
  /\ pcr \in [PCRs -> Seq(Digests)]
  /\ updateCounter \in Nat
  /\ objects \in [ObjectHandles -> Sealed \cup Primaries \cup {None}]
  /\ sessions \in [SessionHandles -> Session \cup {None}]

DeviceInit ==
  /\ pcr = [p \in PCRs |-> <<>>]
  /\ updateCounter = 0
  /\ objects = [h \in ObjectHandles |-> None]
  /\ sessions = [h \in SessionHandles |-> None]

\* The values that the PCRs in S have in the state f, and have now.
ValuesIn(f, S) == [p \in PCRs |-> IF p \in S THEN f[p] ELSE None]
Current(S) == ValuesIn(pcr, S)

\* The rank of a PCR in a selection, the PCR of a rank, and the values of the
\* PCRs of a selection that the device has, lowest first.
Rank(S, p) == Cardinality({q \in S : q <= p})
Nth(S, i) == CHOOSE p \in S : Rank(S, p) = i
InOrder(S, f) ==
  LET its == S \cap PCRs
  IN [i \in 1..Cardinality(its) |-> f[Nth(its, i)]]

\* The PCRs of S whose digests fit in the first reply, lowest first.
FirstReply(S) == {p \in S : Cardinality({q \in S : q < p}) < MaxDigests}
-----------------------------------------------------------------------------
TPM2_PCR_Extend(p, d) ==
  /\ pcr' = [pcr EXCEPT ![p] = Append(@, d)]
  /\ updateCounter' = updateCounter + 1
  /\ UNCHANGED <<objects, sessions>>

IsParent(h) == h \in ObjectHandles /\ objects[h] = StorageKey

TPM2_CreatePrimary(h, key) ==
  /\ objects[h] = None
  /\ objects' = [objects EXCEPT ![h] = key]
  /\ UNCHANGED <<pcr, updateCounter, sessions>>

\* The duplicate opens under the seed that the parent has with the point, and
\* for the object it belongs to.
ImportAccepts(parent, pub, dup, point) ==
  IsParent(parent) /\ dup.seed = SharedSeed(point, OwnKey) /\ dup.name = pub

TPM2_Load(h, parent, priv, pub) ==
  /\ IsParent(parent)
  /\ priv.name = pub
  /\ objects[h] = None
  /\ objects' = [objects EXCEPT ![h] = [kind   |-> "sealed",
                                        secret |-> priv.secret,
                                        policy |-> pub.policy]]
  /\ UNCHANGED <<pcr, updateCounter, sessions>>

TPM2_StartAuthSession(h) ==
  /\ sessions[h] = None
  /\ sessions' = [sessions EXCEPT ![h] = [digest |-> <<>>, counter |-> Unbound]]
  /\ UNCHANGED <<pcr, updateCounter, objects>>

\* An empty pcrDigest asks for the values of this moment, and binds the
\* session to the update counter.
TPM2_PolicyPCR(h, S) ==
  /\ sessions[h] # None
  /\ sessions[h].counter \in {Unbound, updateCounter}
  /\ sessions' = [sessions EXCEPT ![h] =
       [digest  |-> Append(@.digest, [sel |-> S, vals |-> Current(S)]),
        counter |-> updateCounter]]
  /\ UNCHANGED <<pcr, updateCounter, objects>>

\* The endorsement hierarchy has the empty authorization value.
TPM2_PolicySecret(h) ==
  /\ sessions[h] # None
  /\ sessions' = [sessions EXCEPT ![h].digest = Append(@, SecretAssertion)]
  /\ UNCHANGED <<pcr, updateCounter, objects>>

\* The session satisfies the policy of the object, now.
Authorized(item, session) ==
  /\ objects[item] \in Sealed
  /\ sessions[session] # None
  /\ sessions[session].digest = objects[item].policy
  /\ sessions[session].counter \in {Unbound, updateCounter}

\* A session used with continueSession stays open and starts afresh.
SessionUsed(session, continue) ==
  sessions' = [sessions EXCEPT
    ![session] = IF continue THEN [digest |-> <<>>, counter |-> Unbound]
                             ELSE None]

TPM2_Unseal(item, session, continue) ==
  /\ Authorized(item, session)
  /\ SessionUsed(session, continue)
  /\ UNCHANGED <<pcr, updateCounter, objects>>

\* The policy of an EK (ekAuthPolicy of ek.go): PolicySecret, and no more.
ekAuthPolicy == <<SecretAssertion>>

\* The first key is used in the ADMIN role with an empty password, which an EK
\* refuses (adminWithPolicy); the second is an EK under a policy session.
ActivateAuthorized(ak, ek, session) ==
  /\ objects[ak] \notin {None, EndorsementKey}
  /\ objects[ek] = EndorsementKey
  /\ sessions[session] # None
  /\ sessions[session].digest = ekAuthPolicy

TPM2_ActivateCredential(ak, ek, session, continue) ==
  /\ ActivateAuthorized(ak, ek, session)
  /\ SessionUsed(session, continue)
  /\ UNCHANGED <<pcr, updateCounter, objects>>

\* The platform is reset: nothing transient survives.
TPM_Reset ==
  /\ pcr' = [p \in PCRs |-> <<>>]
  /\ updateCounter' = 0
  /\ objects' = [h \in ObjectHandles |-> None]
  /\ sessions' = [h \in SessionHandles |-> None]
=============================================================================
