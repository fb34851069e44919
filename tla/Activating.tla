----------------------------- MODULE Activating -----------------------------
(***************************************************************************)
(* Credential activation with makecred.go and activate.go.  A verifier     *)
(* binds a credential to the Name of an attestation key and the point of   *)
(* an endorsement key (MakeCredential); beside the device a goroutine opens *)
(* a policy session, satisfies the policy of the EK (PolicySecret) and has  *)
(* the credential recovered (ActivateCredential).  ActivateAKWithEK does    *)
(* all of this in one call; the repository's README does it with a remote  *)
(* verifier, whose two slices then arrive at any goroutine, any number of  *)
(* times, and not always together.                                         *)
(*                                                                         *)
(* As in Sealing, each command is a step of its own, it may run and have    *)
(* its response lost, and nothing is flushed.  Callers pass handles as     *)
(* numbers, so they may pass any.                                          *)
(*                                                                         *)
(* Keys, shared secrets, ciphertexts and MACs are terms, equal only if they *)
(* were made from equal parts.                                             *)
(***************************************************************************)
EXTENDS TPM

CONSTANTS
  Callers,                  \* the goroutines that use the library
  Credentials,              \* what verifiers bind
  Publics                   \* the public areas that verifiers are given

\* A public area: its key, and whether the library knows its algorithms (the
\* name algorithm of an AK, the curve of an EK).
Key        == [kind : {"attestation", "endorsement"}, device : Keys]
PublicArea == [key : Key, supported : BOOLEAN]

ASSUME ActivatingAssumption ==
  /\ IsFiniteSet(Callers)
  /\ Publics \subseteq PublicArea
  /\ None \notin Credentials /\ None \notin PublicArea

OwnAK == [kind |-> "attestation", device |-> OwnKey]
OwnEK == [kind |-> "endorsement", device |-> OwnKey]

VARIABLES
  pc,                       \* pc[c]: the command c is about to issue
  call,                     \* call[c]: the arguments and handles it holds
  result,                   \* result[c]: the credential its last call returned
  challenges,               \* what MakeCredential returned, and was sent
  bound,                    \* history: the credentials and their keys
  leftSessions              \* history: the calls that are over and had opened a
                            \*   session, since the last reset

program == <<pc, call, result, challenges, bound, leftSessions>>
vars == <<device, program>>
-----------------------------------------------------------------------------
(* Off the TPM.                                                            *)

\* Mutant of ObjectName: the public area itself, with nothing hashed.
ObjectName_Unhashed(public) == IF public.supported THEN public ELSE None

\* The Name of an object: its public area, hashed.
ObjectName(public) == IF public.supported THEN public.key ELSE None

\* What two key pairs share, each known by its public point.
ECDH(private, public) == [private |-> private, public |-> public]

\* The keys a wrap uses are derived under labels that keep them apart.
KDFe(z, label, partyU, partyV) ==
  [z |-> z, label |-> label, partyU |-> partyU, partyV |-> partyV]
KDFa(key, label, context) == [key |-> key, label |-> label, context |-> context]

\* The keys of a wrap for the object of a Name.
Seed(qe, ek)         == KDFe(ECDH(qe, ek), "IDENTITY", qe, ek)
StorageOf(seed, n)   == KDFa(seed, "STORAGE", n)
IntegrityOf(seed)    == KDFa(seed, "INTEGRITY", None)

\* The ephemeral key drawn for a credential.
Ephemeral(credential) == [drawnFor |-> credential]

\* Mutant of MakeCredential: the HMAC covers the ciphertext alone, and the
\* ciphertext does not depend on the Name.
MakeCredential_NameLeftOut(ek, akName, credential) ==
  LET qe   == Ephemeral(credential)
      seed == Seed(qe, ek)
      enc  == [key |-> StorageOf(seed, OwnAK), plain |-> credential]
  IN [blob   |-> [outerHMAC   |-> [key |-> IntegrityOf(seed), enc |-> enc,
                                   name |-> OwnAK],
                  encIdentity |-> enc],
      secret |-> qe]

\* Mutant of MakeCredential: the label of another wrap.
MakeCredential_Duplicate(ek, akName, credential) ==
  LET qe   == Ephemeral(credential)
      seed == KDFe(ECDH(qe, ek), "DUPLICATE", qe, ek)
      enc  == [key |-> StorageOf(seed, akName), plain |-> credential]
  IN [blob   |-> [outerHMAC   |-> [key |-> IntegrityOf(seed), enc |-> enc,
                                   name |-> akName],
                  encIdentity |-> enc],
      secret |-> qe]

\* The credential enciphered under a seed shared with the EK, and a MAC over
\* the ciphertext and the Name.
MakeCredential(ek, akName, credential) ==
  LET qe   == Ephemeral(credential)
      seed == Seed(qe, ek)
      enc  == [key |-> StorageOf(seed, akName), plain |-> credential]
  IN [blob   |-> [outerHMAC   |-> [key |-> IntegrityOf(seed), enc |-> enc,
                                   name |-> akName],
                  encIdentity |-> enc],
      secret |-> qe]

\* What the device recovers with its EK for the object of a Name: it derives
\* the keys again, checks the MAC, and deciphers.
CertInfo(name, blob, secret) ==
  LET seed == Seed(secret, OwnEK)
  IN IF /\ blob.outerHMAC = [key |-> IntegrityOf(seed), enc |-> blob.encIdentity,
                             name |-> name]
        /\ blob.encIdentity.key = StorageOf(seed, name)
     THEN blob.encIdentity.plain
     ELSE None

\* The Name of the loaded object h of this device.
LoadedName(h) == [kind |-> objects[h].kind, device |-> OwnKey]
-----------------------------------------------------------------------------
Challenges == {MakeCredential(ek, n, s) : ek \in Key, n \in Key, s \in Credentials}

Call == [ak : ObjectHandles, ek : ObjectHandles,
         blob : {ch.blob : ch \in Challenges},
         secret : {ch.secret : ch \in Challenges},
         session : SessionHandles \cup {None}]

ASSUME ActivatingCallAssumption == None \notin Call

Binding == [credential : Credentials, ak : Key, ek : Key]

TypeOK ==
  /\ DeviceTypeOK
  /\ pc \in [Callers -> {"idle", "StartAuthSession", "PolicySecret",
                         "ActivateCredential"}]
  /\ call \in [Callers -> Call \cup {None}]
  /\ result \in [Callers -> Credentials \cup {None}]
  /\ challenges \subseteq Challenges
  /\ bound \subseteq Binding
  /\ leftSessions \in Nat

Init ==
  /\ DeviceInit
  /\ pc = [c \in Callers |-> "idle"]
  /\ call = [c \in Callers |-> None]
  /\ result = [c \in Callers |-> None]
  /\ challenges = {} /\ bound = {}
  /\ leftSessions = 0

\* No credential is bound twice, so that a recovery says which binding it
\* honours.
Fresh(s) == \A b \in bound : b.credential # s
-----------------------------------------------------------------------------
(* The device and the verifier.                                            *)

\* An AK (CreatePrimaryPublic) or an EK (CreateEK) is created.
CreatePrimary ==
  /\ \E h \in ObjectHandles, key \in {AttestationKey, EndorsementKey} :
       TPM2_CreatePrimary(h, key)
  /\ UNCHANGED program

\* A verifier binds a credential to an AK and an EK, of whatever devices.  It
\* gets an error, and nothing to send, for a name algorithm or a point that
\* the library does not know.
Challenge ==
  /\ \E a \in Publics, e \in Publics, s \in Credentials :
       /\ ObjectName(a) # None /\ e.supported
       /\ Fresh(s)
       /\ challenges' = challenges \cup {MakeCredential(e.key, ObjectName(a), s)}
       /\ bound' = bound \cup {[credential |-> s, ak |-> ObjectName(a),
                                ek |-> e.key]}
  /\ UNCHANGED <<device, pc, call, result, leftSessions>>
-----------------------------------------------------------------------------
(* The chain of commands.                                                  *)

\* A call that is over leaves open the session that the device had opened for it
\* (args), whether the program was told its handle or not.
Leaves(args) ==
  leftSessions' = leftSessions + (IF args.session = None THEN 0 ELSE 1)

\* The call returns an error; the session it opened is forgotten.
Fail(c, args) ==
  /\ pc' = [pc EXCEPT ![c] = "idle"]
  /\ call' = [call EXCEPT ![c] = None]
  /\ Leaves(args)
  /\ UNCHANGED <<result, challenges, bound>>

GoOn(c, next, args) ==
  /\ pc' = [pc EXCEPT ![c] = next]
  /\ call' = [call EXCEPT ![c] = args]
  /\ UNCHANGED <<result, challenges, bound, leftSessions>>

\* execute returned an error although the device did nothing.
CommandFails(c) ==
  /\ pc[c] # "idle"
  /\ Fail(c, call[c])
  /\ UNCHANGED device

Start(c, blob, secret) ==
  /\ pc[c] = "idle"
  /\ \E ak \in ObjectHandles, ek \in ObjectHandles :
       call' = [call EXCEPT ![c] = [ak |-> ak, ek |-> ek, blob |-> blob,
                                    secret |-> secret, session |-> None]]
  /\ pc' = [pc EXCEPT ![c] = "StartAuthSession"]
  /\ result' = [result EXCEPT ![c] = None]
  /\ UNCHANGED <<device, leftSessions>>

\* The program was sent both slices, of one challenge or of two.
ActivateChallenge(c) ==
  /\ \E a \in challenges, b \in challenges : Start(c, a.blob, b.secret)
  /\ UNCHANGED <<challenges, bound>>

\* The program binds the credential itself, and goes on or gets an error.
ActivateAKWithEK(c) ==
  \E a \in Publics, e \in Publics, s \in Credentials :
    LET akName == ObjectName(a)
        mc     == MakeCredential(e.key, akName, s)
    IN /\ Fresh(s)
       /\ IF akName = None \/ ~e.supported
          THEN /\ pc[c] = "idle"
               /\ result' = [result EXCEPT ![c] = None]
               /\ UNCHANGED <<device, pc, call, challenges, bound, leftSessions>>
          ELSE /\ Start(c, mc.blob, mc.secret)
               /\ bound' = bound \cup
                    {[credential |-> s, ak |-> akName, ek |-> e.key]}
               /\ UNCHANGED challenges

\* Mutant of StartAuthSession: a session that is already open is used again.
StartAuthSession_Reused(c) ==
  /\ pc[c] = "StartAuthSession"
  /\ \E h \in SessionHandles :
       LET args == [call[c] EXCEPT !.session = h]
       IN /\ TPM2_StartAuthSession(h) \/ (sessions[h] # None /\ UNCHANGED device)
          /\ Fail(c, args) \/ GoOn(c, "PolicySecret", args)

StartAuthSession(c) ==
  /\ pc[c] = "StartAuthSession"
  /\ \E h \in SessionHandles :
       LET args == [call[c] EXCEPT !.session = h]
       IN /\ TPM2_StartAuthSession(h)
          /\ Fail(c, args) \/ GoOn(c, "PolicySecret", args)

PolicySecret(c) ==
  /\ pc[c] = "PolicySecret"
  /\ TPM2_PolicySecret(call[c].session)
  /\ Fail(c, call[c]) \/ GoOn(c, "ActivateCredential", call[c])

\* Mutant of sessionContinue: the bit is clear.
sessionContinue_Clear == FALSE

\* The policy session is retained (marshalPolicyAuth).
sessionContinue == TRUE

ActivateCredential(c) ==
  LET args     == call[c]
      certInfo == CertInfo(LoadedName(args.ak), args.blob, args.secret)
  IN /\ pc[c] = "ActivateCredential"
     /\ TPM2_ActivateCredential(args.ak, args.ek, args.session, sessionContinue)
     /\ certInfo # None
     /\ \/ Fail(c, args)
        \/ /\ pc' = [pc EXCEPT ![c] = "idle"]
           /\ call' = [call EXCEPT ![c] = None]
           /\ result' = [result EXCEPT ![c] = certInfo]
           /\ Leaves(args)
           /\ UNCHANGED <<challenges, bound>>
-----------------------------------------------------------------------------
(* Crashes.  The verifier and what it sent are elsewhere.                  *)

\* The calls under way that have opened a session.
Holding == {c \in Callers : call[c] # None /\ call[c].session # None}

ProgramDies ==
  /\ pc' = [c \in Callers |-> "idle"]
  /\ call' = [c \in Callers |-> None]
  /\ result' = [c \in Callers |-> None]
  /\ UNCHANGED <<challenges, bound>>

\* The program crashes; the device keeps its keys and its sessions.
Crash ==
  /\ ProgramDies
  /\ leftSessions' = leftSessions + Cardinality(Holding)
  /\ UNCHANGED device

\* The platform is reset, the program with it.
Reset == ProgramDies /\ TPM_Reset /\ leftSessions' = 0

Next ==
  \/ CreatePrimary \/ Challenge \/ Crash \/ Reset
  \/ \E c \in Callers :
       \/ ActivateChallenge(c) \/ ActivateAKWithEK(c) \/ StartAuthSession(c)
       \/ PolicySecret(c) \/ ActivateCredential(c) \/ CommandFails(c)

Spec == Init /\ [][Next]_vars
-----------------------------------------------------------------------------
(* Properties.                                                             *)

\* A session is a number a call carries from command to command.  While it
\* does, no other call holds it, and it has the assertions of this call only.
CallsOwnSessions ==
  \A c \in Callers : call[c] # None /\ pc[c] # "StartAuthSession" =>
    /\ sessions[call[c].session] # None
    /\ sessions[call[c].session].digest =
         IF pc[c] = "PolicySecret" THEN <<>> ELSE ekAuthPolicy
    /\ \A d \in Callers \ {c} :
         call[d] # None => call[d].session # call[c].session

\* The verifier, the library and the device agree: a call that holds both
\* slices of a challenge for the keys of this device, and names them by their
\* handles, gets the credential of that challenge from ActivateCredential.
\* (activate.go:93: it "equals the original iff the AK Name and EK match".)
SameDeviceActivates ==
  \A c \in Callers, b \in bound :
    LET args == call[c]
        ch   == MakeCredential(b.ek, b.ak, b.credential)
    IN (/\ pc[c] = "ActivateCredential"
        /\ args.blob = ch.blob /\ args.secret = ch.secret
        /\ b.ak = OwnAK /\ objects[args.ak] = AttestationKey
        /\ b.ek = OwnEK /\ objects[args.ek] = EndorsementKey)
       => /\ ActivateAuthorized(args.ak, args.ek, args.session)
          /\ CertInfo(LoadedName(args.ak), args.blob, args.secret) = b.credential

\* Nothing closes a session, and none is lost count of: a call that has opened
\* one has that slot until the platform is reset, whether it is under way, has
\* activated, has failed, did not get the response or died with the program.  No
\* two calls share a slot, so the slots bound the calls of one boot.
SlotsSpent ==
  LET Open == {h \in SessionHandles : sessions[h] # None}
  IN leftSessions + Cardinality(Holding) = Cardinality(Open)

\* The abstract promise.
TheActivation == INSTANCE Activation WITH
  Devices <- Keys, ThisDevice <- OwnKey,
  present <- {objects[h].kind : h \in {h \in ObjectHandles : objects[h] # None}}

\* A credential comes back only where both keys live that it was bound to,
\* whatever is lost, replayed or mixed up.
ImplementsActivation == TheActivation!Spec
=============================================================================
