------------------------------ MODULE Sealing ------------------------------
(***************************************************************************)
(* The sealing paths of seal.go and import.go over a shared device: a      *)
(* goroutine reads PCRs, seals a secret to the values it read (SealToPCR), *)
(* unseals a blob (UnsealWithPCR), or imports and unseals a secret that a  *)
(* control plane wrapped off-line (WrapToPCR, ImportAndUnseal).            *)
(*                                                                         *)
(* Each call is a chain of commands, and between two of them any other     *)
(* goroutine, a measurement, a crash of the program or a platform reset    *)
(* may come.  Any command can run and have its response lost (execute then *)
(* returns an error and the call gives up, see module Execute), or fail    *)
(* without effect.  Nothing in the library flushes a handle, so what a call*)
(* opened on the device stays open.                                        *)
(***************************************************************************)
EXTENDS TPM, PCRSelections

CONSTANTS
  Callers,                  \* the goroutines that use the library
  Selections,               \* the index lists (PCRSelection.PCRs) they pass
  Golden,                   \* PCR states a control plane wraps for
  MaxUpdates                \* bound: measurements between two resets

ASSUME SealingAssumption ==
  /\ Selections \subseteq SUBSET Int
  /\ \A s \in Selections : s \cap (0..23) \subseteq PCRs
  /\ Golden \subseteq [PCRs -> Seq(Digests)]
  /\ MaxUpdates \in Nat
  /\ IsFiniteSet(Callers)

VARIABLES
  pc,                       \* pc[c]: the command c is about to issue
  call,                     \* call[c]: the arguments and handles it holds
  reading,                  \* reading[c]: what its last PCRRead returned
  result,                   \* result[c]: the secret its last call returned
  parent,                   \* the storage primary the program uses
  blobs,                    \* what SealToPCR returned
  wraps,                    \* what WrapToPCR returned
  kept,                     \* history: the secrets sealed, and to what state
  leftObjects,              \* history: the calls that are over and had loaded an
  leftSessions              \*   object, had opened a session, since the last reset

left == <<leftObjects, leftSessions>>
program == <<pc, call, reading, result, parent, blobs, wraps, kept, left>>
vars == <<device, program>>

Call == [pub : Public, priv : Private \cup Duplicate, seed : InSymSeed \cup {None},
         sel : Selections, item : ObjectHandles \cup {None},
         session : SessionHandles \cup {None}]

Reading == [sel : Selections, vals : Values, truth : Values]

ASSUME CallAssumption == None \notin Call /\ None \notin Reading

Entry == [secret : Secrets, sel : SUBSET PCRs, vals : Values]

TypeOK ==
  /\ DeviceTypeOK
  /\ pc \in [Callers -> {"idle", "Import", "Load", "StartAuthSession",
                         "PolicyPCR", "Unseal"}]
  /\ call \in [Callers -> Call \cup {None}]
  /\ reading \in [Callers -> Reading \cup {None}]
  /\ result \in [Callers -> Secrets \cup {None}]
  /\ parent \in ObjectHandles \cup {None}
  /\ blobs \subseteq [pub : Public, priv : Private]
  /\ wraps \subseteq [pub : Public, dup : Duplicate, seed : InSymSeed]
  /\ kept \subseteq Entry
  /\ leftObjects \in Nat /\ leftSessions \in Nat

Init ==
  /\ DeviceInit
  /\ pc = [c \in Callers |-> "idle"]
  /\ call = [c \in Callers |-> None]
  /\ reading = [c \in Callers |-> None]
  /\ result = [c \in Callers |-> None]
  /\ parent = None
  /\ blobs = {} /\ wraps = {} /\ kept = {}
  /\ leftObjects = 0 /\ leftSessions = 0
-----------------------------------------------------------------------------
(* Pure helpers.                                                           *)

\* Mutant of PolicyPCRDigest: it hashes the list, not what goes on the wire.
PolicyPCRDigest_AsListed(s, vals) == <<[sel |-> s, vals |-> vals]>>

\* The policy digest computed off-line from a selection and PCR values.
PolicyPCRDigest(s, vals) == <<[sel |-> bitmap(s), vals |-> vals]>>

\* The point of the ephemeral key drawn for a wrap (inSymSeed).
Ephemeral(s) == [drawnFor |-> s]

\* No secret is sealed twice, so that a release says which sealing it honours.
Fresh(s) == \A e \in kept : e.secret # s
-----------------------------------------------------------------------------
(* One command of a call.  It runs and the call goes on, or it runs and its *)
(* response is lost, or it fails and nothing changes on the device.         *)

\* A call that is over leaves open what the device had opened for it (args),
\* whether the program was told the handles or not.
Leaves(args) ==
  /\ leftObjects' = leftObjects + (IF args.item = None THEN 0 ELSE 1)
  /\ leftSessions' = leftSessions + (IF args.session = None THEN 0 ELSE 1)

\* The call returns an error; the handles it held are forgotten.
Fail(c, args) ==
  /\ pc' = [pc EXCEPT ![c] = "idle"]
  /\ call' = [call EXCEPT ![c] = None]
  /\ Leaves(args)
  /\ UNCHANGED <<reading, result, parent, blobs, wraps, kept>>

\* The call goes on with command next, its arguments updated to args.
GoOn(c, next, args) ==
  /\ pc' = [pc EXCEPT ![c] = next]
  /\ call' = [call EXCEPT ![c] = args]
  /\ UNCHANGED <<reading, result, parent, blobs, wraps, kept, left>>

\* execute returned an error although the device did nothing.
CommandFails(c) ==
  /\ pc[c] # "idle"
  /\ Fail(c, call[c])
  /\ UNCHANGED device
-----------------------------------------------------------------------------
(* Operations that are one command, or none.                               *)

\* A storage primary is created and becomes the program's parent, or its
\* handle is lost with the response.
CreateStoragePrimary ==
  /\ parent = None
  /\ \E h \in ObjectHandles :
       /\ TPM2_CreatePrimary(h, StorageKey)
       /\ parent' \in {h, None}
  /\ UNCHANGED <<pc, call, reading, result, blobs, wraps, kept, left>>

PCRExtend ==
  /\ updateCounter < MaxUpdates
  /\ \E p \in PCRs, d \in Digests : TPM2_PCR_Extend(p, d)
  /\ UNCHANGED program

\* Exactly one reply is read, and the selection it echoes is skipped.
PCRRead(c) ==
  /\ pc[c] = "idle"
  /\ \E s \in Selections :
       reading' = [reading EXCEPT ![c] =
         [sel |-> s, vals |-> Current(FirstReply(bitmap(s))),
          truth |-> Current(Platform(s))]]
  /\ UNCHANGED <<device, pc, call, result, parent, blobs, wraps, kept, left>>

\* Create under the parent, with the policy of the values read.
SealToPCR(c) ==
  /\ pc[c] = "idle"
  /\ reading[c] # None
  /\ IsParent(parent)
  /\ \E s \in Secrets :
       LET policyDigest == PolicyPCRDigest(reading[c].sel, reading[c].vals)
           pub == [policy |-> policyDigest, unique |-> s]
       IN /\ Fresh(s)
          /\ blobs' = blobs \cup
               {[pub |-> pub, priv |-> [name |-> pub, secret |-> s]]}
          /\ kept' = kept \cup {[secret |-> s, sel |-> Platform(reading[c].sel),
                                 vals |-> reading[c].truth]}
  /\ UNCHANGED <<device, pc, call, reading, result, parent, wraps, left>>

\* The control plane wraps a secret for the storage key k and the values a
\* golden state gives the selected PCRs.
WrapToPCR ==
  /\ \E s \in Secrets, k \in Keys, sel \in Selections, g \in Golden :
       LET values == ValuesIn(g, Platform(sel))
           objectPublic == [policy |-> PolicyPCRDigest(sel, values),
                            unique |-> s]
       IN /\ Fresh(s)
          /\ wraps' = wraps \cup
               {[pub |-> objectPublic,
                 dup |-> [seed |-> SharedSeed(Ephemeral(s), k),
                          name |-> objectPublic, secret |-> s],
                 seed |-> Ephemeral(s)]}
          /\ kept' = kept \cup {[secret |-> s, sel |-> Platform(sel),
                                 vals |-> values]}
  /\ UNCHANGED <<device, pc, call, reading, result, parent, blobs, left>>
-----------------------------------------------------------------------------
(* UnsealWithPCR and ImportAndUnseal.  The parts of a blob, and the three of *)
(* a wrap, travel as slices of their own, so a call may be given parts that *)
(* do not belong together.                                                 *)

Start(c, first, pub, priv, seed, s) ==
  /\ pc[c] = "idle"
  /\ parent # None
  /\ pc' = [pc EXCEPT ![c] = first]
  /\ call' = [call EXCEPT ![c] = [pub |-> pub, priv |-> priv, seed |-> seed,
                                  sel |-> s, item |-> None, session |-> None]]
  /\ result' = [result EXCEPT ![c] = None]
  /\ UNCHANGED <<device, reading, parent, blobs, wraps, kept, left>>

UnsealWithPCR(c) ==
  \E a \in blobs, b \in blobs, s \in Selections :
    Start(c, "Load", a.pub, b.priv, None, s)

ImportAndUnseal(c) ==
  \E a \in wraps, b \in wraps, d \in wraps, s \in Selections :
    Start(c, "Import", a.pub, b.dup, d.seed, s)

Import(c) ==
  /\ pc[c] = "Import"
  /\ ImportAccepts(parent, call[c].pub, call[c].priv, call[c].seed)
  /\ GoOn(c, "Load", [call[c] EXCEPT !.priv = [name   |-> call[c].pub,
                                               secret |-> @.secret],
                                      !.seed = None])
  /\ UNCHANGED device

Load(c) ==
  /\ pc[c] = "Load"
  /\ \E h \in ObjectHandles :
       LET args == [call[c] EXCEPT !.item = h]
       IN /\ TPM2_Load(h, parent, call[c].priv, call[c].pub)
          /\ Fail(c, args) \/ GoOn(c, "StartAuthSession", args)

\* Mutant of StartAuthSession: a session that is already open is used again.
StartAuthSession_Reused(c) ==
  /\ pc[c] = "StartAuthSession"
  /\ \E h \in SessionHandles :
       LET args == [call[c] EXCEPT !.session = h]
       IN /\ TPM2_StartAuthSession(h) \/ (sessions[h] # None /\ UNCHANGED device)
          /\ Fail(c, args) \/ GoOn(c, "PolicyPCR", args)

StartAuthSession(c) ==
  /\ pc[c] = "StartAuthSession"
  /\ \E h \in SessionHandles :
       LET args == [call[c] EXCEPT !.session = h]
       IN /\ TPM2_StartAuthSession(h)
          /\ Fail(c, args) \/ GoOn(c, "PolicyPCR", args)

PolicyPCR(c) ==
  /\ pc[c] = "PolicyPCR"
  /\ TPM2_PolicyPCR(call[c].session, bitmap(call[c].sel))
  /\ Fail(c, call[c]) \/ GoOn(c, "Unseal", call[c])

\* Mutant of sessionContinue: the bit is clear.
sessionContinue_Clear == FALSE

\* The policy session of an unseal is retained (marshalPolicyAuth).
sessionContinue == TRUE

Unseal(c) ==
  /\ pc[c] = "Unseal"
  /\ TPM2_Unseal(call[c].item, call[c].session, sessionContinue)
  /\ \/ Fail(c, call[c])
     \/ /\ pc' = [pc EXCEPT ![c] = "idle"]
        /\ result' = [result EXCEPT ![c] = objects[call[c].item].secret]
        /\ call' = [call EXCEPT ![c] = None]
        /\ Leaves(call[c])
        /\ UNCHANGED <<reading, parent, blobs, wraps, kept>>
-----------------------------------------------------------------------------
(* Crashes.  Blobs and wraps are on stable storage.                        *)

\* The calls under way that have loaded an object, opened a session.
WithItem    == {c \in Callers : call[c] # None /\ call[c].item # None}
WithSession == {c \in Callers : call[c] # None /\ call[c].session # None}

ProgramDies ==
  /\ pc' = [c \in Callers |-> "idle"]
  /\ call' = [c \in Callers |-> None]
  /\ reading' = [c \in Callers |-> None]
  /\ result' = [c \in Callers |-> None]
  /\ parent' = None
  /\ UNCHANGED <<blobs, wraps, kept>>

\* The program crashes; the device keeps what it had open.
Crash ==
  /\ ProgramDies
  /\ leftObjects' = leftObjects + Cardinality(WithItem)
  /\ leftSessions' = leftSessions + Cardinality(WithSession)
  /\ UNCHANGED device

\* The platform is reset, the program with it.
Reset == ProgramDies /\ TPM_Reset /\ leftObjects' = 0 /\ leftSessions' = 0

Next ==
  \/ PCRExtend \/ CreateStoragePrimary \/ WrapToPCR \/ Crash \/ Reset
  \/ \E c \in Callers :
       \/ PCRRead(c) \/ SealToPCR(c) \/ UnsealWithPCR(c) \/ ImportAndUnseal(c)
       \/ Import(c) \/ Load(c) \/ StartAuthSession(c) \/ PolicyPCR(c)
       \/ Unseal(c) \/ CommandFails(c)

Spec == Init /\ [][Next]_vars
-----------------------------------------------------------------------------
(* Properties.                                                             *)

\* Handles are values a call carries from command to command.  While it does,
\* they still name what the call opened, and no other call holds them.
CallsOwnHandles ==
  \A c \in Callers : call[c] # None =>
    /\ call[c].item # None =>
         objects[call[c].item] = [kind   |-> "sealed",
                                  secret |-> call[c].priv.secret,
                                  policy |-> call[c].pub.policy]
    /\ pc[c] = "PolicyPCR" => /\ sessions[call[c].session] # None
                              /\ sessions[call[c].session].digest = <<>>
    /\ pc[c] = "Unseal" => /\ sessions[call[c].session] # None
                           /\ Len(sessions[call[c].session].digest) = 1
    /\ \A d \in Callers \ {c} : call[d] # None =>
         /\ call[c].item = None \/ call[c].item # call[d].item
         /\ call[c].session = None \/ call[c].session # call[d].session

\* Sealing and unsealing agree: a call that reaches Unseal with the selection
\* a secret was sealed for, while those PCRs have the values they had when
\* they were read, and nothing has been measured since its PolicyPCR, is
\* authorized.  (SealToPCR: the values are "typically the result of PCRRead
\* just before sealing"; WrapToPCR: the values the control plane computed.)
SealedStateUnseals ==
  \A c \in Callers, e \in kept :
    (/\ pc[c] = "Unseal"
     /\ call[c].priv.secret = e.secret
     /\ Platform(call[c].sel) = e.sel
     /\ Current(e.sel) = e.vals
     /\ sessions[call[c].session].counter = updateCounter)
    => Authorized(call[c].item, call[c].session)

\* Nothing is flushed, and nothing is lost count of: a call that has loaded an
\* object has that slot until the platform is reset, whether it is under way,
\* has unsealed, has failed, did not get the response or died with the program,
\* and the same holds for its session.  No two calls share a slot, so the slots
\* bound the calls of one boot that get as far.
SlotsSpent ==
  LET Loaded == {h \in DOMAIN objects : objects[h] \in Sealed}
      Open   == {h \in DOMAIN sessions : sessions[h] # None}
  IN /\ leftObjects + Cardinality(WithItem) = Cardinality(Loaded)
     /\ leftSessions + Cardinality(WithSession) = Cardinality(Open)

\* The abstract vault: every secret a call returns was sealed for PCR values
\* that the PCRs have at that moment.
TheVault == INSTANCE Vault

\* UnsealWithPCR and ImportAndUnseal give out a secret only as a vault would.
ImplementsVault == TheVault!Spec
=============================================================================
