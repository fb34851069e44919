------------------------------ MODULE Commands ------------------------------
(***************************************************************************)
(* The body of every command the library sends, octet by octet, and the    *)
(* device that reads it, applies its rules of form, of authorization and   *)
(* of attributes, and for the commands that seal, import and activate      *)
(* carries it out on the octets it has read.                               *)
(*                                                                         *)
(* One goroutine, and no losses: modules Sealing and Activating have those. *)
(***************************************************************************)
EXTENDS Wraps

CONSTANTS
  Numbers,                  \* the private numbers of the device's keys
  Ephemerals,               \* numbers drawn for wraps
  Secrets,                  \* what is sealed, and bound as credentials
  PCRValues                 \* the values of the PCRs in Selection

\* A TPM2B holds a secret with the digests that it is wrapped with.
MaxSecret == 65000
ASSUME CommandsAssumption ==
  /\ Numbers \in [ak : Nat, srk : Nat, ek : Nat]
  /\ \A k \in {"ak", "srk", "ek"} : Numbers[k] % Prime # 0
  /\ Ephemerals \subseteq Nat
  /\ \A s \in Secrets : s \in Octets /\ Len(s) <= MaxSecret
  /\ PCRValues \in Seq(Octets)

\* What is read of a command and of a public area, what is loaded, and what is
\* answered: none of these is None.
Readings == [handles : Seq(Octets), auths : Seq(Octets), params : Seq(Octets)]
PublicAreas ==
  [sealed : BOOLEAN, policy : Octets, unique : Octets, octets : Octets,
   bits : SUBSET (0..31), symmetric : BOOLEAN, scheme : BOOLEAN]
Loaded  == [public : PublicAreas, data : Octets]
Answers ==
  [rc : {"success", "refused"}, out : Octets \cup [priv : Octets, pub : Octets] \cup {None}]

ASSUME AnswersAssumption ==
  /\ None \notin Readings /\ None \notin PublicAreas
  /\ None \notin Loaded /\ None \notin Answers

VARIABLES
  objects,                  \* the device's loaded objects
  session,                  \* the digest of its policy session, or None
  blob,                     \* the program: the object it can load, or None
  item,                     \* the program: the one it has loaded, or None
  opened,                   \* the program: what its session satisfies
  request,                  \* the command that the device has got, or None
  reply                     \* the device's answer, or None

device  == <<objects, session>>
program == <<blob, item, opened>>
vars    == <<device, program, request, reply>>

\* The handles of objects and of the session, and reserved ones.
Handle == [ak |-> <<128, 0, 0, 0>>, srk |-> <<128, 0, 0, 1>>,
           ek |-> <<128, 0, 0, 2>>, item |-> <<128, 0, 0, 3>>]
SessionHandle == <<3, 0, 0, 0>>
NVIndex       == <<1, 80, 0, 1>>
RHOwner       == <<64, 0, 0, 1>>
RHEndorsement == <<64, 0, 0, 11>>
rhNull        == <<64, 0, 0, 7>>
TPM_RS_PW     == <<64, 0, 0, 9>>
ccPolicySecret == PutU32(337)

Selection == <<[hash |-> algSHA256, pcrs |-> {0, 7, 23}]>>
TwoBanks  == <<[hash |-> algSHA256, pcrs |-> {}], [hash |-> PutU16(4), pcrs |-> {8}]>>

\* The digest of PolicySecret over the endorsement hierarchy, with an empty
\* policyRef.  ek.go has the constant that SHA-256 makes of it.
PolicySecretExtended(digest) ==
  Hash(Hash(digest \o ccPolicySecret \o RHEndorsement))
ekAuthPolicy == PolicySecretExtended(NoPolicy)
-----------------------------------------------------------------------------
(* Authorization areas.                                                    *)

sessionContinue == 1

marshalPasswordAuth        == TPM_RS_PW \o Empty \o <<sessionContinue>> \o Empty
marshalPolicyAuth(policySession) == policySession \o Empty \o <<sessionContinue>> \o Empty

marshalAuthArea(sessions) ==
  LET joined == FlattenSeq(sessions) IN PutU32(Len(joined)) \o joined

marshalSymDefObjectNull == algNull

marshalEmptySensitiveCreate        == MarshalTPM2B(Empty \o Empty)
marshalSealSensitiveCreate(secret) == MarshalTPM2B(Empty \o MarshalTPM2B(secret))

\* Commands without and with sessions.
Plain(cc, body) == [cc |-> cc, sessions |-> FALSE, body |-> body]
Password(cc, handles, params) ==
  [cc |-> cc, sessions |-> TRUE,
   body |-> handles \o marshalAuthArea(<<marshalPasswordAuth>>) \o params]
-----------------------------------------------------------------------------
(* The bodies.                                                             *)

yesNo(b) == IF b THEN 1 ELSE 0

Startup(su)    == Plain("Startup", PutU16(su))
Shutdown(su)   == Plain("Shutdown", PutU16(su))
SelfTest(full) == Plain("SelfTest", <<yesNo(full)>>)
GetRandom(n)   == Plain("GetRandom", PutU16(n))
GetCapability(cap, prop, count) ==
  Plain("GetCapability", PutU32(cap) \o PutU32(prop) \o PutU32(count))
PCRRead(sel)   == Plain("PCR_Read", marshalPCRSelectionList(sel))

\* Mutant of PCRExtend: the handle is the index within an octet of a bitmap.
PCRExtend_IndexInOctet(pcr, hash, digest) ==
  Password("PCR_Extend", PutU32(pcr % 8), PutU32(1) \o hash \o digest)

PCRExtend(pcr, hash, digest) ==
  Password("PCR_Extend", PutU32(pcr), PutU32(1) \o hash \o digest)

Quote(keyHandle, qualifyingData, sel) ==
  Password("Quote", keyHandle,
           MarshalTPM2B(qualifyingData) \o algNull \o marshalPCRSelectionList(sel))

NVDefineSpace(pub) == Password("NV_DefineSpace", RHOwner, Empty \o marshalNVPublic(pub))
NVUndefineSpace(nvIndex) == Password("NV_UndefineSpace", RHOwner \o nvIndex, <<>>)
NVWrite(nvIndex, data, offset) ==
  Password("NV_Write", RHOwner \o nvIndex, MarshalTPM2B(data) \o PutU16(offset))
NVRead(nvIndex, size, offset) ==
  Password("NV_Read", RHOwner \o nvIndex, PutU16(size) \o PutU16(offset))
NVReadPublic(nvIndex) == Plain("NV_ReadPublic", nvIndex)

\* A template, no data from outside and no PCRs of creation.
CreatePrimaryOf(hierarchy, template) ==
  Password("CreatePrimary", hierarchy,
           marshalEmptySensitiveCreate \o template \o Empty \o PutU32(0))
CreatePrimary           == CreatePrimaryOf(RHOwner, marshalECCAKPublic(<<>>, <<>>))
CreateStoragePrimaryPub == CreatePrimaryOf(RHOwner, marshalECCStoragePublic(<<>>, <<>>))
CreateEK == CreatePrimaryOf(RHEndorsement, marshalEKPublic(ekAuthPolicy, <<>>, <<>>))

Create(parent, secret, policyDigest) ==
  Password("Create", parent, marshalSealSensitiveCreate(secret)
             \o marshalSealPublic(policyDigest) \o Empty \o PutU32(0))

Load(parent, priv, pub) ==
  Password("Load", parent, MarshalTPM2B(priv) \o MarshalTPM2B(pub))

Import(parent, objectPublic, duplicate, inSymSeed) ==
  Password("Import", parent, Empty \o MarshalTPM2B(objectPublic) \o duplicate
             \o inSymSeed \o marshalSymDefObjectNull)

StartAuthSession(nonceCaller) ==
  Plain("StartAuthSession", rhNull \o rhNull \o MarshalTPM2B(nonceCaller) \o Empty
          \o <<1>> \o algNull \o algSHA256)
PolicyPCR(policySession, sel) ==
  Plain("PolicyPCR", policySession \o Empty \o marshalPCRSelectionList(sel))
PolicyGetDigest(policySession) == Plain("PolicyGetDigest", policySession)
PolicySecret(authHandle, policySession) ==
  Password("PolicySecret", authHandle \o policySession,
           Empty \o Empty \o Empty \o PutU32(0))
Unseal(itemHandle, policySession) ==
  [cc |-> "Unseal", sessions |-> TRUE,
   body |-> itemHandle \o marshalAuthArea(<<marshalPolicyAuth(policySession)>>)]

\* Mutant of ActivateCredential: the two authorizations in the other order.
ActivateCredential_Swapped(activateHandle, keyHandle, policySession, credentialBlob, secret) ==
  [cc |-> "ActivateCredential", sessions |-> TRUE,
   body |-> activateHandle \o keyHandle
      \o marshalAuthArea(<<marshalPolicyAuth(policySession), marshalPasswordAuth>>)
      \o credentialBlob \o secret]

ActivateCredential(activateHandle, keyHandle, policySession, credentialBlob, secret) ==
  [cc |-> "ActivateCredential", sessions |-> TRUE,
   body |-> activateHandle \o keyHandle
      \o marshalAuthArea(<<marshalPasswordAuth, marshalPolicyAuth(policySession)>>)
      \o credentialBlob \o secret]
-----------------------------------------------------------------------------
(* The device (external).                                                  *)

\* How many handles a command has, how many of them it authorizes, and what
\* its parameters are.
Form(handles, auths, params) == [handles |-> handles, auths |-> auths, params |-> params]
Forms ==
  [Startup |-> Form(0, 0, <<"u16">>), Shutdown |-> Form(0, 0, <<"u16">>),
   SelfTest |-> Form(0, 0, <<"u8">>), GetRandom |-> Form(0, 0, <<"u16">>),
   GetCapability |-> Form(0, 0, <<"u32", "u32", "u32">>),
   PCR_Read |-> Form(0, 0, <<"pcrs">>), PCR_Extend |-> Form(1, 1, <<"digests">>),
   Quote |-> Form(1, 1, <<"2b", "scheme", "pcrs">>),
   NV_DefineSpace |-> Form(1, 1, <<"2b", "2b">>),
   NV_UndefineSpace |-> Form(2, 1, <<>>), NV_Write |-> Form(2, 1, <<"2b", "u16">>),
   NV_Read |-> Form(2, 1, <<"u16", "u16">>), NV_ReadPublic |-> Form(1, 0, <<>>),
   CreatePrimary |-> Form(1, 1, <<"2b", "2b", "2b", "pcrs">>),
   Create |-> Form(1, 1, <<"2b", "2b", "2b", "pcrs">>),
   Load |-> Form(1, 1, <<"2b", "2b">>),
   Import |-> Form(1, 1, <<"2b", "2b", "2b", "2b", "symmetric">>),
   StartAuthSession |-> Form(2, 0, <<"2b", "2b", "u8", "symmetric", "u16">>),
   PolicyPCR |-> Form(1, 0, <<"2b", "pcrs">>), PolicyGetDigest |-> Form(1, 0, <<>>),
   PolicySecret |-> Form(2, 1, <<"2b", "2b", "2b", "u32">>),
   Unseal |-> Form(1, 1, <<>>), ActivateCredential |-> Form(2, 2, <<"2b", "2b">>)]

\* So many times the same kinds of fields.
Times(n, kinds) ==
  [i \in 1..(n * Len(kinds)) |-> kinds[1 + ((i - 1) % Len(kinds))]]

\* The fields of a command, and those of the area of its sessions.
CommandFields(form, command) ==
  Fields(Times(form.handles, <<"u32">>) \o (IF command.sessions THEN <<"4b">> ELSE <<>>)
           \o form.params, command.body)
SessionFields(form, area) ==
  Fields(Times(form.auths, <<"u32", "2b", "u8", "2b">>), area)

\* The handles, the sessions that authorize the first of them, and the
\* parameters of a command; None when its octets are not of its form.
Reading(command) ==
  LET form   == Forms[command.cc]
      heads  == form.handles + (IF command.sessions THEN 1 ELSE 0)
      fields == CommandFields(form, command)
      auths  == IF fields # None /\ command.sessions
                THEN SessionFields(form, fields[heads]) ELSE <<>>
  IN IF fields = None \/ auths = None \/ ~(form.auths > 0 <=> command.sessions)
     THEN None
     ELSE [handles |-> SubSeq(fields, 1, form.handles),
           auths   |-> [i \in 1..form.auths |-> auths[4 * i - 3]],
           params  |-> SubSeq(fields, heads + 1, Len(fields))]

\* A public area; None when it is none.
Public(octets) ==
  LET sealed == Len(octets) > 1 /\ SubSeq(octets, 1, 2) = algKeyedHash
      f == Fields(<<"u16", "u16", "u32", "2b">>
                    \o (IF sealed THEN <<"scheme", "2b">>
                        ELSE <<"symmetric", "scheme", "u16", "scheme", "2b", "2b">>),
                  octets)
  IN IF f = None THEN None
     ELSE [sealed |-> sealed, policy |-> f[4], unique |-> f[Len(f)], octets |-> octets,
           bits |-> {k \in 0..31 : (f[3][4 - (k \div 8)] \div 2^(k % 8)) % 2 = 1},
           symmetric |-> ~sealed /\ f[5] # algNull,
           scheme |-> ~sealed /\ f[6] # algNull]

\* The rules for the attributes of an object the device makes (an object that has
\* no data from outside is one whose data the device draws), and of one that is
\* imported.
Creatable(p, data) ==
  /\ objFixedTPM \in p.bits => objFixedParent \in p.bits
  /\ objSensitiveDataOrigin \in p.bits <=> data = <<>>
  /\ p.sealed <=> data # <<>>
  /\ p.symmetric <=> {objRestricted, objDecrypt} \subseteq p.bits
  /\ p.scheme <=> {objRestricted, objSign} \subseteq p.bits
Importable(p) == p.sealed /\ p.bits \cap {objFixedTPM, objFixedParent} = {}

\* An object's user may use its password or its policy as its attributes say;
\* its administrator a password unless its attributes ask for the policy.
Permits(p, role, auth) ==
  \/ /\ auth = TPM_RS_PW
     /\ IF role = "admin" THEN objAdminWithPolicy \notin p.bits
                          ELSE objUserWithAuth \in p.bits
  \/ /\ auth = SessionHandle
     /\ session # None /\ session = p.policy

Object(handle) ==
  LET at == {k \in DOMAIN Handle : Handle[k] = handle}
  IN IF at = {} THEN None ELSE objects[CHOOSE k \in at : TRUE]

\* Every authorized handle that is an object's permits it; the others have
\* empty passwords.
Authorized(cc, r) ==
  \A i \in DOMAIN r.auths :
    LET o == Object(r.handles[i])
    IN IF o = None THEN r.auths[i] = TPM_RS_PW /\ Head(r.handles[i]) # 128
       ELSE Permits(o.public, IF cc = "ActivateCredential" /\ i = 1 THEN "admin"
                              ELSE "user", r.auths[i])

IsParent(handle) ==
  LET o == Object(handle)
  IN o # None /\ {objRestricted, objDecrypt} \subseteq o.public.bits

\* The value that is hashed with the secret into the unique field: any octets
\* of the length of a digest, drawn by the device or in WrapToPCR.
Obfuscation == [i \in 1..DigestSize |-> 9]

\* The private area of an object, in the device's own form, and back.
Private(sensitive, public) == MarshalTPM2B(Hash(sensitive \o public)) \o sensitive
Sensitive(priv, public) ==
  LET parts == Fields(<<"2b", "rest">>, priv)
  IN IF parts # None /\ parts[1] = Hash(parts[2] \o public)
     THEN Fields(<<"u16", "2b", "2b", "2b">>, parts[2]) ELSE None

Imported(r) ==
  Unwrapped(labelDuplicate, Numbers.srk, ObjectName(r.params[2]), r.params[3],
            r.params[4])
CertInfo(r) ==
  Unwrapped(labelIdentity, Numbers.ek,
            ObjectName(Object(r.handles[1]).public.octets), r.params[1], r.params[2])
Creation(r) == Fields(<<"2b", "2b">>, r.params[1])

\* The rules of one command, beyond its form and its authorizations.
Valid(cc, r) ==
  CASE cc \in {"CreatePrimary", "Create"} ->
         LET p == Public(r.params[2])
         IN /\ Creation(r) # None /\ p # None /\ Creatable(p, Creation(r)[2])
            /\ cc = "Create" => IsParent(r.handles[1])
    [] cc = "Load" ->
         LET p == Public(r.params[2])
             s == Sensitive(r.params[1], r.params[2])
         IN /\ IsParent(r.handles[1]) /\ p # None /\ s # None
            /\ Len(s[3]) = DigestSize /\ p.unique = Hash(s[3] \o s[4])
    [] cc = "Import" ->
         /\ IsParent(r.handles[1])
         /\ Public(r.params[2]) # None /\ Importable(Public(r.params[2]))
         /\ r.params[1] = <<>> <=> r.params[5] = algNull
         /\ Imported(r) # None
    [] cc = "StartAuthSession" -> r.params[2] = <<>> <=> r.handles[1] = rhNull
    [] cc \in {"PolicyPCR", "PolicyGetDigest"} ->
         r.handles[1] = SessionHandle /\ session # None
    [] cc = "PolicySecret" -> r.handles[2] = SessionHandle /\ session # None
    [] cc \in {"Quote", "Unseal"} -> Object(r.handles[1]) # None
    [] cc = "ActivateCredential" ->
         CertInfo(r) # None /\ Len(CertInfo(r)) <= DigestSize
    [] OTHER -> TRUE

\* A primary key: the template with the point of the device's key.
Slot(p) == IF objSign \in p.bits THEN "ak"
           ELSE IF objAdminWithPolicy \in p.bits THEN "ek" ELSE "srk"
Generated(p) ==
  SubSeq(p.octets, 1, Len(p.octets) - 4)
    \o ECCPoint(PutU16(PointX(Numbers[Slot(p)])), PutU16(PointY(Numbers[Slot(p)])))

ObjectsAfter(cc, r) ==
  CASE cc = "CreatePrimary" ->
         LET p == Public(r.params[2])
         IN [objects EXCEPT ![Slot(p)] = [public |-> Public(Generated(p)), data |-> <<>>]]
    [] cc = "Load" ->
         [objects EXCEPT !.item = [public |-> Public(r.params[2]),
                                   data |-> Sensitive(r.params[1], r.params[2])[4]]]
    [] OTHER -> objects

\* A session that has authorized a command satisfies no policy any more.
SessionAfter(cc, r) ==
  CASE cc = "StartAuthSession" -> NoPolicy
    [] cc = "PolicyPCR"    -> PolicyPCRExtended(session, r.params[2], PCRValues)
    [] cc = "PolicySecret" -> PolicySecretExtended(session)
    [] \E i \in DOMAIN r.auths : r.auths[i] = SessionHandle -> NoPolicy
    [] OTHER -> session

Output(cc, r) ==
  CASE cc = "Create" ->
         LET data   == Creation(r)[2]
             public == SubSeq(r.params[2], 1, Len(r.params[2]) - 2)
                         \o MarshalTPM2B(Hash(Obfuscation \o data))
         IN [priv |-> Private(marshalSealSensitive(Obfuscation, data), public),
             pub  |-> public]
    [] cc = "Import" -> Private(Imported(r), r.params[2])
    [] cc = "Unseal" -> Object(r.handles[1]).data
    [] cc = "ActivateCredential" -> CertInfo(r)
    [] cc = "PolicyGetDigest"    -> session
    [] OTHER -> <<>>
-----------------------------------------------------------------------------
(* The program.                                                            *)

\* What a command is to say: its handles, its authorizations and the values
\* of its parameters, None where a template stands.
Says(handles, auths, params) == [handles |-> handles, auths |-> auths, params |-> params]

Send(command, meant, about) ==
  /\ request = None
  /\ request' = [command |-> command, meant |-> meant, about |-> about]
  /\ UNCHANGED <<device, program, reply>>

Init ==
  /\ objects = [k \in DOMAIN Handle |-> None] /\ session = None
  /\ blob = None /\ item = None /\ opened = "nothing"
  /\ request = None /\ reply = None

PW     == <<TPM_RS_PW>>
NoData == <<>>

\* Commands that need no object and no session.
Housekeeping ==
  /\ objects.srk = None /\ session = None
  /\ \/ \E su \in {0, 1} :
          \/ Send(Startup(su), Says(<<>>, <<>>, <<PutU16(su)>>), None)
          \/ Send(Shutdown(su), Says(<<>>, <<>>, <<PutU16(su)>>), None)
     \/ \E full \in BOOLEAN :
          Send(SelfTest(full), Says(<<>>, <<>>, <<<<IF full THEN 1 ELSE 0>>>>), None)
     \/ \E n \in {0, 300, 65535} : Send(GetRandom(n), Says(<<>>, <<>>, <<PutU16(n)>>), None)
     \/ \E cap \in {0, 6}, count \in {1, 70000} :
          Send(GetCapability(cap, 261, count),
               Says(<<>>, <<>>, <<PutU32(cap), PutU32(261), PutU32(count)>>), None)
     \/ \E sel \in {<<>>, Selection, TwoBanks} :
          Send(PCRRead(sel), Says(<<>>, <<>>, <<marshalPCRSelectionList(sel)>>), None)

\* The digest is a caller's, and may not have the length of its algorithm's.
Extend ==
  /\ objects.srk = None /\ session = None
  /\ \E n \in {0, DigestSize - 1, DigestSize, DigestSize + 1} :
       LET digest == [i \in 1..n |-> 170]
       IN Send(PCRExtend(16, algSHA256, digest),
               Says(<<PutU32(16)>>, PW, <<algSHA256 \o digest>>), None)

\* An NV index, each command with the values of its caller.
NVCommands ==
  /\ objects.srk = None /\ session = None
  /\ LET both == <<RHOwner, NVIndex>>
     IN \/ \E policy \in {<<>>, ekAuthPolicy} :
             LET pub == [index |-> NVIndex, nameAlg |-> algSHA256,
                         attributes |-> Attributes({1, 2, 17, 18}),
                         authPolicy |-> policy, dataSize |-> PutU16(300)]
             IN Send(NVDefineSpace(pub),
                     Says(<<RHOwner>>, PW,
                          <<NoData, NVIndex \o algSHA256 \o <<0, 6, 0, 6>>
                                      \o MarshalTPM2B(policy) \o <<1, 44>>>>), None)
        \/ Send(NVUndefineSpace(NVIndex), Says(both, PW, <<>>), None)
        \/ \E data \in {<<>>, <<7>>, <<1, 2, 3>>}, offset \in {0, 256} :
             Send(NVWrite(NVIndex, data, offset),
                  Says(both, PW, <<data, PutU16(offset)>>), None)
        \/ \E size \in {0, 300}, offset \in {0, 256} :
             Send(NVRead(NVIndex, size, offset),
                  Says(both, PW, <<PutU16(size), PutU16(offset)>>), None)
        \/ Send(NVReadPublic(NVIndex), Says(<<NVIndex>>, <<>>, <<>>), None)

Primaries ==
  LET says(h) == Says(<<h>>, PW, <<Empty \o Empty, None, NoData, PutU32(0)>>)
  IN \/ objects.ak = None /\ Send(CreatePrimary, says(RHOwner), None)
     \/ objects.srk = None /\ Send(CreateStoragePrimaryPub, says(RHOwner), None)
     \/ objects.ek = None /\ Send(CreateEK, says(RHEndorsement), None)

Attest ==
  /\ objects.ak # None /\ session = None
  /\ \E nonce \in {<<>>, <<5, 5>>} :
       Send(Quote(Handle.ak, nonce, Selection),
            Says(<<Handle.ak>>, PW, <<nonce, algNull, marshalPCRSelectionList(Selection)>>),
            None)

\* The point of a key, its coordinates in all their octets or without leading
\* zeros.
Points(k) == {[x |-> Bytes(PointX(k)), y |-> Bytes(PointY(k))],
              [x |-> PutU16(PointX(k)), y |-> PutU16(PointY(k))]}

\* SealToPCR on the device.
Seal ==
  /\ objects.srk # None /\ blob = None
  /\ \E secret \in Secrets :
       Send(Create(Handle.srk, secret, PolicyPCRDigest(Selection, PCRValues)),
            Says(<<Handle.srk>>, PW,
                 <<Empty \o MarshalTPM2B(secret), None, NoData, PutU32(0)>>), secret)

\* WrapToPCR away from it, and Import.
ImportWrapped ==
  /\ objects.srk # None /\ blob = None
  /\ \E secret \in Secrets, eph \in Ephemerals, srk \in Points(Numbers.srk) :
       LET wrap == WrapToPCR(srk, secret, Selection, PCRValues, Obfuscation, eph)
       IN Send(Import(Handle.srk, wrap.objectPublic, wrap.duplicate, wrap.inSymSeed),
               Says(<<Handle.srk>>, PW, <<NoData, wrap.objectPublic, None, None, algNull>>),
               [pub |-> wrap.objectPublic, secret |-> secret])

LoadItem ==
  /\ objects.srk # None /\ blob # None /\ item = None
  /\ Send(Load(Handle.srk, blob.priv, blob.pub),
          Says(<<Handle.srk>>, PW, <<blob.priv, blob.pub>>), blob)

\* A session, and a policy for it.
Sessions ==
  \/ /\ opened = "nothing"
     /\ Send(StartAuthSession(<<1, 2>>),
             Says(<<rhNull, rhNull>>, <<>>, <<<<1, 2>>, NoData, <<1>>, algNull, algSHA256>>),
             "no policy")
  \/ /\ opened = "no policy"
     /\ \/ Send(PolicyPCR(SessionHandle, Selection),
                Says(<<SessionHandle>>, <<>>,
                     <<NoData, marshalPCRSelectionList(Selection)>>), "PCR")
        \/ Send(PolicySecret(RHEndorsement, SessionHandle),
                Says(<<RHEndorsement, SessionHandle>>, PW,
                     <<NoData, NoData, NoData, PutU32(0)>>), "secret")
  \/ /\ opened = "PCR"
     /\ Send(PolicyGetDigest(SessionHandle), Says(<<SessionHandle>>, <<>>, <<>>),
             PolicyPCRDigest(Selection, PCRValues))

UnsealItem ==
  /\ item # None /\ opened = "PCR"
  /\ Send(Unseal(Handle.item, SessionHandle),
          Says(<<Handle.item>>, <<SessionHandle>>, <<>>), item.secret)

\* A credential bound to this AK and EK, and its activation.
Activate ==
  /\ objects.ak # None /\ objects.ek # None /\ opened = "secret"
  /\ \E credential \in Secrets, eph \in Ephemerals, ek \in Points(Numbers.ek) :
       LET mc == MakeCredential(ek, ObjectName(objects.ak.public.octets), credential, eph)
       IN Send(ActivateCredential(Handle.ak, Handle.ek, SessionHandle, mc.blob, mc.secret),
               Says(<<Handle.ak, Handle.ek>>, <<TPM_RS_PW, SessionHandle>>, <<None, None>>),
               credential)

\* The device reads a command, refuses it or carries it out.
Device ==
  /\ request # None /\ reply = None
  /\ LET cc == request.command.cc
         r  == Reading(request.command)
     IN IF r # None /\ Authorized(cc, r) /\ Valid(cc, r)
        THEN /\ reply' = [rc |-> "success", out |-> Output(cc, r)]
             /\ objects' = ObjectsAfter(cc, r)
             /\ session' = SessionAfter(cc, r)
        ELSE /\ reply' = [rc |-> "refused", out |-> None]
             /\ UNCHANGED device
  /\ UNCHANGED <<program, request>>

\* What the program keeps of a reply: of an error, nothing.
Return ==
  /\ reply # None
  /\ LET cc == request.command.cc
     IN IF reply.rc = "refused" THEN UNCHANGED program ELSE
        /\ blob' = CASE cc = "Create" -> [priv |-> reply.out.priv, pub |-> reply.out.pub,
                                          secret |-> request.about]
                     [] cc = "Import" -> [priv |-> reply.out, pub |-> request.about.pub,
                                          secret |-> request.about.secret]
                     [] OTHER -> blob
        /\ item' = IF cc = "Load" THEN request.about ELSE item
        /\ opened' = CASE cc \in {"StartAuthSession", "PolicyPCR", "PolicySecret"} ->
                            request.about
                       [] cc \in {"Unseal", "ActivateCredential"} -> "no policy"
                       [] OTHER -> opened
  /\ request' = None /\ reply' = None
  /\ UNCHANGED device

Next ==
  \/ Housekeeping \/ Extend \/ NVCommands \/ Primaries \/ Attest
  \/ Seal \/ ImportWrapped \/ LoadItem \/ Sessions \/ UnsealItem \/ Activate
  \/ Device \/ Return

Spec == Init /\ [][Next]_vars
-----------------------------------------------------------------------------
(* Properties.                                                             *)

\* A digest for a PCR has the octets of the algorithm that is sent with it, or
\* the list it is sent in cannot be read (PCRExtend sends what it is given).
Readable(x) ==
  x.command.cc = "PCR_Extend" => Len(x.meant.params[1]) = 2 + DigestSize

\* The device reads of every command the handles, the sessions and the values
\* the caller gave, each in its place and nothing besides.
Understood ==
  (request # None /\ Readable(request)) =>
    LET r == Reading(request.command)
        m == request.meant
    IN /\ r # None
       /\ r.handles = m.handles /\ r.auths = m.auths
       /\ Len(r.params) = Len(m.params)
       /\ \A i \in DOMAIN m.params : m.params[i] \in {None, r.params[i]}

\* What no library can make the device accept: a digest that cannot be read, an
\* empty secret for an object that the device is not to draw the data of, and
\* a credential that is longer than a digest.
Acceptable(x) ==
  /\ Readable(x)
  /\ x.command.cc = "Create" => x.about # <<>>
  /\ x.command.cc = "ActivateCredential" => Len(x.about) <= DigestSize

\* No other command that the library sends in its order is refused: the
\* attributes of its templates, the authorization it sends with each handle and
\* the wraps it makes, of an empty secret too, satisfy the device.  Those three
\* are, and extend, seal and activate nothing else instead.
NoneRefused ==
  reply # None => (reply.rc = "success" <=> Acceptable(request))

\* What Unseal and ActivateCredential return is what was sealed, wrapped or
\* bound, octet for octet, and PolicyGetDigest returns what PolicyPCRDigest
\* computed away from the TPM.
SecretsIntact ==
  (/\ reply # None /\ reply.rc = "success"
   /\ request.command.cc \in {"Unseal", "ActivateCredential", "PolicyGetDigest"}) =>
    reply.out = request.about
=============================================================================
