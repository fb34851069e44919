----------------------------- MODULE MCReplies -----------------------------
(***************************************************************************)
(* The replies a device gives, laid out as the comments of the parsers say *)
(* ("Response: ..."), each of them cut at every octet, and each of them    *)
(* with one octet changed.                                                 *)
(***************************************************************************)
EXTENDS Replies

\* What is said: fields that are one string each; a list or a buffer.
Say(strings) == [i \in DOMAIN strings |-> <<<<strings[i]>>>>]
Listing(rows) == <<rows>>
Column(strings) == <<[i \in DOMAIN strings |-> <<strings[i]>>]>>

\* A reply: what the parser needs of it, and what follows and is ignored.
Message(parser, said, core, tail, values) ==
  [parser |-> parser, said |-> said, core |-> core, tail |-> tail,
   outcome |-> "done", values |-> values, pcrs |-> <<>>]

\* A reply that carries a PCR selection list besides.
Selecting(parser, said, core, values, pcrs) ==
  [Message(parser, said, core, <<>>, values) EXCEPT !.pcrs = pcrs]

\* A reply that is refused after the octets core.
Refused(parser, said, core, tail) ==
  [Message(parser, said, core, tail, <<>>) EXCEPT !.outcome = "unexpected"]

\* A TagSessions reply: parameterSize first, the session's area last.
Size(x) == PutU32(Len(x))
SessionArea == <<0, 0, 1, 0, 0>>
InSession(parser, x, values) ==
  Message(parser, Say(<<Size(x)>> \o values), Size(x) \o x, SessionArea, values)

handle == <<128, 0, 0, 1>>
d1 == <<17, 16>>
d2 == <<34>>
d3 == <<51>>

SHA384 == PutU16(12)
sel == [hash |-> algSHA256, pcrs |-> {0, 7, 23, 24, -1}]
oneBank  == marshalPCRSelectionList(<<sel>>)
twoBanks == marshalPCRSelectionList(<<sel, [hash |-> SHA384, pcrs |-> {9}]>>)
banks    == <<algSHA256, SHA384>>
map1     == <<129, 0, 128>>
bankRows == <<<<algSHA256, map1>>, <<SHA384, <<0, 2, 0>>>>>>
selected2 == <<{0, 7, 23}, {9}>>
nv == [index |-> <<1, 128, 0, 1>>, nameAlg |-> algSHA256,
       attributes |-> <<0, 6, 0, 6>>, authPolicy |-> d2, dataSize |-> PutU16(8)]

Created(area, fields) ==
  Message("CreatePrimary", Say(<<handle, Size(area)>>) \o Listing(<<fields>>),
          handle \o Size(area) \o area, MarshalTPM2B(d1), <<handle, d1, d2>>)

akFields == <<AlgECC, algSHA256, <<0, 5, 0, 114>>, <<>>, algNull,
              AlgECDSA \o algSHA256, NistP256, algNull, d1, d2>>
storageFields(attributes, policy) ==
  <<AlgECC, algSHA256, attributes, policy, algAES \o PutU16(128) \o algCFB,
    algNull, NistP256, algNull, d1, d2>>

clock == [i \in 1..25 |-> 7]
quoteInfo == MarshalTPM2B(d3) \o MarshalTPM2B(d1) \o clock
             \o twoBanks \o MarshalTPM2B(d2)
magicOK == <<255, 84, 67, 71>>

rs == algSHA256 \o MarshalTPM2B(d2) \o MarshalTPM2B(d3)
quoted == MarshalTPM2B(d1) \o AlgECDSA

Capability(c, list) == <<0>> \o PutU32(c) \o list
of(c) == Say(<<<<0>>, PutU32(c)>>)
tagged(p, v) == PutU32(p) \o PutU32(v)

Messages == {
  Message("GetRandom", Say(<<d1>>), MarshalTPM2B(d1), <<>>, <<d1>>),
  Message("GetCapability", Say(<<<<1>>>>), <<1>>, d1, <<<<1>>>>),
  Message("PCRRead",
          Say(<<PutU32(7)>>) \o Listing(<<<<algSHA256, map1>>>>) \o Column(<<d1, d2, d3>>),
          PutU32(7) \o oneBank \o PutU32(3) \o MarshalTPM2B(d1)
          \o MarshalTPM2B(d2) \o MarshalTPM2B(d3), <<>>, <<PutU32(7), d1, d2, d3>>),
  Message("PCRRead", Say(<<PutU32(7)>>) \o Listing(<<>>) \o Listing(<<>>),
          PutU32(7) \o PutU32(0) \o PutU32(0), <<>>, <<PutU32(7)>>),
  Created(marshalECCAKPublic(d1, d2), akFields),
  Created(marshalEKPublic(d3, d1, d2), storageFields(<<0, 3, 0, 178>>, d3)),
  Created(marshalECCStoragePublic(d1, d2), storageFields(<<0, 3, 0, 114>>, <<>>)),
  Message("CreatePrimaryPublic", Say(<<handle, PutU32(4), d1>>),
          handle \o PutU32(4) \o MarshalTPM2B(d1), d2, <<handle, d1>>),
  Message("Quote", Say(<<Size(quoted \o rs), d1, AlgECDSA, algSHA256, d2, d3>>),
          Size(quoted \o rs) \o quoted \o rs, SessionArea, <<d1, d2, d3>>),
  Refused("Quote", Say(<<PutU32(20), d1, AlgRSASSA>>),
          PutU32(20) \o MarshalTPM2B(d1) \o AlgRSASSA, rs),
  Selecting("ParseAttest",
            Say(<<magicOK, <<128, 24>>, d3, d1, clock>>) \o Listing(bankRows) \o Say(<<d2>>),
            magicOK \o <<128, 24>> \o quoteInfo, <<d1>> \o banks \o <<d2>>, selected2),
  Refused("ParseAttest", Say(<<<<255, 84, 67, 72>>>>),
          <<255, 84, 67, 72>>, <<128, 24>> \o quoteInfo),
  Refused("ParseAttest", Say(<<magicOK, <<128, 23>>>>), magicOK \o <<128, 23>>, quoteInfo),
  InSession("Create", MarshalTPM2B(d1) \o MarshalTPM2B(d2), <<d1, d2>>),
  Message("Load", Say(<<handle>>), handle, PutU32(4) \o MarshalTPM2B(d1), <<handle>>),
  Message("StartAuthSession", Say(<<<<3, 0, 0, 0>>, d1>>),
          <<3, 0, 0, 0>> \o MarshalTPM2B(d1), <<>>, <<<<3, 0, 0, 0>>, d1>>),
  Message("PolicyGetDigest", Say(<<d1>>), MarshalTPM2B(d1), <<>>, <<d1>>),
  InSession("Unseal", MarshalTPM2B(d1), <<d1>>),
  InSession("Import", MarshalTPM2B(d1), <<d1>>),
  InSession("ActivateCredential", MarshalTPM2B(d1), <<d1>>),
  InSession("NVRead", MarshalTPM2B(<<>>), <<<<>>>>),
  Message("NVReadPublic",
          Listing(<<<<nv.index, nv.nameAlg, nv.attributes, nv.authPolicy, nv.dataSize>>>>)
          \o Say(<<d1>>), marshalNVPublic(nv) \o MarshalTPM2B(d1), <<>>,
          <<nv.index, nv.nameAlg, nv.attributes, nv.authPolicy, nv.dataSize, d1>>),
  Message("ObjectName", Say(<<AlgECC, algSHA256>>), AlgECC \o algSHA256, d1, <<>>),
  Refused("ObjectName", Say(<<AlgECC, PutU16(4)>>), AlgECC \o PutU16(4), d1),
  Message("GetAlgorithms",
          of(0) \o Listing(<<<<algAES, PutU32(2)>>, <<AlgECC, PutU32(9)>>>>),
          Capability(0, PutU32(2) \o algAES \o PutU32(2) \o AlgECC \o PutU32(9)), <<>>,
          <<algAES, PutU32(2), AlgECC, PutU32(9)>>),
  Message("GetHandles", of(1) \o Column(<<handle>>),
          Capability(1, PutU32(1) \o handle), <<>>, <<handle>>),
  Refused("GetHandles", of(6), Capability(6, <<>>), PutU32(1) \o handle),
  Selecting("GetPCRBanks", of(5) \o Listing(bankRows), Capability(5, twoBanks),
            banks, selected2),
  Message("GetTPMProperties",
          of(6) \o Listing(<<<<PutU32(261), PutU32(3)>>, <<PutU32(262), PutU32(4)>>>>),
          Capability(6, PutU32(2) \o tagged(261, 3) \o tagged(262, 4)), <<>>,
          <<PutU32(261), PutU32(3), PutU32(262), PutU32(4)>>),
  Message("GetManufacturer", of(6) \o Listing(<<<<PutU32(261), PutU32(3)>>>>) \o Listing(<<>>),
          Capability(6, PutU32(1) \o tagged(261, 3)), <<>>, <<PutU32(261), PutU32(3)>>),
  Refused("GetManufacturer", of(6) \o Listing(<<<<PutU32(262), PutU32(3)>>>>) \o Listing(<<>>),
          Capability(6, PutU32(1) \o tagged(262, 3)), <<>>),
  Refused("GetManufacturer", of(6) \o Listing(<<>>) \o Listing(<<>>),
          Capability(6, PutU32(0)), <<>>)}

All(m) == m.core \o m.tail

Reply(m, octets, outcome) ==
  [parser |-> m.parser, said |-> m.said, octets |-> octets, outcome |-> outcome,
   values |-> m.values, pcrs |-> m.pcrs]

Cut(m) == {Reply(m, SubSeq(All(m), 1, k),
                 IF k < Len(m.core) THEN "short" ELSE m.outcome) :
             k \in 0..Len(All(m))}

Garbled(m) == {Reply(m, [All(m) EXCEPT ![i] = v], "any") :
                 i \in 1..Len(All(m)), v \in {0, 5, 255}}

MCInputs == UNION {Cut(m) \cup Garbled(m) : m \in Messages}
=============================================================================
