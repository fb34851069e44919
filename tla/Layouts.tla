------------------------------ MODULE Layouts ------------------------------
(***************************************************************************)
(* The layouts of replies, one for each parser of the source: a sequence   *)
(* of the fields that the parser reads from left to right.                 *)
(*                                                                         *)
(* And what a device writes that follows a layout (Part 3 of the TPM 2.0   *)
(* library, which the comments of the parsers quote): the octets, together *)
(* with the values a caller has to be given for them.                      *)
(***************************************************************************)
EXTENDS Wire

(* Fields.  A field that is only skipped has keep = FALSE.                 *)

Num(w)      == [k |-> "int", w |-> w, keep |-> TRUE]
Skip(w)     == [k |-> "int", w |-> w, keep |-> FALSE]
Expect(v)   == [k |-> "expect", v |-> v]        \* these octets, or an error
Blob        == [k |-> "2b", keep |-> TRUE]
SkipBlob    == [k |-> "2b", keep |-> FALSE]
Bitmap      == [k |-> "bitmap", keep |-> TRUE]  \* size octet, pcrSelect
SkipBitmap  == [k |-> "bitmap", keep |-> FALSE]
Detail(w)   == [k |-> "detail", w |-> w]        \* algorithm, w more if not NULL
Buffer(of)  == [k |-> "buffer", of |-> of]      \* a TPM2B of these fields
List(of)    == [k |-> "list", of |-> of]        \* count, then so many of them
First(v)    == [k |-> "first", v |-> v]         \* the first value kept is v

ParamSize == Skip(4)        \* parameterSize of a TagSessions reply

Selections     == List(<<Num(2), Bitmap>>)
SkipSelections == List(<<Skip(2), SkipBitmap>>)

\* The walk through a TPMT_PUBLIC to its point.
ECCPublic  == <<Skip(2), Skip(2), Skip(4), SkipBlob, Detail(4), Detail(2),
                Skip(2), Detail(2), Blob, Blob>>
NVPublic   == <<Num(4), Num(2), Num(4), Blob, Num(2)>>
PT_MANUFACTURER == PutU32(261)

GetRandom         == <<Blob>>
GetCapability     == <<Num(1)>>
PCRRead           == <<Num(4), SkipSelections, List(<<Blob>>)>>
CreatePrimary     == <<Num(4), ParamSize, Buffer(ECCPublic)>>
CreatePrimaryPublic == <<Num(4), ParamSize, Blob>>
Quote             == <<ParamSize, Blob, Expect(AlgECDSA), Skip(2), Blob, Blob>>
ParseAttest       == <<Expect(<<255, 84, 67, 71>>), Expect(<<128, 24>>),
                       SkipBlob, Blob, Skip(25), Selections, Blob>>
Create            == <<ParamSize, Blob, Blob>>
Load              == <<Num(4)>>
StartAuthSession  == <<Num(4), Blob>>
PolicyGetDigest   == <<Blob>>
Unseal            == <<ParamSize, Blob>>
Import            == <<ParamSize, Blob>>
ActivateCredential == <<ParamSize, Blob>>
NVRead            == <<ParamSize, Blob>>
NVReadPublic      == <<Buffer(NVPublic), Blob>>
ObjectName        == <<Skip(2), Expect(algSHA256)>>

getCapabilityData(c) == <<Skip(1), Expect(PutU32(c))>>
GetAlgorithms     == getCapabilityData(0) \o <<List(<<Num(2), Num(4)>>)>>
GetHandles        == getCapabilityData(1) \o <<List(<<Num(4)>>)>>
GetPCRBanks       == getCapabilityData(5) \o <<Selections>>
GetTPMProperties  == getCapabilityData(6) \o <<List(<<Num(4), Num(4)>>)>>
GetManufacturer   == GetTPMProperties \o <<First(PT_MANUFACTURER)>>

Parsers ==
  [GetRandom |-> GetRandom, GetCapability |-> GetCapability,
   PCRRead |-> PCRRead, CreatePrimary |-> CreatePrimary,
   CreatePrimaryPublic |-> CreatePrimaryPublic, Quote |-> Quote,
   ParseAttest |-> ParseAttest, Create |-> Create, Load |-> Load,
   StartAuthSession |-> StartAuthSession, PolicyGetDigest |-> PolicyGetDigest,
   Unseal |-> Unseal, Import |-> Import, NVRead |-> NVRead,
   ActivateCredential |-> ActivateCredential, NVReadPublic |-> NVReadPublic,
   ObjectName |-> ObjectName, GetAlgorithms |-> GetAlgorithms,
   GetHandles |-> GetHandles, GetPCRBanks |-> GetPCRBanks,
   GetTPMProperties |-> GetTPMProperties, GetManufacturer |-> GetManufacturer]
-----------------------------------------------------------------------------
(* Writing.  What a field says is a sequence of rows, each with the octet  *)
(* strings of a structure in order: as many rows as there are elements for *)
(* a list, one row for a buffer, and one row of one string for the others. *)

Said == [octets : Seq(Octet), values : Seq(Seq(Octet)), pcrs : Seq(SUBSET Nat)]

Nothing == [octets |-> <<>>, values |-> <<>>, pcrs |-> <<>>]

Bare(octets) == [octets |-> octets, values |-> <<>>, pcrs |-> <<>>]

Both(a, b) == [octets |-> a.octets \o b.octets, values |-> a.values \o b.values,
               pcrs |-> a.pcrs \o b.pcrs]

InARow(parts) ==
  LET row[n \in 0..Len(parts)] ==
        IF n = 0 THEN Nothing ELSE Both(row[n - 1], parts[n])
  IN row[Len(parts)]

If(cond, value) == IF cond THEN <<value>> ELSE <<>>

\* The bits that are set in an octet.
BitsOf == [o \in Octet |-> CHOOSE bits \in SUBSET (0..7) : OctetOf(bits) = o]

\* PCR n is selected by bit n % 8 of octet n \div 8.
SelectedBy(b) == {n \in 0..(8 * Len(b) - 1) : n % 8 \in BitsOf[b[n \div 8 + 1]]}

\* A field that is one octet string.
Plain(f, x) ==
  [octets |-> CASE f.k = "2b"     -> MarshalTPM2B(x)
                [] f.k = "bitmap" -> <<Len(x)>> \o x
                [] OTHER          -> x,
   values |-> IF f.k \in {"int", "2b"} THEN If(f.keep, x) ELSE <<>>,
   pcrs   |-> IF f.k = "bitmap" THEN If(f.keep, SelectedBy(x)) ELSE <<>>]

Struct(of, row) == InARow([i \in 1..Len(row) |-> Plain(of[i], row[i])])

Structs(of, rows) == InARow([i \in 1..Len(rows) |-> Struct(of, rows[i])])

Spoken(f, rows) ==
  CASE f.k = "list"   -> Both(Bare(PutU32(Len(rows))), Structs(f.of, rows))
    [] f.k = "buffer" -> LET c == Structs(f.of, rows)
                         IN Both(Bare(PutU16(Len(c.octets))), c)
    [] f.k = "first"  -> Nothing
    [] OTHER          -> Plain(f, rows[1][1])

\* What has been said when this is said of the first fields of a layout.
Speech(layout, said) ==
  InARow([i \in 1..Len(said) |-> Spoken(layout[i], said[i])])
-----------------------------------------------------------------------------
(* What can be said.                                                       *)

MaxSize  == 65536           \* above the sizes that two octets hold
MaxCount == 16777216        \* above the elements of a list (bound)

FitsPlain(f, x) ==
  \/ f.k = "int" /\ Len(x) = f.w
  \/ f.k = "expect" /\ x = f.v
  \/ f.k = "2b" /\ Len(x) < MaxSize
  \/ f.k = "bitmap" /\ Len(x) < 256
  \/ f.k = "detail" /\ x = algNull
  \/ f.k = "detail" /\ Len(x) = 2 + f.w /\ SubSeq(x, 1, 2) # algNull

FitsStruct(of, row) ==
  Len(row) = Len(of) /\ \A i \in 1..Len(of) : FitsPlain(of[i], row[i])

FitsStructs(of, rows) == \A i \in 1..Len(rows) : FitsStruct(of, rows[i])

\* The first value is v.
Leads(v, values) == values # <<>> /\ Head(values) = v

\* The field may say this, in a reply with these values.
Fits(f, rows, values) ==
  \/ f.k = "list" /\ Len(rows) < MaxCount /\ FitsStructs(f.of, rows)
  \/ /\ f.k = "buffer" /\ Len(rows) = 1 /\ FitsStructs(f.of, rows)
     /\ Len(Structs(f.of, rows).octets) < MaxSize
  \/ f.k = "first" /\ Leads(f.v, values)
  \/ /\ f.k \notin {"list", "buffer", "first"}
     /\ Len(rows) = 1 /\ Len(rows[1]) = 1 /\ FitsPlain(f, rows[1][1])

\* The field is there, and is not what the parser insists on.
Refuses(f, rows, values) ==
  \/ /\ f.k = "expect" /\ Len(rows) = 1 /\ Len(rows[1]) = 1
     /\ Len(rows[1][1]) = Len(f.v) /\ rows[1][1] # f.v
  \/ f.k = "first" /\ ~Leads(f.v, values)
=============================================================================
