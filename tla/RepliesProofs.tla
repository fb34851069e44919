--------------------------- MODULE RepliesProofs ---------------------------
(***************************************************************************)
(* For every reply, of any length and with any octets, and for every       *)
(* parser of module Replies: the parser never reads past the end of the    *)
(* buffer it is in, and what it keeps is bounded by what it has read.  And *)
(* for every reply that a device gives, whatever it says in it, the parser *)
(* returns what the device has said; of such a reply cut short, nothing.   *)
(***************************************************************************)
EXTENDS Replies, TLAPS, SequenceTheorems, WellFoundedInduction

\* The fields that the element of a list, or a buffer, is made of.
Elem ==
  [k : {"int"}, w : Nat \ {0}, keep : BOOLEAN]
  \cup [k : {"expect"}, v : Seq(Octet)]
  \cup [k : {"2b", "bitmap"}, keep : BOOLEAN]
  \cup [k : {"detail"}, w : Nat]

\* Those of a layout, but for the test of the first value, which is the last.
Entry == Elem \cup [k : {"list", "buffer"}, of : Seq(Elem)]

\* And those of a parser at work.
Field ==
  Entry
  \cup [k : {"times"}, n : Nat, of : Seq(Elem)]
  \cup [k : {"first"}, v : Seq(Octet)]
  \cup [k : {"close"}]

Layout == Seq(Field)

Written ==
  {s \in Layout : \A n \in 1..Len(s) :
                    s[n] \in Entry \/ (n = Len(s) /\ s[n].k = "first")}
-----------------------------------------------------------------------------
(* The layouts are layouts.                                                *)

\* What the constructors of layouts build are fields.
LEMMA Constructors ==
  /\ \A w \in Nat \ {0} : Num(w) \in Elem /\ Skip(w) \in Elem
  /\ \A w \in Nat : Detail(w) \in Elem
  /\ \A v \in Seq(Octet) : Expect(v) \in Elem /\ First(v) \in Field
  /\ Blob \in Elem /\ SkipBlob \in Elem /\ Bitmap \in Elem
  /\ SkipBitmap \in Elem /\ Close \in Field
  /\ \A of \in Seq(Elem) : List(of) \in Entry /\ Buffer(of) \in Entry
  /\ Elem \subseteq Entry /\ Entry \subseteq Field
  BY DEF Elem, Entry, Field, Num, Skip, Detail, Expect, First, Blob, SkipBlob,
         Bitmap, SkipBitmap, Close, List, Buffer

\* Integers are written in octets.
LEMMA Numbers ==
  ASSUME NEW n \in Nat
  PROVE  PutU16(n) \in Seq(Octet) /\ PutU32(n) \in Seq(Octet)
  <1>1. ASSUME NEW m \in Nat
        PROVE  PutU16(m) \in Seq(Octet)
    <2>1. (m \div 256) % 256 \in Octet /\ m % 256 \in Octet
      BY DEF Octet
    <2> QED
      BY <2>1 DEF PutU16
  <1>2. n \div 65536 \in Nat
    OBVIOUS
  <1>3. PutU16(n \div 65536) \in Seq(Octet) /\ PutU16(n) \in Seq(Octet)
    BY <1>1, <1>2
  <1> QED
    BY <1>3 DEF PutU32

\* The lists that parsers walk are layouts.
LEMMA Lists ==
  /\ Selections \in Entry
  /\ SkipSelections \in Entry
  /\ List(<<Blob>>) \in Entry
  /\ List(<<Num(4)>>) \in Entry
  /\ List(<<Num(4), Num(4)>>) \in Entry
  /\ List(<<Num(2), Num(4)>>) \in Entry
  <1>1. /\ <<Num(2), Bitmap>> \in Seq(Elem) /\ <<Skip(2), SkipBitmap>> \in Seq(Elem)
        /\ <<Blob>> \in Seq(Elem) /\ <<Num(4)>> \in Seq(Elem)
        /\ <<Num(4), Num(4)>> \in Seq(Elem) /\ <<Num(2), Num(4)>> \in Seq(Elem)
    BY Constructors
  <1> QED
    BY <1>1, Constructors DEF Selections, SkipSelections

\* The header of a capability reply is a layout.
LEMMA Header ==
  ASSUME NEW c \in Nat, c < 65536
  PROVE  getCapabilityData(c) \in Seq(Entry)
  <1>1. Skip(1) \in Entry /\ Expect(PutU32(c)) \in Entry
    BY Constructors, Numbers
  <1> QED
    BY <1>1 DEF getCapabilityData

\* The constants that parsers expect are octets.
LEMMA Algorithms ==
  /\ algSHA256 \in Seq(Octet) /\ AlgECDSA \in Seq(Octet)
  /\ PT_MANUFACTURER \in Seq(Octet)
  /\ <<255, 84, 67, 71>> \in Seq(Octet) /\ <<128, 24>> \in Seq(Octet)
  <1>1. /\ 255 \in Octet /\ 84 \in Octet /\ 67 \in Octet /\ 71 \in Octet
        /\ 128 \in Octet /\ 24 \in Octet
    BY DEF Octet
  <1>2. <<255, 84, 67, 71>> \in Seq(Octet) /\ <<128, 24>> \in Seq(Octet)
    BY <1>1
  <1>3. algSHA256 \in Seq(Octet)
    BY Numbers DEF algSHA256
  <1>4. AlgECDSA \in Seq(Octet)
    BY Numbers DEF AlgECDSA
  <1>5. PT_MANUFACTURER \in Seq(Octet)
    BY Numbers DEF PT_MANUFACTURER
  <1> QED
    BY ONLY <1>2, <1>3, <1>4, <1>5

\* Every parser reads a layout.
LEMMA ParsersRead == \A p \in DOMAIN Parsers : Parsers[p] \in Written
  <1> USE Constructors, Lists, Algorithms
  <1>1. ECCPublic \in Seq(Elem) /\ NVPublic \in Seq(Elem)
    BY DEF ECCPublic, NVPublic
  <1>2. ParamSize \in Entry
    BY DEF ParamSize
  <1>3. GetRandom \in Seq(Entry) /\ GetCapability \in Seq(Entry) /\ PCRRead \in Seq(Entry)
    BY DEF GetRandom, GetCapability, PCRRead
  <1>4. CreatePrimary \in Seq(Entry)
    BY <1>1, <1>2 DEF CreatePrimary
  <1>5. CreatePrimaryPublic \in Seq(Entry)
    BY <1>2 DEF CreatePrimaryPublic
  <1>6. Quote \in Seq(Entry)
    BY <1>2 DEF Quote
  <1>7. ParseAttest \in Seq(Entry)
    <2>1. /\ Expect(<<255, 84, 67, 71>>) \in Entry
          /\ Expect(<<128, 24>>) \in Entry
      OBVIOUS
    <2>2. SkipBlob \in Entry /\ Blob \in Entry /\ Skip(25) \in Entry
      OBVIOUS
    <2>3. Selections \in Entry
      OBVIOUS
    <2> QED
      BY ONLY <2>1, <2>2, <2>3 DEF ParseAttest
  <1>8. Create \in Seq(Entry) /\ Load \in Seq(Entry) /\ StartAuthSession \in Seq(Entry)
    BY <1>2 DEF Create, Load, StartAuthSession
  <1>9. /\ PolicyGetDigest \in Seq(Entry) /\ Unseal \in Seq(Entry)
        /\ Import \in Seq(Entry)
        /\ NVRead \in Seq(Entry) /\ ActivateCredential \in Seq(Entry)
    BY <1>2 DEF PolicyGetDigest, Unseal, Import, NVRead, ActivateCredential
  <1>10. NVReadPublic \in Seq(Entry)
    BY <1>1 DEF NVReadPublic
  <1>11. ObjectName \in Seq(Entry)
    BY DEF ObjectName
  <1>12. GetAlgorithms \in Seq(Entry) /\ GetHandles \in Seq(Entry)
    BY Header DEF GetAlgorithms, GetHandles
  <1>13. GetPCRBanks \in Seq(Entry) /\ GetTPMProperties \in Seq(Entry)
    <2>1. GetPCRBanks \in Seq(Entry)
      BY Header DEF GetPCRBanks
    <2>2. GetTPMProperties \in Seq(Entry)
      BY Header DEF GetTPMProperties
    <2> QED
      BY <2>1, <2>2
  <1>14. GetManufacturer \in Written
    <2>1. First(PT_MANUFACTURER) \in Field /\ First(PT_MANUFACTURER).k = "first"
      BY DEF First
    <2>2. PICK s \in Seq(Entry), f \in Field :
            s = GetTPMProperties /\ f = First(PT_MANUFACTURER)
      BY <1>13, <2>1
    <2>3. s \o <<f>> \in Seq(Field) /\ Len(s \o <<f>>) = Len(s) + 1
          /\ \A n \in 1..Len(s) : (s \o <<f>>)[n] = s[n]
          /\ (s \o <<f>>)[Len(s) + 1] = f
      OBVIOUS
    <2>4. GetManufacturer = s \o <<f>>
      BY <2>2 DEF GetManufacturer
    <2>5. ASSUME NEW n \in 1..Len(s \o <<f>>)
          PROVE  \/ (s \o <<f>>)[n] \in Entry
                 \/ n = Len(s \o <<f>>) /\ (s \o <<f>>)[n].k = "first"
      <3>1. n \in 1..Len(s) \/ n = Len(s) + 1
        BY <2>3
      <3>2. n \in 1..Len(s) => s[n] \in Entry
        OBVIOUS
      <3> QED
        BY <2>1, <2>2, <2>3, <3>1, <3>2
    <2> QED
      BY <2>3, <2>4, <2>5 DEF Written, Layout
  <1>15. Seq(Entry) \subseteq Written
    BY DEF Written, Layout
  <1>16. Parsers \in
           [GetRandom : Written, GetCapability : Written, PCRRead : Written,
            CreatePrimary : Written, CreatePrimaryPublic : Written, Quote : Written,
            ParseAttest : Written, Create : Written, Load : Written,
            StartAuthSession : Written, PolicyGetDigest : Written, Unseal : Written,
            Import : Written, NVRead : Written, ActivateCredential : Written,
            NVReadPublic : Written, ObjectName : Written, GetAlgorithms : Written,
            GetHandles : Written, GetPCRBanks : Written, GetTPMProperties : Written,
            GetManufacturer : Written]
    BY ONLY <1>3, <1>4, <1>5, <1>6, <1>7, <1>8, <1>9, <1>10, <1>11, <1>12,
            <1>13, <1>14, <1>15 DEF Parsers
  <1> QED
    BY ONLY <1>16
-----------------------------------------------------------------------------
(* The inductive invariant: what is still to be read are fields, and the   *)
(* parser is within its buffer.  Where a field ends is computed from octets *)
(* only when these are there, so that the size it needs is a number.       *)

IInv == TypeOK /\ todo \in Layout /\ InBounds /\ KeptIsPaidFor

\* Octets of the input are octets.
LEMMA OctetsRead ==
  ASSUME input.octets \in Seq(Octet),
         NEW i \in Nat, NEW n \in Nat, i + n <= Len(input.octets)
  PROVE  Octets(i, n) \in Seq(Octet)
  BY SubSeqProperties DEF Octets

\* What is known of a field that is about to be read.
LEMMA Ahead ==
  ASSUME IInv, todo # <<>>
  PROVE  /\ field \in Field
         /\ Tail(todo) \in Layout
         /\ Needs \in Nat
         /\ field.k \in {"2b", "buffer"} => Needs >= 2
         /\ field.k = "bitmap" => Needs >= 1
  <1> USE DEF IInv, Layout, TypeOK, InBounds
  <1>1. field \in Field /\ Tail(todo) \in Layout
    BY DEF field
  <1>2. Has(2) => U16(off) \in Nat
    <2> SUFFICES ASSUME Has(2) PROVE U16(off) \in Nat
      OBVIOUS
    <2>1. /\ off + 1 \in 1..Len(input.octets)
          /\ (off + 1) + 1 \in 1..Len(input.octets)
      BY DEF Has
    <2>2. \A o \in Octet : o \in Nat
      BY DEF Octet
    <2>3. U8(off) \in Nat /\ U8(off + 1) \in Nat
      BY <2>1, <2>2, SMTT(30) DEF U8
    <2> QED
      BY ONLY <2>3 DEF U16
  <1>3. Has(1) => U8(off) \in Nat
    <2>1. Has(1) => off + 1 \in 1..Len(input.octets)
      BY DEF Has
    <2>2. \A o \in Octet : o \in Nat
      BY DEF Octet
    <2> QED
      BY <2>1, <2>2 DEF U8
  <1>4. Needs \in Nat
    <2>1. CASE field.k = "int"
      BY <1>1, <2>1 DEF Needs, Field, Entry, Elem
    <2>2. CASE field.k = "expect"
      BY <1>1, <2>2 DEF Needs, Field, Entry, Elem
    <2>3. CASE field.k \in {"2b", "buffer"}
      BY <1>2, <2>3 DEF Needs
    <2>4. CASE field.k = "bitmap"
      BY <1>3, <2>4 DEF Needs
    <2>5. CASE field.k = "detail"
      BY <1>1, <2>5 DEF Needs, Field, Entry, Elem
    <2>6. CASE field.k \notin {"int", "expect", "2b", "buffer", "bitmap", "detail"}
      BY <2>6 DEF Needs
    <2> QED
      BY <2>1, <2>2, <2>3, <2>4, <2>5, <2>6
  <1>5. field.k \in {"2b", "buffer"} => Needs >= 2
    BY <1>2 DEF Needs
  <1>6. field.k = "bitmap" => Needs >= 1
    BY <1>3 DEF Needs
  <1> QED
    BY <1>1, <1>4, <1>5, <1>6

\* A parser starts within its reply.
LEMMA Initial == Init => IInv
  <1> SUFFICES ASSUME Init PROVE IInv
    OBVIOUS
  <1>1. input.octets \in Seq(Octet) /\ todo \in Layout
    BY InputsAssumption, ParsersRead DEF Init, layout, Written
  <1> QED
    BY <1>1 DEF IInv, TypeOK, InBounds, KeptIsPaidFor, Init

\* A step that reads n octets within its buffer, keeps at most one value for
\* them, and leaves fields to be read, keeps the invariant.
LEMMA Reads ==
  ASSUME IInv, NEW n \in Nat, NEW kept \in Seq(Seq(Octet)), NEW next \in Layout,
         Take(n, kept, next), Has(n), Len(kept) <= n
  PROVE  IInv'
  <1>1. got' \in Seq(Seq(Octet)) /\ Len(got') = Len(got) + Len(kept)
    BY DEF Take, IInv, TypeOK
  <1> QED
    BY <1>1 DEF Take, Has, IInv, TypeOK, Layout, InBounds, KeptIsPaidFor

\* What a field keeps, if anything.
LEMMA IfKept ==
  ASSUME NEW S, NEW v \in S, NEW b \in BOOLEAN
  PROVE  If(b, v) \in Seq(S) /\ Len(If(b, v)) <= 1
  BY DEF If

\* The same for a step that keeps nothing.
LEMMA Passes ==
  ASSUME IInv, NEW n \in Nat, NEW next \in Layout, Take(n, <<>>, next), Has(n)
  PROVE  IInv'
  <1>1. got' = got
    BY DEF Take, IInv, TypeOK
  <1> QED
    BY <1>1 DEF Take, Has, IInv, TypeOK, Layout, InBounds, KeptIsPaidFor

\* A parser that ends keeps the invariant.
LEMMA Ends == ASSUME IInv, NEW how \in {"done", "short", "unexpected"}, End(how)
              PROVE  IInv'
  BY DEF End, IInv, TypeOK, Layout, InBounds, KeptIsPaidFor

\* Every step preserves the inductive invariant.
LEMMA Preserved == IInv /\ [Next]_vars => IInv'
  <1> SUFFICES ASSUME IInv, [Next]_vars PROVE IInv'
    OBVIOUS
  <1>0. /\ off \in Nat /\ lim \in Nat /\ input.octets \in Seq(Octet)
        /\ off <= lim /\ lim <= Len(input.octets)
    BY DEF IInv, TypeOK, InBounds
  <1>1. CASE GetInt
    <2>1. /\ todo # <<>> /\ field \in Field /\ field.k = "int"
          /\ Tail(todo) \in Layout
      BY <1>1, Ahead DEF GetInt, Reading
    <2>2. field.w \in Nat /\ field.w >= 1 /\ field.keep \in BOOLEAN
      BY <2>1 DEF Field, Entry, Elem
    <2>3. Has(field.w)
      BY <1>1, <2>1 DEF GetInt, Take, Needs
    <2>4. Octets(off, field.w) \in Seq(Octet)
      BY <1>0, <2>2, <2>3, OctetsRead DEF Has
    <2> DEFINE kept == If(field.keep, Octets(off, field.w))
    <2>5. kept \in Seq(Seq(Octet)) /\ Len(kept) <= 1
      BY <2>2, <2>4, IfKept
    <2>6. Take(field.w, kept, Tail(todo))
      BY <1>1 DEF GetInt
    <2>7. Len(kept) <= field.w
      BY <2>2, <2>5
    <2> HIDE DEF kept
    <2> QED
      BY <2>1, <2>2, <2>3, <2>5, <2>6, <2>7, Reads
  <1>2. CASE GetExpected
    <2>1. /\ todo # <<>> /\ field \in Field /\ field.k = "expect"
          /\ Tail(todo) \in Layout
      BY <1>2, Ahead DEF GetExpected, Reading
    <2>2. Len(field.v) \in Nat
      BY <2>1 DEF Field, Entry, Elem
    <2>3. Has(Len(field.v))
      BY <1>2, <2>1 DEF GetExpected, Needs
    <2>4. CASE Take(Len(field.v), <<>>, Tail(todo))
      BY <2>1, <2>2, <2>3, <2>4, Passes
    <2>5. CASE End("unexpected")
      BY <2>5, Ends
    <2> QED
      BY <1>2, <2>4, <2>5 DEF GetExpected
  <1>3. CASE UnmarshalTPM2B
    <2>1. /\ todo # <<>> /\ field \in Field /\ field.k = "2b"
          /\ Tail(todo) \in Layout /\ Needs \in Nat
      BY <1>3, Ahead DEF UnmarshalTPM2B, Reading
    <2>2. field.keep \in BOOLEAN
      BY <2>1 DEF Field, Entry, Elem
    <2>3. Has(Needs)
      BY <1>3 DEF UnmarshalTPM2B, Take
    <2>4. Needs >= 2
      BY <2>1, Ahead
    <2>5. Octets(off + 2, Needs - 2) \in Seq(Octet)
      <3>1. /\ off + 2 \in Nat /\ Needs - 2 \in Nat
            /\ (off + 2) + (Needs - 2) <= Len(input.octets)
        BY <1>0, <2>1, <2>3, <2>4 DEF Has
      <3> QED
        BY <1>0, <3>1, OctetsRead
    <2> DEFINE kept == If(field.keep, Octets(off + 2, Needs - 2))
    <2>6. kept \in Seq(Seq(Octet)) /\ Len(kept) <= 1
      BY <2>2, <2>5, IfKept
    <2>7. Take(Needs, kept, Tail(todo))
      BY <1>3 DEF UnmarshalTPM2B
    <2>8. Len(kept) <= Needs
      BY <2>1, <2>4, <2>6
    <2> HIDE DEF kept
    <2> QED
      BY <2>1, <2>3, <2>6, <2>7, <2>8, Reads
  <1>4. CASE GetBitmap
    <2>1. /\ todo # <<>> /\ field \in Field /\ field.k = "bitmap"
          /\ Tail(todo) \in Layout /\ Needs \in Nat
      BY <1>4, Ahead DEF GetBitmap, Reading
    <2>2. field.keep \in BOOLEAN
      BY <2>1 DEF Field, Entry, Elem
    <2>3. Has(Needs)
      BY <1>4 DEF GetBitmap
    <2>4. Needs >= 1
      BY <2>1, Ahead
    <2>5. pcrsFromBitmap(Octets(off + 1, Needs - 1)) \in SUBSET Nat
      <3>1. /\ off + 1 \in Nat /\ Needs - 1 \in Nat
            /\ (off + 1) + (Needs - 1) <= Len(input.octets)
        BY <1>0, <2>1, <2>3, <2>4 DEF Has
      <3>2. Len(Octets(off + 1, Needs - 1)) \in Nat
        BY <1>0, <3>1, OctetsRead
      <3> QED
        BY <3>2 DEF pcrsFromBitmap
    <2> DEFINE kept == If(field.keep, pcrsFromBitmap(Octets(off + 1, Needs - 1)))
    <2>6. kept \in Seq(SUBSET Nat) /\ Len(kept) <= 1
      BY <2>2, <2>5, IfKept
    <2>7. selected' = selected \o kept
      BY <1>4 DEF GetBitmap
    <2> HIDE DEF kept
    <2>8. selected' \in Seq(SUBSET Nat) /\ Len(selected') <= Len(selected) + 1
      BY <2>6, <2>7 DEF IInv, TypeOK
    <2> QED
      BY <1>4, <2>1, <2>3, <2>4, <2>8
         DEF GetBitmap, Has, IInv, TypeOK, Layout, InBounds, KeptIsPaidFor
  <1>5. CASE GetDetail
    <2>1. /\ todo # <<>> /\ Tail(todo) \in Layout /\ Needs \in Nat
      BY <1>5, Ahead DEF GetDetail, Reading
    <2>2. Has(Needs)
      BY <1>5 DEF GetDetail, Take
    <2> QED
      BY <1>5, <2>1, <2>2, Passes DEF GetDetail
  <1>6. CASE Enter
    <2>1. /\ todo # <<>> /\ field \in Field /\ field.k = "buffer"
          /\ Tail(todo) \in Layout /\ Needs \in Nat
      BY <1>6, Ahead DEF Enter, Reading
    <2>2. Has(Needs)
      BY <1>6 DEF Enter
    <2>3. Needs >= 2
      BY <2>1, Ahead
    <2>4. field.of \in Layout /\ <<Close>> \in Layout
      BY <2>1, Constructors DEF Field, Entry, Elem, Layout
    <2>5. field.of \o <<Close>> \o Tail(todo) \in Layout
      BY <2>1, <2>4 DEF Layout
    <2> QED
      BY <1>6, <2>1, <2>2, <2>3, <2>5
         DEF Enter, Has, IInv, TypeOK, InBounds, KeptIsPaidFor
  <1>7. CASE Leave
    <2>1. Tail(todo) \in Layout
      BY <1>7, Ahead DEF Leave, Reading
    <2> QED
      BY <1>7, <2>1
         DEF Leave, IInv, TypeOK, Layout, InBounds, KeptIsPaidFor
  <1>8. CASE GetCount
    <2>1. /\ todo # <<>> /\ field \in Field /\ field.k = "list"
          /\ Tail(todo) \in Layout
      BY <1>8, Ahead DEF GetCount, Reading
    <2>2. Has(4)
      BY <1>8, <2>1 DEF GetCount, Needs
    <2>3. Count(off) \in Nat
      <3>1. /\ off + 1 \in 1..Len(input.octets)
            /\ (off + 1) + 1 \in 1..Len(input.octets)
            /\ (off + 2) + 1 \in 1..Len(input.octets)
            /\ ((off + 2) + 1) + 1 \in 1..Len(input.octets)
        BY <1>0, <2>2 DEF Has
      <3>2. \A o \in Octet : o \in Nat
        BY DEF Octet
      <3>3. /\ U8(off) \in Nat /\ U8(off + 1) \in Nat
            /\ U8(off + 2) \in Nat /\ U8((off + 2) + 1) \in Nat
        BY <1>0, <3>1, <3>2 DEF U8
      <3>4. MaxCount \in Nat /\ MaxSize \in Nat
        BY SMT DEF MaxCount, MaxSize
      <3> QED
        BY <3>3, <3>4 DEF Count, U16
    <2>4. field.of \in Seq(Elem)
      BY <2>1 DEF Field, Entry, Elem
    <2>5. Times(Count(off), field.of) \in Field
      BY <2>3, <2>4 DEF Times, Field
    <2>6. <<Times(Count(off), field.of)>> \o Tail(todo) \in Layout
      BY <2>1, <2>5 DEF Layout
    <2> QED
      BY <1>8, <2>2, <2>6, Passes DEF GetCount
  <1>9. CASE Iterate
    <2>1. /\ todo # <<>> /\ field \in Field /\ field.k = "times"
          /\ Tail(todo) \in Layout
      BY <1>9, Ahead DEF Iterate, Reading
    <2>2. field.of \in Seq(Elem) /\ field.n \in Nat
      BY <2>1 DEF Field, Entry, Elem
    <2>0. Has(0)
      BY <1>0 DEF Has
    <2>3. CASE field.n = 0
      BY <1>9, <2>0, <2>1, <2>3, Passes DEF Iterate
    <2>4. CASE field.n # 0
      <3>1. Times(field.n - 1, field.of) \in Field
        BY <2>2, <2>4 DEF Times, Field
      <3>2. field.of \in Layout
        BY <2>2, Constructors DEF Layout
      <3>3. field.of \o <<Times(field.n - 1, field.of)>> \o Tail(todo) \in Layout
        BY <2>1, <3>1, <3>2 DEF Layout
      <3> QED
        BY <1>9, <2>0, <2>4, <3>3, Passes DEF Iterate
    <2> QED
      BY <2>2, <2>3, <2>4
  <1>10. CASE CheckFirst
    <2>1. Tail(todo) \in Layout
      BY <1>10, Ahead DEF CheckFirst, Reading
    <2>2. CASE Take(0, <<>>, Tail(todo))
      <3>1. Has(0)
        BY <1>0 DEF Has
      <3> QED
        BY <2>1, <2>2, <3>1, Passes
    <2> QED
      BY <1>10, <2>2, Ends DEF CheckFirst
  <1>11. CASE ErrShortBuffer
    BY <1>11, Ends DEF ErrShortBuffer
  <1>12. CASE Return
    BY <1>12, Ends DEF Return
  <1>13. CASE UNCHANGED vars
    BY <1>13 DEF vars, IInv, TypeOK, Layout, InBounds, KeptIsPaidFor
  <1> QED
    BY <1>1, <1>2, <1>3, <1>4, <1>5, <1>6, <1>7, <1>8, <1>9, <1>10, <1>11,
       <1>12, <1>13 DEF Next

\* A set of numbers that is not empty has a least one.
LEMMA Least ==
  ASSUME NEW T \in SUBSET Nat, T # {}
  PROVE  \E m \in T : \A k \in T : m <= k
  <1> DEFINE R == OpToRel(<, Nat)
  <1>1. IsWellFoundedOn(R, Nat)
    BY NatLessThanWellFounded
  <1>2. \A x, y \in Nat : x < y => <<x, y>> \in R
    BY DEF OpToRel
  <1> HIDE DEF R
  <1>3. PICK m \in T : \A k \in T : ~ (<<k, m>> \in R)
    BY <1>1, WFMin
  <1>4. ASSUME NEW k \in T PROVE m <= k
    <2>1. k \in Nat /\ m \in Nat
      OBVIOUS
    <2>2. ~ (k < m)
      BY <1>2, <1>3, <2>1
    <2> QED
      BY <2>1, <2>2
  <1> QED
    BY <1>4

\* Induction, over a set of numbers.
LEMMA Induction ==
  ASSUME NEW S \in SUBSET Nat, 0 \in S, \A n \in S : n + 1 \in S
  PROVE  S = Nat
  <1> SUFFICES ASSUME Nat \ S # {} PROVE FALSE
    OBVIOUS
  <1>1. PICK m \in Nat \ S : \A k \in Nat \ S : m <= k
    BY Least
  <1>2. m # 0 /\ m - 1 \in Nat /\ m - 1 \in S
    BY <1>1
  <1> QED
    BY <1>1, <1>2
-----------------------------------------------------------------------------
(* What is said one after the other.                                       *)

\* Joining is associative, and nothing is its unit.
LEMMA Joining ==
  /\ Nothing \in Said
  /\ \A a \in Said, b \in Said : Both(a, b) \in Said
  /\ \A a \in Said, b \in Said, c \in Said : Both(Both(a, b), c) = Both(a, Both(b, c))
  /\ \A a \in Said : Both(a, Nothing) = a /\ Both(Nothing, a) = a
  <1>1. Nothing \in Said
    BY DEF Nothing, Said
  <1>2. ASSUME NEW a \in Said, NEW b \in Said
        PROVE  Both(a, b) \in Said
    BY DEF Both, Said
  <1>3. ASSUME NEW a \in Said, NEW b \in Said, NEW c \in Said
        PROVE  Both(Both(a, b), c) = Both(a, Both(b, c))
    <2>1. a.octets \in Seq(Octet) /\ b.octets \in Seq(Octet) /\ c.octets \in Seq(Octet)
      BY DEF Said
    <2>2. (a.octets \o b.octets) \o c.octets = a.octets \o (b.octets \o c.octets)
      <3>1. PICK x \in Seq(Octet), y \in Seq(Octet), z \in Seq(Octet) :
              x = a.octets /\ y = b.octets /\ z = c.octets
        BY <2>1
      <3>2. (x \o y) \o z = x \o (y \o z)
        BY ONLY ConcatAssociative
      <3> QED
        BY <3>1, <3>2
    <2>3. /\ a.values \in Seq(Seq(Octet)) /\ b.values \in Seq(Seq(Octet))
          /\ c.values \in Seq(Seq(Octet))
      BY DEF Said
    <2>4. (a.values \o b.values) \o c.values = a.values \o (b.values \o c.values)
      <3>1. PICK x \in Seq(Seq(Octet)), y \in Seq(Seq(Octet)), z \in Seq(Seq(Octet)) :
              x = a.values /\ y = b.values /\ z = c.values
        BY <2>3
      <3>2. (x \o y) \o z = x \o (y \o z)
        BY ONLY ConcatAssociative
      <3> QED
        BY <3>1, <3>2
    <2>5. /\ a.pcrs \in Seq(SUBSET Nat) /\ b.pcrs \in Seq(SUBSET Nat)
          /\ c.pcrs \in Seq(SUBSET Nat)
      BY DEF Said
    <2>6. (a.pcrs \o b.pcrs) \o c.pcrs = a.pcrs \o (b.pcrs \o c.pcrs)
      <3>1. PICK x \in Seq(SUBSET Nat), y \in Seq(SUBSET Nat), z \in Seq(SUBSET Nat) :
              x = a.pcrs /\ y = b.pcrs /\ z = c.pcrs
        BY <2>5
      <3>2. (x \o y) \o z = x \o (y \o z)
        BY ONLY ConcatAssociative
      <3> QED
        BY <3>1, <3>2
    <2> QED
      BY <2>2, <2>4, <2>6 DEF Both
  <1>4. ASSUME NEW a \in Said
        PROVE  Both(a, Nothing) = a /\ Both(Nothing, a) = a
    BY DEF Both, Nothing, Said
  <1> QED
    BY <1>1, <1>2, <1>3, <1>4

\* A row of n parts.
IsRow(r, parts, n) ==
  r = [i \in 0..n |-> IF i = 0 THEN Nothing ELSE Both(r[i - 1], parts[i])]

\* There is one.
LEMMA RowExists ==
  ASSUME NEW parts, NEW n \in Nat
  PROVE  \E r : IsRow(r, parts, n)
  <1> DEFINE S == {m \in Nat : \E r : IsRow(r, parts, m)}
  <1>1. 0 \in S
    <2> DEFINE r == [i \in 0..0 |-> Nothing]
    <2>1. IsRow(r, parts, 0)
      BY DEF IsRow
    <2> QED
      BY <2>1
  <1>2. ASSUME NEW m \in S PROVE m + 1 \in S
    <2>1. PICK r : IsRow(r, parts, m)
      OBVIOUS
    <2> DEFINE q == [i \in 0..(m + 1) |-> IF i = m + 1 THEN Both(r[m], parts[m + 1])
                                          ELSE r[i]]
    <2>2. m \in Nat
      OBVIOUS
    <2>3. r = [i \in 0..m |-> IF i = 0 THEN Nothing ELSE Both(r[i - 1], parts[i])]
      BY <2>1 DEF IsRow
    <2>4. \A i \in 0..(m + 1) :
            q[i] = IF i = 0 THEN Nothing ELSE Both(q[i - 1], parts[i])
      <3> SUFFICES ASSUME NEW i \in 0..(m + 1)
                   PROVE  q[i] = IF i = 0 THEN Nothing ELSE Both(q[i - 1], parts[i])
        OBVIOUS
      <3>1. CASE i = 0
        BY <3>1, <2>2, <2>3
      <3>2. CASE i \in 1..m
        <4>1. i - 1 \in 0..m /\ i - 1 \in 0..(m + 1) /\ i - 1 # m + 1 /\ i # m + 1
              /\ i \in 0..m /\ i # 0
          BY <3>2, <2>2
        <4>2. q[i] = r[i] /\ q[i - 1] = r[i - 1]
          BY <4>1
        <4> QED
          BY <2>3, <4>1, <4>2
      <3>3. CASE i = m + 1
        <4>1. i - 1 = m /\ m \in 0..(m + 1) /\ m # m + 1 /\ i # 0
          BY <3>3, <2>2
        <4> QED
          BY <3>3, <4>1
      <3> QED
        BY <3>1, <3>2, <3>3, <2>2
    <2>5. IsRow(q, parts, m + 1)
      BY <2>4 DEF IsRow
    <2> QED
      BY <2>2, <2>5
  <1> HIDE DEF S
  <1>3. S = Nat
    BY <1>1, <1>2, Induction DEF S
  <1> QED
    BY <1>3 DEF S

\* What any row comes to.
LEMMA RowIs ==
  ASSUME NEW parts, Len(parts) \in Nat, NEW r, IsRow(r, parts, Len(parts))
  PROVE  InARow(parts) = r[Len(parts)]
  <1> DEFINE n == Len(parts)
             q == CHOOSE q : IsRow(q, parts, n)
  <1>1. IsRow(q, parts, n)
    BY RowExists
  <1>2. q = CHOOSE f : f = [i \in 0..n |->
                              IF i = 0 THEN Nothing ELSE Both(f[i - 1], parts[i])]
    BY Zenon DEF IsRow
  <1> HIDE DEF q
  <1>3. InARow(parts) = q[n]
    BY <1>2 DEF InARow
  <1>4. /\ q = [i \in 0..n |-> IF i = 0 THEN Nothing ELSE Both(q[i - 1], parts[i])]
        /\ r = [i \in 0..n |-> IF i = 0 THEN Nothing ELSE Both(r[i - 1], parts[i])]
    BY <1>1 DEF IsRow
  <1> DEFINE S == {m \in Nat : m <= n => q[m] = r[m]}
  <1>5. 0 \in S
    BY <1>4
  <1>6. ASSUME NEW m \in S PROVE m + 1 \in S
    <2>1. m \in Nat /\ m + 1 \in Nat
      OBVIOUS
    <2>2. CASE m + 1 <= n
      <3>1. m <= n /\ m + 1 \in 0..n /\ m + 1 # 0 /\ (m + 1) - 1 = m
        BY <2>1, <2>2
      <3>2. q[m] = r[m]
        BY <3>1
      <3> QED
        BY <1>4, <2>1, <3>1, <3>2
    <2> QED
      BY <2>1, <2>2
  <1> HIDE DEF S
  <1>7. S = Nat
    BY <1>5, <1>6, Induction DEF S
  <1> QED
    BY <1>3, <1>7 DEF S

\* A row of what can be said.
LEMMA RowType ==
  ASSUME NEW parts \in Seq(Said), NEW n \in 0..Len(parts), NEW r, IsRow(r, parts, n)
  PROVE  \A i \in 0..n : r[i] \in Said
  <1>1. r = [i \in 0..n |-> IF i = 0 THEN Nothing ELSE Both(r[i - 1], parts[i])]
    BY DEF IsRow
  <1> DEFINE S == {m \in Nat : m <= n => r[m] \in Said}
  <1>2. 0 \in S
    BY <1>1, Joining
  <1>3. ASSUME NEW m \in S PROVE m + 1 \in S
    <2>1. m \in Nat /\ m + 1 \in Nat
      OBVIOUS
    <2>2. CASE m + 1 <= n
      <3>1. m <= n /\ m + 1 \in 0..n /\ m + 1 # 0 /\ (m + 1) - 1 = m
            /\ m + 1 \in 1..Len(parts)
        BY <2>1, <2>2
      <3>2. r[m] \in Said /\ parts[m + 1] \in Said
        BY <3>1
      <3>3. r[m + 1] = Both(r[m], parts[m + 1])
        BY <1>1, <3>1
      <3>4. r[m + 1] \in Said
        BY <3>2, <3>3, Joining
      <3> QED
        BY <2>1, <3>4
    <2> QED
      BY <2>1, <2>2
  <1> HIDE DEF S
  <1>4. S = Nat
    BY <1>2, <1>3, Induction DEF S
  <1> QED
    BY <1>4 DEF S

\* A row grows by one at each step.
LEMMA RowStep ==
  ASSUME NEW parts, NEW n, NEW r, IsRow(r, parts, n), NEW k \in Nat, k + 1 \in 0..n
  PROVE  r[k + 1] = Both(r[k], parts[k + 1])
  <1>1. PICK j : j = k + 1
    OBVIOUS
  <1>2. j \in 0..n /\ j # 0 /\ j - 1 = k
    BY <1>1
  <1>3. r[j] = IF j = 0 THEN Nothing ELSE Both(r[j - 1], parts[j])
    BY <1>2 DEF IsRow
  <1>4. r[j] = Both(r[k], parts[j])
    BY <1>2, <1>3, Zenon
  <1> QED
    BY <1>1, <1>4, Zenon

\* One row after another is what both come to.
LEMMA RowJoin ==
  ASSUME NEW a \in Seq(Said), NEW b \in Seq(Said)
  PROVE  InARow(a \o b) = Both(InARow(a), InARow(b))
  <1> DEFINE n == Len(a)
             m == Len(b)
             c == a \o b
  <1>1. /\ n \in Nat /\ m \in Nat /\ c \in Seq(Said) /\ Len(c) = n + m
        /\ \A i \in 1..n : c[i] = a[i]
        /\ \A i \in 1..m : c[n + i] = b[i] /\ b[i] \in Said
    BY ConcatProperties, LenProperties
  <1> HIDE DEF c, n, m
  <1>2. PICK r : IsRow(r, a, n)
    BY <1>1, RowExists
  <1>3. PICK q : IsRow(q, b, m)
    BY <1>1, RowExists
  <1>4. PICK p : IsRow(p, c, n + m)
    <2>1. n + m \in Nat
      BY <1>1
    <2> QED
      BY <2>1, RowExists
  <1>5. /\ InARow(a) = r[n] /\ InARow(b) = q[m] /\ InARow(c) = p[n + m]
    <2>1. InARow(a) = r[n]
      BY <1>1, <1>2, RowIs DEF n
    <2>2. InARow(b) = q[m]
      BY <1>1, <1>3, RowIs DEF m
    <2>3. InARow(c) = p[n + m]
      <3>1. Len(c) \in Nat
        BY <1>1
      <3>2. IsRow(p, c, Len(c)) /\ Len(c) = n + m
        BY <1>1, <1>4, Zenon
      <3>3. InARow(c) = p[Len(c)]
        BY ONLY <3>1, <3>2, RowIs, Zenon
      <3> QED
        BY <3>2, <3>3, Zenon
    <2> QED
      BY <2>1, <2>2, <2>3
  <1>6. /\ r = [i \in 0..n |-> IF i = 0 THEN Nothing ELSE Both(r[i - 1], a[i])]
        /\ q = [i \in 0..m |-> IF i = 0 THEN Nothing ELSE Both(q[i - 1], b[i])]
        /\ p = [i \in 0..(n + m) |-> IF i = 0 THEN Nothing ELSE Both(p[i - 1], c[i])]
    BY <1>2, <1>3, <1>4 DEF IsRow
  <1> DEFINE S == {k \in Nat : k <= n => p[k] = r[k]}
  <1>7. 0 \in S
    BY <1>1, <1>6
  <1>8. ASSUME NEW k \in S PROVE k + 1 \in S
    <2>1. k \in Nat /\ k + 1 \in Nat
      OBVIOUS
    <2>2. CASE k + 1 <= n
      <3>1. k <= n /\ k + 1 \in 0..n /\ k + 1 \in 0..(n + m) /\ k + 1 # 0
            /\ (k + 1) - 1 = k /\ k + 1 \in 1..n
        BY <1>1, <2>1, <2>2
      <3>2. p[k] = r[k] /\ c[k + 1] = a[k + 1]
        BY <1>1, <3>1
      <3>3. p[k + 1] = Both(p[k], c[k + 1])
        BY <1>4, <2>1, <3>1, RowStep
      <3>4. r[k + 1] = Both(r[k], a[k + 1])
        BY <1>1, <1>2, <2>1, <3>1, RowStep
      <3> QED
        BY <2>1, <3>2, <3>3, <3>4
    <2> QED
      BY <2>1, <2>2
  <1>9. p[n] = r[n]
    <2> HIDE DEF S
    <2>1. S = Nat
      BY <1>7, <1>8, Induction DEF S
    <2> QED
      BY <1>1, <2>1 DEF S
  <1>10. r[n] \in Said /\ \A i \in 0..m : q[i] \in Said
    <2>1. n \in 0..Len(a) /\ m \in 0..Len(b) /\ n \in 0..n
      BY <1>1 DEF n, m
    <2>2. \A i \in 0..n : r[i] \in Said
      BY <1>2, <2>1, RowType
    <2>3. \A i \in 0..m : q[i] \in Said
      BY <1>3, <2>1, RowType
    <2> QED
      BY <2>1, <2>2, <2>3
  <1> DEFINE T == {k \in Nat : k <= m => p[n + k] = Both(r[n], q[k])}
  <1>11. 0 \in T
    <2>1. q[0] = Nothing /\ n + 0 = n
      BY <1>1, <1>6
    <2>2. Both(r[n], Nothing) = r[n]
      BY <1>10, Joining
    <2> QED
      BY <1>9, <2>1, <2>2
  <1>12. ASSUME NEW k \in T PROVE k + 1 \in T
    <2>1. k \in Nat /\ k + 1 \in Nat
      OBVIOUS
    <2>2. CASE k + 1 <= m
      <3>1. k <= m /\ k + 1 \in 0..m /\ k \in 0..m /\ n + (k + 1) \in 0..(n + m)
            /\ k + 1 # 0 /\ n + (k + 1) # 0 /\ (k + 1) - 1 = k
            /\ (n + (k + 1)) - 1 = n + k /\ k + 1 \in 1..m
        BY <1>1, <2>1, <2>2
      <3>2. p[n + k] = Both(r[n], q[k]) /\ c[n + (k + 1)] = b[k + 1] /\ b[k + 1] \in Said
        BY <1>1, <3>1
      <3>3. /\ p[n + (k + 1)] = Both(p[n + k], c[n + (k + 1)])
            /\ q[k + 1] = Both(q[k], b[k + 1])
        BY <1>6, <3>1
      <3>4. Both(Both(r[n], q[k]), b[k + 1]) = Both(r[n], Both(q[k], b[k + 1]))
        BY <1>10, <3>1, <3>2, Joining
      <3> QED
        BY <2>1, <3>2, <3>3, <3>4
    <2> QED
      BY <2>1, <2>2
  <1> HIDE DEF T
  <1>13. T = Nat
    BY <1>11, <1>12, Induction DEF T
  <1>14. p[n + m] = Both(r[n], q[m])
    <2>1. m \in T /\ m <= m
      BY <1>1, <1>13
    <2> QED
      BY <2>1 DEF T
  <1> QED
    BY <1>5, <1>14 DEF c

\* A row of nothing, and a row of one.
LEMMA RowFew ==
  /\ InARow(<<>>) = Nothing
  /\ \A parts \in Seq(Said) : InARow(parts) \in Said
  /\ \A a \in Said : InARow(<<a>>) = a
  <1>1. ASSUME NEW parts \in Seq(Said)
        PROVE  InARow(parts) \in Said
    <2>1. Len(parts) \in Nat /\ Len(parts) \in 0..Len(parts)
      OBVIOUS
    <2>2. PICK r : IsRow(r, parts, Len(parts))
      BY <2>1, RowExists
    <2> QED
      BY <2>1, <2>2, RowIs, RowType
  <1>2. InARow(<<>>) = Nothing
    <2>1. Len(<<>>) = 0
      OBVIOUS
    <2>2. PICK r : IsRow(r, <<>>, 0)
      BY RowExists
    <2>3. r[0] = Nothing
      BY <2>2 DEF IsRow
    <2>4. PICK e : e = <<>>
      OBVIOUS
    <2>5. Len(e) = 0 /\ IsRow(r, e, 0)
      BY <2>1, <2>2, <2>4
    <2>6. InARow(e) = r[0]
      BY <2>5, RowIs
    <2> QED
      BY <2>3, <2>4, <2>6
  <1>3. ASSUME NEW a \in Said
        PROVE  InARow(<<a>>) = a
    <2>1. PICK s : s = <<a>>
      OBVIOUS
    <2>2. Len(s) = 1 /\ Len(s) \in Nat /\ s[1] = a
      BY <2>1
    <2>3. PICK r : IsRow(r, s, 1)
      BY RowExists
    <2>4. r[0] = Nothing /\ r[1] = Both(r[0], s[1])
      BY <2>3 DEF IsRow
    <2>5. InARow(s) = r[1]
      BY <2>2, <2>3, RowIs
    <2> QED
      BY <2>1, <2>2, <2>4, <2>5, Joining
  <1> QED
    BY <1>1, <1>2, <1>3

\* A row begins with its first part.
LEMMA RowHead ==
  ASSUME NEW parts \in Seq(Said), parts # <<>>
  PROVE  InARow(parts) = Both(Head(parts), InARow(Tail(parts)))
  <1>1. Head(parts) \in Said /\ Tail(parts) \in Seq(Said)
        /\ parts = <<Head(parts)>> \o Tail(parts)
    OBVIOUS
  <1>2. PICK a \in Said, b \in Seq(Said) : a = Head(parts) /\ b = Tail(parts)
    BY <1>1
  <1>3. <<a>> \in Seq(Said) /\ parts = <<a>> \o b
    BY <1>1, <1>2
  <1>4. InARow(<<a>> \o b) = Both(InARow(<<a>>), InARow(b))
    BY <1>3, RowJoin
  <1>5. InARow(<<a>>) = a
    BY RowFew
  <1> QED
    BY <1>2, <1>3, <1>4, <1>5
-----------------------------------------------------------------------------
(* Numbers and bits.                                                       *)

\* A number is its quotient and its remainder.
LEMMA Division ==
  ASSUME NEW d \in Nat \ {0}, NEW n \in Nat
  PROVE  n = d * (n \div d) + (n % d) /\ n \div d \in Nat /\ n % d \in 0..(d - 1)
  BY SMT

\* And has no other.
LEMMA Remainder ==
  ASSUME NEW d \in Nat \ {0}, NEW q \in Int, NEW r \in 0..(d - 1)
  PROVE  (d * q + r) \div d = q /\ (d * q + r) % d = r
  BY SMT

\* A size is read as it is written.
LEMMA SizeOctets ==
  ASSUME NEW n \in Nat
  PROVE  /\ PutU16(n) \in Seq(Octet) /\ Len(PutU16(n)) = 2
         /\ n < MaxSize => 256 * PutU16(n)[1] + PutU16(n)[2] = n
  <1>1. Len(PutU16(n)) = 2
        /\ PutU16(n)[1] = (n \div 256) % 256 /\ PutU16(n)[2] = n % 256
    BY DEF PutU16
  <1>2. ASSUME n < MaxSize
        PROVE  256 * ((n \div 256) % 256) + (n % 256) = n
    <2>1. PICK q \in Nat, r \in 0..255 : q = n \div 256 /\ r = n % 256 /\ n = 256 * q + r
      BY Division
    <2>2. q < 256
      BY <1>2, <2>1, SMT DEF MaxSize
    <2>3. (256 * 0 + q) % 256 = q
      BY <2>2, Remainder
    <2> QED
      BY <2>1, <2>2, <2>3
  <1> QED
    BY <1>1, <1>2, Numbers

\* A number, from its halves and the octets of the lower.
LEMMA Halves ==
  ASSUME NEW n \in Nat
  PROVE  /\ n \div MaxSize \in Nat
         /\ n = MaxSize * (n \div MaxSize) + (256 * ((n \div 256) % 256) + (n % 256))
         /\ n < MaxCount => n \div MaxSize < 256
  <1>1. PICK d \in Nat \ {0} : d = 256
    OBVIOUS
  <1>2. PICK p \in Nat, r \in 0..(d - 1) : p = n \div d /\ r = n % d /\ n = d * p + r
    BY Division, SMT
  <1>3. PICK h \in Nat, q \in 0..(d - 1) : h = p \div d /\ q = p % d /\ p = d * h + q
    BY Division, SMT
  <1>4. n = MaxSize * h + (256 * q + r) /\ 256 * q + r < MaxSize /\ 256 * q + r >= 0
    BY <1>1, <1>2, <1>3, SMT DEF MaxSize
  <1>5. n \div MaxSize = h
    BY <1>4, SMT DEF MaxSize
  <1>6. n < MaxCount => h < 256
    BY <1>1, <1>2, <1>3, SMT DEF MaxCount
  <1>7. (n \div 256) % 256 = q /\ n % 256 = r
    BY <1>1, <1>2, <1>3, Zenon
  <1>8. MaxSize * (n \div MaxSize) + (256 * ((n \div 256) % 256) + (n % 256))
          = MaxSize * h + (256 * q + r)
    BY <1>5, <1>7, Zenon
  <1> QED
    BY <1>4, <1>5, <1>6, <1>8, ZenonT(40)

\* A count is written in halves.
LEMMA CountHalves ==
  ASSUME NEW n
  PROVE  PutU32(n) = PutU16(n \div MaxSize) \o PutU16(n)
  BY SMT DEF PutU32, MaxSize

\* And it is read as it is written, when it is below the bound.
LEMMA CountOctets ==
  ASSUME NEW n \in Nat
  PROVE  /\ PutU32(n) \in Seq(Octet) /\ Len(PutU32(n)) = 4
         /\ n < MaxCount =>
              /\ PutU32(n)[1] = 0
              /\ MaxSize * PutU32(n)[2] + (256 * PutU32(n)[3] + PutU32(n)[4]) = n
  <1>1. PICK g : g = n \div MaxSize
    OBVIOUS
  <1>2. PICK q, r : q = (n \div 256) % 256 /\ r = n % 256
    OBVIOUS
  <1>3. PICK a, b : a = (g \div 256) % 256 /\ b = g % 256
    OBVIOUS
  <1>4. g \in Nat /\ n = MaxSize * g + (256 * q + r) /\ (n < MaxCount => g < 256)
    BY <1>1, <1>2, Halves, ZenonT(40)
  <1>5. a \in Octet /\ b \in Octet /\ q \in Octet /\ r \in Octet
    BY <1>2, <1>3, <1>4, SMT DEF Octet
  <1>6. PutU16(g) = <<a, b>> /\ PutU16(n) = <<q, r>>
    BY <1>2, <1>3, Zenon DEF PutU16
  <1>7. PutU32(n) = <<a, b>> \o <<q, r>>
    BY <1>1, <1>6, CountHalves, Zenon
  <1>8. g < 256 => a = 0 /\ b = g
    BY <1>3, <1>4, SMT
  <1>9. PICK s : s = PutU32(n)
    OBVIOUS
  <1>10. s \in Seq(Octet) /\ Len(s) = 4 /\ s[1] = a /\ s[2] = b /\ s[3] = q /\ s[4] = r
    BY <1>5, <1>7, <1>9
  <1>11. MaxSize * s[2] + (256 * s[3] + s[4]) = MaxSize * b + (256 * q + r)
    BY <1>10, Zenon
  <1>12. n < MaxCount => s[1] = 0 /\ MaxSize * s[2] + (256 * s[3] + s[4]) = n
    BY <1>4, <1>8, <1>10, <1>11, Zenon
  <1> QED
    BY <1>9, <1>10, <1>12, Zenon

\* The powers of two in an octet.
LEMMA Powers ==
  /\ 2^0 = 1 /\ 2^1 = 2 /\ 2^2 = 4 /\ 2^3 = 8
  /\ 2^4 = 16 /\ 2^5 = 32 /\ 2^6 = 64 /\ 2^7 = 128
  BY SMT

\* The octet of eight bits, which has these and no others.
LEMMA EightBits ==
  ASSUME NEW b0 \in 0..1, NEW b1 \in 0..1, NEW b2 \in 0..1, NEW b3 \in 0..1,
         NEW b4 \in 0..1, NEW b5 \in 0..1, NEW b6 \in 0..1, NEW b7 \in 0..1,
         NEW o, o = b0 + 2 * b1 + 4 * b2 + 8 * b3 + 16 * b4 + 32 * b5 + 64 * b6 + 128 * b7
  PROVE  /\ (o \div 1) % 2 = b0 /\ (o \div 2) % 2 = b1
         /\ (o \div 4) % 2 = b2 /\ (o \div 8) % 2 = b3
         /\ (o \div 16) % 2 = b4 /\ (o \div 32) % 2 = b5
         /\ (o \div 64) % 2 = b6 /\ (o \div 128) % 2 = b7
  BY SMT

\* The numbers below eight.
LEMMA Eight ==
  \A k \in 0..7 : k = 0 \/ k = 1 \/ k = 2 \/ k = 3 \/ k = 4 \/ k = 5 \/ k = 6 \/ k = 7
  BY SMT

\* An octet has the bits that it is made of.
LEMMA OctetBits ==
  ASSUME NEW bits
  PROVE  \A k \in 0..7 : (OctetOf(bits) \div 2^k) % 2 = 1 <=> k \in bits
  <1> DEFINE b(k) == IF k \in bits THEN 1 ELSE 0
  <1>1. PICK b0 \in 0..1, b1 \in 0..1, b2 \in 0..1, b3 \in 0..1,
             b4 \in 0..1, b5 \in 0..1, b6 \in 0..1, b7 \in 0..1 :
          /\ b0 = b(0) /\ b1 = b(1) /\ b2 = b(2) /\ b3 = b(3)
          /\ b4 = b(4) /\ b5 = b(5) /\ b6 = b(6) /\ b7 = b(7)
    OBVIOUS
  <1>2. PICK o : o = OctetOf(bits)
    OBVIOUS
  <1>3. o = b0 + 2 * b1 + 4 * b2 + 8 * b3 + 16 * b4 + 32 * b5 + 64 * b6 + 128 * b7
    <2>1. /\ (IF 0 \in bits THEN 2^0 ELSE 0) = b0
          /\ (IF 1 \in bits THEN 2^1 ELSE 0) = 2 * b1
          /\ (IF 2 \in bits THEN 2^2 ELSE 0) = 4 * b2
          /\ (IF 3 \in bits THEN 2^3 ELSE 0) = 8 * b3
          /\ (IF 4 \in bits THEN 2^4 ELSE 0) = 16 * b4
          /\ (IF 5 \in bits THEN 2^5 ELSE 0) = 32 * b5
          /\ (IF 6 \in bits THEN 2^6 ELSE 0) = 64 * b6
          /\ (IF 7 \in bits THEN 2^7 ELSE 0) = 128 * b7
      BY <1>1, Powers
    <2> QED
      BY <1>2, <2>1 DEF OctetOf
  <1>5. /\ (o \div 1) % 2 = b0 /\ (o \div 2) % 2 = b1
        /\ (o \div 4) % 2 = b2 /\ (o \div 8) % 2 = b3
        /\ (o \div 16) % 2 = b4 /\ (o \div 32) % 2 = b5
        /\ (o \div 64) % 2 = b6 /\ (o \div 128) % 2 = b7
    BY <1>3, EightBits
  <1>6. /\ 0 \in bits <=> (o \div 2^0) % 2 = 1
        /\ 1 \in bits <=> (o \div 2^1) % 2 = 1
        /\ 2 \in bits <=> (o \div 2^2) % 2 = 1
        /\ 3 \in bits <=> (o \div 2^3) % 2 = 1
        /\ 4 \in bits <=> (o \div 2^4) % 2 = 1
        /\ 5 \in bits <=> (o \div 2^5) % 2 = 1
        /\ 6 \in bits <=> (o \div 2^6) % 2 = 1
        /\ 7 \in bits <=> (o \div 2^7) % 2 = 1
    BY <1>1, <1>5, Powers
  <1>8. ASSUME NEW k \in 0..7
        PROVE  (o \div 2^k) % 2 = 1 <=> k \in bits
    <2>1. CASE k \in {0, 1, 2, 3}
      BY <1>6, <2>1, Zenon
    <2>2. CASE k \in {4, 5, 6, 7}
      BY <1>6, <2>2, Zenon
    <2> QED
      BY <2>1, <2>2, Eight
  <1> QED
    BY <1>2, <1>8, Zenon

\* Half of a number, and its lowest bit.
LEMMA Half ==
  ASSUME NEW n \in Nat
  PROVE  \E q \in Nat, b \in 0..1 : n = 2 * q + b
  <1>1. PICK d \in Nat \ {0} : d = 2
    OBVIOUS
  <1>2. n = d * (n \div d) + (n % d) /\ n \div d \in Nat /\ n % d \in 0..(d - 1)
    BY Division
  <1>3. PICK q, b : q = n \div d /\ b = n % d
    OBVIOUS
  <1>4. n = 2 * q + b /\ q \in Nat /\ b \in 0..1
    BY <1>1, <1>2, <1>3
  <1> QED
    BY <1>4, Zenon

\* Every octet is made of bits.
LEMMA OctetMade ==
  ASSUME NEW o \in Octet
  PROVE  \E bits \in SUBSET (0..7) : OctetOf(bits) = o
  <1>1. PICK b0 \in 0..1, b1 \in 0..1, b2 \in 0..1, b3 \in 0..1,
             b4 \in 0..1, b5 \in 0..1, b6 \in 0..1, b7 \in 0..1 :
          o = b0 + 2 * b1 + 4 * b2 + 8 * b3 + 16 * b4 + 32 * b5 + 64 * b6 + 128 * b7
    <2>1. o \in Nat /\ o < 256
      BY DEF Octet
    <2>2. PICK q1 \in Nat, b0 \in 0..1 : o = 2 * q1 + b0
      BY <2>1, Half, Zenon
    <2>3. PICK q2 \in Nat, b1 \in 0..1 : q1 = 2 * q2 + b1
      BY <2>2, Half, Zenon
    <2>4. PICK q3 \in Nat, b2 \in 0..1 : q2 = 2 * q3 + b2
      BY <2>3, Half, Zenon
    <2>5. PICK q4 \in Nat, b3 \in 0..1 : q3 = 2 * q4 + b3
      BY <2>4, Half, Zenon
    <2>6. PICK q5 \in Nat, b4 \in 0..1 : q4 = 2 * q5 + b4
      BY <2>5, Half, Zenon
    <2>7. PICK q6 \in Nat, b5 \in 0..1 : q5 = 2 * q6 + b5
      BY <2>6, Half, Zenon
    <2>8. PICK q7 \in Nat, b6 \in 0..1 : q6 = 2 * q7 + b6
      BY <2>7, Half, Zenon
    <2>9. q7 \in 0..1
      BY <2>1, <2>2, <2>3, <2>4, <2>5, <2>6, <2>7, <2>8
    <2>10. o = b0 + 2 * b1 + 4 * b2 + 8 * b3 + 16 * b4 + 32 * b5 + 64 * b6 + 128 * q7
      BY <2>1, <2>2, <2>3, <2>4, <2>5, <2>6, <2>7, <2>8
    <2> QED
      BY <2>9, <2>10
  <1> DEFINE b(k) == CASE k = 0 -> b0 [] k = 1 -> b1 [] k = 2 -> b2 [] k = 3 -> b3
                       [] k = 4 -> b4 [] k = 5 -> b5 [] k = 6 -> b6 [] k = 7 -> b7
             bits == {k \in 0..7 : b(k) = 1}
  <1>2. /\ (0 \in bits <=> b0 = 1) /\ (1 \in bits <=> b1 = 1)
        /\ (2 \in bits <=> b2 = 1) /\ (3 \in bits <=> b3 = 1)
        /\ (4 \in bits <=> b4 = 1) /\ (5 \in bits <=> b5 = 1)
        /\ (6 \in bits <=> b6 = 1) /\ (7 \in bits <=> b7 = 1)
    OBVIOUS
  <1>3. bits \in SUBSET (0..7)
    OBVIOUS
  <1> HIDE DEF bits
  <1>4. /\ (IF 0 \in bits THEN 2^0 ELSE 0) = b0
        /\ (IF 1 \in bits THEN 2^1 ELSE 0) = 2 * b1
        /\ (IF 2 \in bits THEN 2^2 ELSE 0) = 4 * b2
        /\ (IF 3 \in bits THEN 2^3 ELSE 0) = 8 * b3
        /\ (IF 4 \in bits THEN 2^4 ELSE 0) = 16 * b4
        /\ (IF 5 \in bits THEN 2^5 ELSE 0) = 32 * b5
        /\ (IF 6 \in bits THEN 2^6 ELSE 0) = 64 * b6
        /\ (IF 7 \in bits THEN 2^7 ELSE 0) = 128 * b7
    BY <1>2, Powers
  <1>5. OctetOf(bits) = o
    BY <1>1, <1>4 DEF OctetOf
  <1> QED
    BY <1>3, <1>5

\* pcrsFromBitmap takes out of a bitmap the PCRs that its bits select.
LEMMA BitmapSelects ==
  ASSUME NEW b \in Seq(Octet)
  PROVE  SelectedBy(b) = pcrsFromBitmap(b) /\ SelectedBy(b) \in SUBSET Nat
  <1>1. ASSUME NEW o \in Octet, NEW k \in 0..7
        PROVE  k \in BitsOf[o] <=> (o \div 2^k) % 2 = 1
    <2>1. \E bits \in SUBSET (0..7) : OctetOf(bits) = o
      BY OctetMade
    <2>2. PICK bits : bits = CHOOSE s \in SUBSET (0..7) : OctetOf(s) = o
      OBVIOUS
    <2>3. OctetOf(bits) = o
      BY <2>1, <2>2, Zenon
    <2>4. BitsOf[o] = bits
      BY <2>2 DEF BitsOf
    <2>5. (OctetOf(bits) \div 2^k) % 2 = 1 <=> k \in bits
      BY OctetBits
    <2> QED
      BY <2>3, <2>4, <2>5, Zenon
  <1>2. ASSUME NEW n \in 0..(8 * Len(b) - 1)
        PROVE  /\ n \in Nat
               /\ n % 8 \in BitsOf[b[n \div 8 + 1]]
                    <=> (b[n \div 8 + 1] \div 2^(n % 8)) % 2 = 1
    <2>1. PICK l \in Nat : l = Len(b)
      OBVIOUS
    <2>2. n \in Nat /\ n < 8 * l
      BY <2>1
    <2>3. PICK q \in Nat, k \in 0..7 : q = n \div 8 /\ k = n % 8 /\ n = 8 * q + k
      BY <2>2, SMT
    <2>4. q + 1 \in 1..l
      BY <2>2, <2>3
    <2>5. b[q + 1] \in Octet
      BY <2>1, <2>4
    <2>6. k \in BitsOf[b[q + 1]] <=> (b[q + 1] \div 2^k) % 2 = 1
      BY <1>1, <2>5
    <2> QED
      BY <2>2, <2>3, <2>6, Zenon
  <1>3. SelectedBy(b) = pcrsFromBitmap(b)
    BY <1>2, Zenon DEF SelectedBy, pcrsFromBitmap
  <1>4. SelectedBy(b) \subseteq Nat
    BY <1>2, Zenon DEF SelectedBy
  <1> QED
    BY <1>3, <1>4

\* What a device reads of the octets that the library sends for a selection is
\* the set that Sealing and Attesting, through PCRSelections, take it to be:
\* the indices from 0 to 23, the others dropped (pcr.go:28-57).
Sets == INSTANCE PCRSelections

\* The bitmap of a selection and back: octets and sets agree.
THEOREM SelectionsAgree ==
  ASSUME NEW pcrs \in SUBSET Int
  PROVE  pcrsFromBitmap(bitmap(pcrs)) = Sets!bitmap(pcrs)
  <1> DEFINE c == bitmap(pcrs)
             part(q) == {k \in 0..7 : 8 * ((q + 1) - 1) + k \in pcrs}
  <1>1. c = [i \in 1..3 |-> OctetOf({k \in 0..7 : 8 * (i - 1) + k \in pcrs})]
    BY Zenon DEF bitmap, pcrSelectSize
  <1>2. Len(c) = 3
    BY <1>1
  <1>3. ASSUME NEW q \in 0..2
        PROVE  c[q + 1] = OctetOf(part(q))
    <2>1. PICK i \in 1..3 : i = q + 1
      OBVIOUS
    <2>2. c[i] = OctetOf({k \in 0..7 : 8 * (i - 1) + k \in pcrs})
      BY <1>1, Zenon
    <2> QED
      BY <2>1, <2>2, Zenon
  <1> HIDE DEF c
  <1>4. ASSUME NEW n \in 0..23
        PROVE  (c[n \div 8 + 1] \div 2^(n % 8)) % 2 = 1 <=> n \in pcrs
    <2>1. PICK q \in 0..2, k \in 0..7 : q = n \div 8 /\ k = n % 8 /\ n = 8 * q + k
      BY SMT
    <2>2. c[q + 1] = OctetOf(part(q)) /\ part(q) \in SUBSET (0..7)
      BY <1>3
    <2>3. (OctetOf(part(q)) \div 2^k) % 2 = 1 <=> k \in part(q)
      <3> HIDE DEF part
      <3> QED
        BY <2>2, OctetBits
    <2>4. k \in part(q) <=> n \in pcrs
      <3>1. 8 * ((q + 1) - 1) + k = n
        BY <2>1
      <3> QED
        BY <3>1, Zenon
    <2> QED
      BY <2>1, <2>2, <2>3, <2>4, Zenon
  <1>5. pcrsFromBitmap(c) = {n \in 0..23 : n \in pcrs}
    <2>1. 8 * Len(c) - 1 = 23
      BY <1>2
    <2> QED
      BY <1>4, <2>1, Zenon DEF pcrsFromBitmap
  <1>6. Sets!bitmap(pcrs) = {n \in 0..23 : n \in pcrs}
    <2>1. Sets!bitmap(pcrs) = {i \in pcrs : ~(i < 0 \/ i >= 3 * 8)}
      BY Zenon DEF Sets!bitmap, Sets!pcrSelectSize
    <2>2. \A i \in pcrs : ~(i < 0 \/ i >= 3 * 8) <=> i \in 0..23
      BY SMT
    <2> QED
      BY <2>1, <2>2, Zenon
  <1> QED
    BY <1>5, <1>6 DEF c
-----------------------------------------------------------------------------
(* The text of the fields of a parser.                                     *)

\* What a field says.
Content == Seq(Seq(Seq(Octet)))

\* What is said of a field of a parser at work: what is left of a list is its
\* structures.
Speak(f, rows) == IF f.k = "times" THEN Structs(f.of, rows) ELSE Spoken(f, rows)

Text(fs, xs) == InARow([n \in 1..Len(xs) |-> Speak(fs[n], xs[n])])

\* Fields that can be given a text, and their contents.
Voiced(fs, xs) ==
  /\ fs \in Layout /\ xs \in Seq(Content) /\ Len(xs) <= Len(fs)
  /\ \A n \in 1..Len(xs) : Speak(fs[n], xs[n]) \in Said

\* What the fields of an element have.
LEMMA ElemKinds ==
  ASSUME NEW f \in Elem
  PROVE  /\ f.k \in {"int", "expect", "2b", "bitmap", "detail"}
         /\ f.k = "int" => f.w \in Nat /\ f.keep \in BOOLEAN
         /\ f.k = "expect" => f.v \in Seq(Octet)
         /\ f.k \in {"2b", "bitmap"} => f.keep \in BOOLEAN
         /\ f.k = "detail" => f.w \in Nat
  BY DEF Elem

\* And the others.
LEMMA FieldKinds ==
  ASSUME NEW f \in Field
  PROVE  /\ f.k \in {"list", "buffer", "times"} => f.of \in Seq(Elem)
         /\ f.k = "times" => f.n \in Nat
         /\ f.k = "first" => f.v \in Seq(Octet)
         /\ f.k \notin {"list", "buffer", "times", "first", "close"} => f \in Elem
         /\ f.k = "close" => f = Close
  BY DEF Field, Entry, Elem, Close

\* What one string says.
LEMMA PlainType ==
  ASSUME NEW f \in Elem, NEW x \in Seq(Octet), FitsPlain(f, x) \/ f.k = "expect"
  PROVE  Plain(f, x) \in Said
  <1> DEFINE o == CASE f.k = "2b"     -> MarshalTPM2B(x)
                    [] f.k = "bitmap" -> <<Len(x)>> \o x
                    [] OTHER          -> x
             v == IF f.k \in {"int", "2b"} THEN If(f.keep, x) ELSE <<>>
             p == IF f.k = "bitmap" THEN If(f.keep, SelectedBy(x)) ELSE <<>>
  <1>1. o \in Seq(Octet)
    <2>1. CASE f.k = "2b"
      <3>1. Len(x) \in Nat
        OBVIOUS
      <3>2. PutU16(Len(x)) \in Seq(Octet)
        BY <3>1, SizeOctets
      <3> QED
        BY <2>1, <3>2 DEF MarshalTPM2B
    <2>2. CASE f.k = "bitmap"
      <3>1. Len(x) < 256
        BY <2>2 DEF FitsPlain
      <3>2. PICK l \in Nat : l = Len(x)
        OBVIOUS
      <3>3. l < 256
        BY <3>1, <3>2, Zenon
      <3>4. l \in Octet
        BY <3>3 DEF Octet
      <3> QED
        BY <2>2, <3>2, <3>4
    <2>3. CASE f.k \notin {"2b", "bitmap"}
      BY <2>3
    <2> QED
      BY <2>1, <2>2, <2>3
  <1>2. v \in Seq(Seq(Octet))
    BY ElemKinds, IfKept
  <1>3. p \in Seq(SUBSET Nat)
    <2>1. SelectedBy(x) \in SUBSET Nat
      BY BitmapSelects
    <2>2. CASE f.k = "bitmap"
      <3>1. If(f.keep, SelectedBy(x)) \in Seq(SUBSET Nat)
        BY <2>1, <2>2, ElemKinds, IfKept
      <3> QED
        BY <2>2, <3>1
    <2> QED
      BY <2>2
  <1>4. Plain(f, x) = [octets |-> o, values |-> v, pcrs |-> p]
    BY DEF Plain
  <1> HIDE DEF o, v, p
  <1> QED
    BY <1>1, <1>2, <1>3, <1>4 DEF Said

\* What a structure says.
LEMMA StructType ==
  ASSUME NEW of \in Seq(Elem), NEW row \in Seq(Seq(Octet)), FitsStruct(of, row)
  PROVE  /\ [n \in 1..Len(row) |-> Plain(of[n], row[n])] \in Seq(Said)
         /\ Struct(of, row) \in Said
  <1>1. Len(row) = Len(of) /\ \A n \in 1..Len(of) : FitsPlain(of[n], row[n])
    BY DEF FitsStruct
  <1>2. ASSUME NEW n \in 1..Len(row)
        PROVE  Plain(of[n], row[n]) \in Said
    <2>1. of[n] \in Elem /\ row[n] \in Seq(Octet) /\ FitsPlain(of[n], row[n])
      BY <1>1
    <2> QED
      BY <2>1, PlainType
  <1>3. [n \in 1..Len(row) |-> Plain(of[n], row[n])] \in Seq(Said)
    BY <1>2
  <1> QED
    BY <1>3, RowFew, Zenon DEF Struct

\* What structures say.
LEMMA StructsType ==
  ASSUME NEW of \in Seq(Elem), NEW rows \in Content, FitsStructs(of, rows)
  PROVE  /\ [n \in 1..Len(rows) |-> Struct(of, rows[n])] \in Seq(Said)
         /\ Structs(of, rows) \in Said
  <1>1. ASSUME NEW n \in 1..Len(rows)
        PROVE  Struct(of, rows[n]) \in Said
    <2>1. rows[n] \in Seq(Seq(Octet)) /\ FitsStruct(of, rows[n])
      BY DEF FitsStructs, Content
    <2> QED
      BY <2>1, StructType
  <1>2. Len(rows) \in Nat
    BY DEF Content
  <1>3. [n \in 1..Len(rows) |-> Struct(of, rows[n])] \in Seq(Said)
    BY <1>1, <1>2
  <1> QED
    BY <1>3, RowFew, Zenon DEF Structs

\* Octets alone.
LEMMA BareType ==
  ASSUME NEW o \in Seq(Octet)
  PROVE  Bare(o) \in Said /\ Bare(o).octets = o /\ Bare(o).values = <<>>
         /\ Bare(o).pcrs = <<>>
  BY DEF Bare, Said

\* The first of the structures, and the others.
LEMMA StructsHead ==
  ASSUME NEW of \in Seq(Elem), NEW rows \in Content, FitsStructs(of, rows)
  PROVE  /\ rows = <<>> => Structs(of, rows) = Nothing
         /\ rows # <<>> =>
              /\ Head(rows) \in Seq(Seq(Octet)) /\ FitsStruct(of, Head(rows))
              /\ Tail(rows) \in Content /\ FitsStructs(of, Tail(rows))
              /\ Len(Tail(rows)) = Len(rows) - 1
              /\ Structs(of, rows) = Both(Struct(of, Head(rows)), Structs(of, Tail(rows)))
  <1> DEFINE p == [n \in 1..Len(rows) |-> Struct(of, rows[n])]
  <1>1. Structs(of, rows) = InARow(p) /\ p \in Seq(Said) /\ Len(p) = Len(rows)
    <2>1. Len(rows) \in Nat
      BY DEF Content
    <2>2. p \in Seq(Said) /\ Structs(of, rows) = InARow(p)
      BY StructsType, Zenon DEF Structs
    <2>3. Len(p) = Len(rows)
      BY <2>1
    <2> QED
      BY <2>2, <2>3
  <1>2. ASSUME rows = <<>>
        PROVE  Structs(of, rows) = Nothing
    <2>1. p = <<>>
      BY <1>2
    <2> QED
      BY <1>1, <2>1, RowFew
  <1>3. ASSUME rows # <<>>
        PROVE  /\ Head(rows) \in Seq(Seq(Octet)) /\ FitsStruct(of, Head(rows))
               /\ Tail(rows) \in Content /\ FitsStructs(of, Tail(rows))
               /\ Len(Tail(rows)) = Len(rows) - 1
               /\ Structs(of, rows)
                    = Both(Struct(of, Head(rows)), Structs(of, Tail(rows)))
    <2>1. /\ Head(rows) \in Seq(Seq(Octet)) /\ Head(rows) = rows[1]
          /\ Tail(rows) \in Content /\ Len(Tail(rows)) = Len(rows) - 1
          /\ Len(rows) \in Nat /\ Len(rows) >= 1
          /\ \A n \in 1..Len(Tail(rows)) : Tail(rows)[n] = rows[n + 1]
      BY <1>3 DEF Content
    <2>2. FitsStruct(of, Head(rows)) /\ FitsStructs(of, Tail(rows))
      BY <2>1 DEF FitsStructs
    <2>3. p # <<>> /\ Head(p) = Struct(of, Head(rows))
      BY <1>1, <2>1
    <2>4. Tail(p) = [n \in 1..Len(Tail(rows)) |-> Struct(of, Tail(rows)[n])]
      <3>1. Tail(p) = [n \in 1..(Len(p) - 1) |-> p[n + 1]]
        BY <1>1, <2>3
      <3>2. \A n \in 1..(Len(p) - 1) : p[n + 1] = Struct(of, Tail(rows)[n])
        BY <1>1, <2>1
      <3> QED
        BY <1>1, <2>1, <3>1, <3>2
    <2>5. InARow(p) = Both(Head(p), InARow(Tail(p)))
      BY <1>1, <2>3, RowHead
    <2> HIDE DEF p
    <2> QED
      BY <1>1, <2>1, <2>2, <2>3, <2>4, <2>5, Zenon DEF Structs
  <1> QED
    BY <1>2, <1>3

\* Fields that have a text.
LEMMA TextType ==
  ASSUME NEW fs, NEW xs, Voiced(fs, xs)
  PROVE  /\ [n \in 1..Len(xs) |-> Speak(fs[n], xs[n])] \in Seq(Said)
         /\ Len([n \in 1..Len(xs) |-> Speak(fs[n], xs[n])]) = Len(xs)
         /\ Text(fs, xs) \in Said
         /\ xs = <<>> => Text(fs, xs) = Nothing
  <1> DEFINE p == [n \in 1..Len(xs) |-> Speak(fs[n], xs[n])]
  <1>1. p \in Seq(Said) /\ Len(p) = Len(xs)
    BY DEF Voiced
  <1>2. xs = <<>> => p = <<>>
    OBVIOUS
  <1>3. Text(fs, xs) = InARow(p)
    BY Zenon DEF Text
  <1> HIDE DEF p
  <1> QED
    BY <1>1, <1>2, <1>3, RowFew DEF p

\* The first field, and the others.
LEMMA TextHead ==
  ASSUME NEW fs, NEW xs, Voiced(fs, xs), xs # <<>>
  PROVE  /\ Speak(Head(fs), Head(xs)) \in Said
         /\ Voiced(Tail(fs), Tail(xs))
         /\ Text(fs, xs) = Both(Speak(Head(fs), Head(xs)), Text(Tail(fs), Tail(xs)))
  <1> DEFINE p == [n \in 1..Len(xs) |-> Speak(fs[n], xs[n])]
  <1>1. Text(fs, xs) = InARow(p) /\ p \in Seq(Said) /\ Len(p) = Len(xs)
    BY TextType DEF Text
  <1>2. /\ fs \in Layout /\ xs \in Seq(Content) /\ Len(xs) <= Len(fs)
        /\ \A n \in 1..Len(xs) : Speak(fs[n], xs[n]) \in Said
    BY DEF Voiced
  <1>3. /\ Head(xs) = xs[1] /\ Len(Tail(xs)) = Len(xs) - 1 /\ Len(xs) \in Nat
        /\ Len(xs) >= 1 /\ Tail(xs) \in Seq(Content)
        /\ \A n \in 1..Len(Tail(xs)) : Tail(xs)[n] = xs[n + 1]
    BY <1>2
  <1>4. /\ Head(fs) = fs[1] /\ Len(Tail(fs)) = Len(fs) - 1 /\ Tail(fs) \in Layout
        /\ Len(fs) \in Nat
        /\ \A n \in 1..Len(Tail(fs)) : Tail(fs)[n] = fs[n + 1]
    BY <1>2, <1>3 DEF Layout
  <1>5. \A n \in 1..Len(Tail(xs)) :
          /\ Tail(xs)[n] = xs[n + 1] /\ Tail(fs)[n] = fs[n + 1]
          /\ Speak(fs[n + 1], xs[n + 1]) \in Said
    BY <1>2, <1>3, <1>4
  <1>6. Voiced(Tail(fs), Tail(xs))
    BY <1>2, <1>3, <1>4, <1>5 DEF Voiced
  <1>7. p # <<>> /\ Head(p) = Speak(Head(fs), Head(xs))
    BY <1>1, <1>3, <1>4
  <1>8. Tail(p) = [n \in 1..Len(Tail(xs)) |-> Speak(Tail(fs)[n], Tail(xs)[n])]
    <2>1. Tail(p) = [n \in 1..(Len(p) - 1) |-> p[n + 1]]
      BY <1>1, <1>7
    <2>2. ASSUME NEW n \in 1..(Len(p) - 1)
          PROVE  p[n + 1] = Speak(Tail(fs)[n], Tail(xs)[n])
      <3>1. n \in 1..Len(Tail(xs)) /\ n + 1 \in 1..Len(xs)
        BY <1>1, <1>3
      <3>2. p[n + 1] = Speak(fs[n + 1], xs[n + 1])
        BY <3>1
      <3> QED
        BY <1>5, <3>1, <3>2
    <2> QED
      BY <1>1, <1>3, <2>1, <2>2
  <1>9. InARow(p) = Both(Head(p), InARow(Tail(p)))
    BY <1>1, <1>7, RowHead
  <1>10. Head(p) \in Said
    BY <1>1, <1>7
  <1> HIDE DEF p
  <1> QED
    BY <1>1, <1>6, <1>7, <1>8, <1>9, <1>10, Zenon DEF Text

\* Fields after fields.
LEMMA TextJoin ==
  ASSUME NEW a, NEW xa, Voiced(a, xa), Len(xa) = Len(a), NEW b, NEW xb, Voiced(b, xb)
  PROVE  /\ Voiced(a \o b, xa \o xb)
         /\ Text(a \o b, xa \o xb) = Both(Text(a, xa), Text(b, xb))
  <1> DEFINE p == [n \in 1..Len(xa) |-> Speak(a[n], xa[n])]
             q == [n \in 1..Len(xb) |-> Speak(b[n], xb[n])]
             ab == a \o b
             x == xa \o xb
             r == [n \in 1..Len(x) |-> Speak(ab[n], x[n])]
  <1>1. p \in Seq(Said) /\ Len(p) = Len(xa) /\ q \in Seq(Said) /\ Len(q) = Len(xb)
    BY TextType
  <1>2. /\ a \in Layout /\ xa \in Seq(Content) /\ b \in Layout /\ xb \in Seq(Content)
        /\ Len(xb) <= Len(b) /\ Len(a) \in Nat /\ Len(b) \in Nat /\ Len(xb) \in Nat
    BY DEF Voiced, Layout
  <1>3. /\ ab \in Layout /\ Len(ab) = Len(a) + Len(b)
        /\ \A n \in 1..Len(a) : ab[n] = a[n]
        /\ \A n \in 1..Len(b) : ab[Len(a) + n] = b[n]
    BY <1>2 DEF Layout
  <1>4. /\ x \in Seq(Content) /\ Len(x) = Len(a) + Len(xb)
        /\ \A n \in 1..Len(a) : x[n] = xa[n]
        /\ \A n \in 1..Len(xb) : x[Len(a) + n] = xb[n]
    BY <1>2
  <1> HIDE DEF ab, x
  <1>5. /\ \A n \in 1..Len(a) : Speak(ab[n], x[n]) = p[n]
        /\ \A n \in 1..Len(xb) : Speak(ab[Len(a) + n], x[Len(a) + n]) = q[n]
    BY <1>2, <1>3, <1>4
  <1>6. /\ \A n \in 1..Len(a) : p[n] \in Said
        /\ \A n \in 1..Len(xb) : q[n] \in Said
    BY <1>1
  <1> HIDE DEF p, q
  <1>7. \A n \in 1..Len(x) : n \in 1..Len(a) \/ (n - Len(a) \in 1..Len(xb)
                                                 /\ Len(a) + (n - Len(a)) = n)
    BY <1>2, <1>4
  <1>8. \A n \in 1..Len(x) : Speak(ab[n], x[n]) \in Said
    BY <1>5, <1>6, <1>7
  <1>9. Voiced(ab, x)
    BY <1>2, <1>3, <1>4, <1>8 DEF Voiced
  <1>10. r = p \o q
    <2>1. /\ p \o q \in Seq(Said) /\ Len(p \o q) = Len(a) + Len(xb)
          /\ \A n \in 1..Len(a) : (p \o q)[n] = p[n]
          /\ \A n \in 1..Len(xb) : (p \o q)[Len(a) + n] = q[n]
      BY <1>1
    <2>2. \A n \in 1..Len(x) : Speak(ab[n], x[n]) = (p \o q)[n]
      BY <1>5, <1>7, <2>1
    <2>3. PICK s \in Seq(Said) : s = p \o q
      BY <2>1
    <2>4. s = [n \in 1..Len(x) |-> s[n]]
      <3>1. Len(s) = Len(x)
        BY <1>4, <2>1, <2>3
      <3> QED
        BY <3>1
    <2> QED
      BY <2>2, <2>3, <2>4
  <1>11. InARow(p \o q) = Both(InARow(p), InARow(q))
    BY <1>1, RowJoin
  <1>12. Text(ab, x) = InARow(r) /\ Text(a, xa) = InARow(p) /\ Text(b, xb) = InARow(q)
    BY Zenon DEF Text, p, q
  <1> QED
    BY <1>9, <1>10, <1>11, <1>12, Zenon DEF ab, x

\* A row, as the contents of the fields of its structure.
Spread(row) == [n \in 1..Len(row) |-> << << row[n] >> >>]

\* The text of the fields of a structure is what the structure says.
LEMMA SpreadText ==
  ASSUME NEW of \in Seq(Elem), NEW row \in Seq(Seq(Octet)), FitsStruct(of, row)
  PROVE  /\ Voiced(of, Spread(row)) /\ Len(Spread(row)) = Len(of)
         /\ Text(of, Spread(row)) = Struct(of, row)
  <1>1. Len(row) = Len(of) /\ Len(row) \in Nat
    BY DEF FitsStruct
  <1>2. Len(Spread(row)) = Len(row)
        /\ \A n \in 1..Len(row) : Spread(row)[n] = << << row[n] >> >>
    BY <1>1 DEF Spread
  <1>3. ASSUME NEW n \in 1..Len(row)
        PROVE  /\ Spread(row)[n] \in Content
               /\ Speak(of[n], Spread(row)[n]) = Plain(of[n], row[n])
    <2>1. of[n] \in Elem /\ row[n] \in Seq(Octet)
      BY <1>1
    <2>2. PICK y \in Content : y = << << row[n] >> >>
      <3>1. PICK u \in Seq(Octet) : u = row[n]
        BY <2>1
      <3>2. << << u >> >> \in Content
        BY DEF Content
      <3> QED
        BY <3>1, <3>2
    <2>3. y[1][1] = row[n]
      BY <2>2
    <2>4. of[n].k \notin {"times", "close", "list", "buffer", "first"}
      BY <2>1, ElemKinds
    <2>5. Speak(of[n], y) = Plain(of[n], y[1][1])
      BY <2>4 DEF Speak, Spoken
    <2> QED
      BY <1>2, <2>2, <2>3, <2>5
  <1>4. Spread(row) \in Seq(Content)
    BY <1>1, <1>3 DEF Spread
  <1>5. [n \in 1..Len(Spread(row)) |-> Speak(of[n], Spread(row)[n])]
          = [n \in 1..Len(row) |-> Plain(of[n], row[n])]
    BY <1>2, <1>3
  <1>6. \A n \in 1..Len(row) : Plain(of[n], row[n]) \in Said
    BY StructType, <1>1
  <1>7. of \in Layout
    BY Constructors DEF Layout
  <1>8. Voiced(of, Spread(row))
    BY <1>1, <1>2, <1>3, <1>4, <1>6, <1>7 DEF Voiced
  <1> QED
    BY <1>1, <1>2, <1>5, <1>8, Zenon DEF Text, Struct
-----------------------------------------------------------------------------
(* What may still be said.                                                 *)

\* A field of a parser at work may say this.
Suits(f, rows, values) ==
  IF f.k = "times" THEN Len(rows) = f.n /\ FitsStructs(f.of, rows)
                   ELSE Fits(f, rows, values)

\* Or what it says is refused.
Fate(f, rows, values, refused) ==
  IF refused THEN Refuses(f, rows, values) ELSE Suits(f, rows, values)

\* Fields outside of a buffer: only the last may test the first value.
Outward(fs) ==
  /\ fs \in Layout
  /\ \A n \in 1..Len(fs) : /\ fs[n].k # "close"
                           /\ fs[n].k = "first" => n = Len(fs)

\* The fields may say this: all of them, or, when the reply is one that the
\* parser refuses, those up to the field that it refuses.
Matches(fs, xs, values, refusal) ==
  /\ Outward(fs) /\ xs \in Seq(Content)
  /\ Len(xs) <= Len(fs)
  /\ refusal => Len(xs) >= 1
  /\ ~refusal => Len(xs) = Len(fs)
  /\ \A n \in 1..Len(xs) : Fate(fs[n], xs[n], values, refusal /\ n = Len(xs))

\* The first of a sequence, and the others.
LEMMA Unjoin ==
  ASSUME NEW S, NEW s \in Seq(S), s # <<>>
  PROVE  /\ Head(s) \in S /\ Head(s) = s[1] /\ Tail(s) \in Seq(S)
         /\ Len(s) \in Nat /\ Len(Tail(s)) \in Nat /\ Len(s) = Len(Tail(s)) + 1
         /\ \A n \in 1..Len(Tail(s)) : Tail(s)[n] = s[n + 1]
         /\ Len(s) = 1 => Tail(s) = <<>>
  <1>1. /\ Head(s) \in S /\ Head(s) = s[1] /\ Tail(s) \in Seq(S)
        /\ Len(s) \in Nat /\ Len(Tail(s)) \in Nat /\ Len(s) = Len(Tail(s)) + 1
        /\ \A n \in 1..Len(Tail(s)) : Tail(s)[n] = s[n + 1]
    OBVIOUS
  <1>2. ASSUME Len(s) = 1 PROVE Tail(s) = <<>>
    <2>1. PICK t \in Seq(S), n \in Nat : t = Tail(s) /\ n = Len(t) /\ Len(s) = n + 1
      BY <1>1, Zenon
    <2>2. n = 0
      BY <1>2, <2>1
    <2>3. t = <<>>
      BY <2>1, <2>2
    <2> QED
      BY <2>1, <2>3, Zenon
  <1> QED
    BY <1>1, <1>2

\* One sequence after another.
LEMMA Joined ==
  ASSUME NEW S, NEW s \in Seq(S), NEW t \in Seq(S)
  PROVE  /\ s \o t \in Seq(S) /\ Len(s \o t) = Len(s) + Len(t)
         /\ Len(s) \in Nat /\ Len(t) \in Nat
         /\ \A n \in 1..Len(s) : (s \o t)[n] = s[n]
         /\ \A n \in 1..Len(t) : (s \o t)[Len(s) + n] = t[n]
  OBVIOUS

\* What a field may say, or what of it is refused, is something said.
LEMMA SpeakType ==
  ASSUME NEW f \in Field, f.k # "close", NEW rows \in Content, NEW values,
         Suits(f, rows, values) \/ Refuses(f, rows, values)
  PROVE  Speak(f, rows) \in Said
  <1>1. CASE f.k = "times"
    <2>1. ~Refuses(f, rows, values)
      BY <1>1 DEF Refuses
    <2>2. FitsStructs(f.of, rows) /\ f.of \in Seq(Elem)
      BY <1>1, <2>1, FieldKinds DEF Suits
    <2>3. Structs(f.of, rows) \in Said
      BY <2>2, StructsType
    <2> QED
      BY <1>1, <2>3 DEF Speak
  <1>2. CASE f.k = "list"
    <2>1. ~Refuses(f, rows, values)
      BY <1>2 DEF Refuses
    <2>2. FitsStructs(f.of, rows) /\ f.of \in Seq(Elem)
      BY <1>2, <2>1, FieldKinds DEF Suits, Fits
    <2>3. Structs(f.of, rows) \in Said
      BY <2>2, StructsType
    <2>4. Len(rows) \in Nat
      BY DEF Content
    <2>5. Bare(PutU32(Len(rows))) \in Said
      BY <2>4, CountOctets, BareType
    <2>6. Speak(f, rows) = Both(Bare(PutU32(Len(rows))), Structs(f.of, rows))
      BY <1>2 DEF Speak, Spoken
    <2> QED
      BY <2>3, <2>5, <2>6, Joining
  <1>3. CASE f.k = "buffer"
    <2>1. ~Refuses(f, rows, values)
      BY <1>3 DEF Refuses
    <2>2. FitsStructs(f.of, rows) /\ f.of \in Seq(Elem)
      BY <1>3, <2>1, FieldKinds DEF Suits, Fits
    <2>3. Structs(f.of, rows) \in Said
      BY <2>2, StructsType
    <2>4. Len(Structs(f.of, rows).octets) \in Nat
      BY <2>3 DEF Said
    <2>5. Bare(PutU16(Len(Structs(f.of, rows).octets))) \in Said
      BY <2>4, SizeOctets, BareType
    <2>6. Speak(f, rows) = Both(Bare(PutU16(Len(Structs(f.of, rows).octets))),
                                Structs(f.of, rows))
      BY <1>3 DEF Speak, Spoken
    <2> QED
      BY <2>3, <2>5, <2>6, Joining
  <1>4. CASE f.k = "first"
    BY <1>4, Joining DEF Speak, Spoken
  <1>5. CASE f.k \notin {"times", "list", "buffer", "first"}
    <2>1. f \in Elem
      BY <1>5, FieldKinds
    <2>2. Len(rows) = 1 /\ Len(rows[1]) = 1
          /\ (FitsPlain(f, rows[1][1]) \/ f.k = "expect")
      BY <1>5 DEF Suits, Fits, Refuses
    <2>3. rows[1] \in Seq(Seq(Octet))
      BY <2>2 DEF Content
    <2>4. rows[1][1] \in Seq(Octet)
      BY <2>2, <2>3
    <2>5. Plain(f, rows[1][1]) \in Said
      BY <2>1, <2>2, <2>4, PlainType
    <2> QED
      BY <1>5, <2>5 DEF Speak, Spoken
  <1> QED
    BY <1>1, <1>2, <1>3, <1>4, <1>5

\* What may be said has a text.
LEMMA MatchVoiced ==
  ASSUME NEW fs, NEW xs, NEW values, NEW refusal \in BOOLEAN,
         Matches(fs, xs, values, refusal)
  PROVE  Voiced(fs, xs)
  <1>1. /\ fs \in Layout /\ xs \in Seq(Content) /\ Len(xs) <= Len(fs)
        /\ \A n \in 1..Len(fs) : fs[n].k # "close"
    BY DEF Matches, Outward
  <1>2. ASSUME NEW n \in 1..Len(xs)
        PROVE  Speak(fs[n], xs[n]) \in Said
    <2>1. n \in 1..Len(fs) /\ xs[n] \in Content
      BY <1>1 DEF Layout
    <2>2. fs[n] \in Field /\ fs[n].k # "close"
      BY <1>1, <2>1 DEF Layout
    <2>3. Suits(fs[n], xs[n], values) \/ Refuses(fs[n], xs[n], values)
      BY DEF Matches, Fate
    <2> QED
      BY <2>1, <2>2, <2>3, SpeakType
  <1> QED
    BY <1>1, <1>2 DEF Voiced

\* When nothing is left to be read, nothing is left that is said.
LEMMA MatchEnd ==
  ASSUME NEW xs, NEW values, NEW refusal \in BOOLEAN, Matches(<<>>, xs, values, refusal)
  PROVE  ~refusal /\ xs = <<>> /\ Text(<<>>, xs) = Nothing
  <1>1. ~refusal /\ xs = <<>>
    BY DEF Matches
  <1>2. Voiced(<<>>, xs)
    BY MatchVoiced
  <1> QED
    BY <1>1, <1>2, TextType

\* The first of the fields is one the parser refuses, and nothing follows, or it
\* may say what it says, and so may the others.
LEMMA MatchHead ==
  ASSUME NEW fs, NEW xs, NEW values, NEW refusal \in BOOLEAN,
         Matches(fs, xs, values, refusal), fs # <<>>
  PROVE  /\ Head(fs) \in Field /\ Head(fs).k # "close" /\ Tail(fs) \in Layout
         /\ Head(xs) \in Content
         /\ Speak(Head(fs), Head(xs)) \in Said /\ Text(Tail(fs), Tail(xs)) \in Said
         /\ Text(fs, xs) = Both(Speak(Head(fs), Head(xs)), Text(Tail(fs), Tail(xs)))
         /\ Head(fs).k = "first" => Text(Tail(fs), Tail(xs)) = Nothing
         /\ \/ /\ refusal /\ Refuses(Head(fs), Head(xs), values)
               /\ Text(Tail(fs), Tail(xs)) = Nothing
            \/ /\ Suits(Head(fs), Head(xs), values)
               /\ Matches(Tail(fs), Tail(xs), values, refusal)
  <1>1. fs \in Layout /\ xs \in Seq(Content)
    BY DEF Matches, Outward
  <1>2. PICK l, m, ft, xt : l = Len(fs) /\ m = Len(xs) /\ ft = Tail(fs) /\ xt = Tail(xs)
    OBVIOUS
  <1>3. m <= l /\ (refusal => m >= 1) /\ (~refusal => m = l)
    BY <1>2, Zenon DEF Matches
  <1>4. \A n \in 1..m : Fate(fs[n], xs[n], values, refusal /\ n = m)
    BY <1>2, Zenon DEF Matches
  <1>5. \A n \in 1..l : fs[n].k # "close" /\ (fs[n].k = "first" => n = l)
    BY <1>2, Zenon DEF Matches, Outward
  <1>6. /\ Head(fs) \in Field /\ Head(fs) = fs[1] /\ ft \in Layout
        /\ l \in Nat /\ Len(ft) \in Nat /\ l = Len(ft) + 1
        /\ \A n \in 1..Len(ft) : ft[n] = fs[n + 1]
    BY <1>1, <1>2, Unjoin, Zenon DEF Layout
  <1>7. m \in Nat /\ xs # <<>>
    <2>1. m \in Nat /\ (m = 0 <=> xs = <<>>)
      BY <1>1, <1>2
    <2>2. m >= 1
      BY <1>3, <1>6, <2>1
    <2> QED
      BY <2>1, <2>2
  <1>8. /\ Head(xs) \in Content /\ Head(xs) = xs[1] /\ xt \in Seq(Content)
        /\ Len(xt) \in Nat /\ m = Len(xt) + 1
        /\ \A n \in 1..Len(xt) : xt[n] = xs[n + 1]
        /\ m = 1 => xt = <<>>
    BY <1>1, <1>2, <1>7, Unjoin, Zenon
  <1>9. Voiced(fs, xs)
    BY MatchVoiced
  <1>10. /\ Speak(Head(fs), Head(xs)) \in Said /\ Voiced(ft, xt)
         /\ Text(fs, xs) = Both(Speak(Head(fs), Head(xs)), Text(ft, xt))
    BY <1>2, <1>7, <1>9, TextHead, Zenon
  <1>11. Text(ft, xt) \in Said /\ (m = 1 => Text(ft, xt) = Nothing)
    BY <1>8, <1>10, TextType, Zenon
  <1>12. PICK p \in Nat, q \in Nat : p = Len(ft) /\ q = Len(xt)
    BY <1>6, <1>8, Zenon
  <1>13. l = p + 1 /\ m = q + 1 /\ (\A n \in 1..p : n + 1 \in 1..l)
         /\ \A n \in 1..q : n + 1 \in 1..m /\ n \in 1..p /\ (n = q <=> n + 1 = m)
    <2>1. l = p + 1 /\ m = q + 1
      BY <1>6, <1>8, <1>12, Zenon
    <2> QED
      BY <1>3, <1>12, <2>1
  <1>14. Head(fs).k # "close"
    <2>1. 1 \in 1..l
      BY <1>12, <1>13
    <2> QED
      BY <1>5, <1>6, <2>1, Zenon
  <1>15. Head(fs).k = "first" => Text(ft, xt) = Nothing
    <2> SUFFICES ASSUME Head(fs).k = "first" PROVE m = 1
      BY <1>11
    <2>1. 1 \in 1..l
      BY <1>12, <1>13
    <2>2. l = 1
      BY <1>5, <1>6, <2>1, Zenon
    <2> QED
      BY <1>3, <1>12, <1>13, <2>2
  <1>16. 1 \in 1..m
    BY <1>12, <1>13
  <1>17. CASE refusal /\ m = 1
    <2>1. Refuses(fs[1], xs[1], values)
      BY <1>4, <1>16, <1>17, Zenon DEF Fate
    <2> QED
      BY <1>2, <1>6, <1>8, <1>10, <1>11, <1>14, <1>15, <1>17, <2>1, Zenon
  <1>18. CASE ~(refusal /\ m = 1)
    <2>2. Suits(fs[1], xs[1], values)
      BY <1>4, <1>16, <1>18, Zenon DEF Fate
    <2>3. Outward(ft)
      <3>1. ASSUME NEW n \in 1..p
            PROVE  ft[n].k # "close" /\ (ft[n].k = "first" => n = p)
        <4>1. n + 1 \in 1..l /\ (n + 1 = l => n = p)
          BY <1>12, <1>13
        <4>2. ft[n] = fs[n + 1]
          BY <1>6, <1>12, Zenon
        <4> QED
          BY <1>5, <4>1, <4>2, Zenon
      <3> QED
        BY <1>6, <1>12, <3>1, Zenon DEF Outward
    <2>4. ASSUME NEW n \in 1..q
          PROVE  Fate(ft[n], xt[n], values, refusal /\ n = q)
      <3>1. ft[n] = fs[n + 1] /\ xt[n] = xs[n + 1]
        BY <1>6, <1>8, <1>12, <1>13, Zenon
      <3>2. Fate(fs[n + 1], xs[n + 1], values, refusal /\ n + 1 = m)
        BY <1>4, <1>13, Zenon
      <3> QED
        BY <1>13, <3>1, <3>2, Zenon DEF Fate
    <2>5. q <= p /\ (refusal => q >= 1) /\ (~refusal => q = p)
      BY <1>3, <1>12, <1>13, <1>18
    <2>6. Matches(ft, xt, values, refusal)
      BY <1>8, <1>12, <2>3, <2>4, <2>5, Zenon DEF Matches
    <2> QED
      BY <1>2, <1>6, <1>8, <1>10, <1>11, <1>14, <1>15, <2>2, <2>6, Zenon
  <1> QED
    BY <1>17, <1>18

\* Fields that may say what they say, before such fields.
LEMMA MatchJoin ==
  ASSUME NEW a \in Layout, NEW xa \in Seq(Content), Len(xa) = Len(a), NEW values,
         \A n \in 1..Len(a) : /\ a[n].k \notin {"close", "first"}
                              /\ Suits(a[n], xa[n], values),
         NEW refusal \in BOOLEAN, NEW b, NEW xb, Matches(b, xb, values, refusal)
  PROVE  Matches(a \o b, xa \o xb, values, refusal)
  <1>1. b \in Layout /\ xb \in Seq(Content)
    BY DEF Matches, Outward
  <1>2. PICK l, m, h, ab, x :
          l = Len(b) /\ m = Len(xb) /\ h = Len(a) /\ ab = a \o b /\ x = xa \o xb
    OBVIOUS
  <1>3. m <= l /\ (refusal => m >= 1) /\ (~refusal => m = l)
    BY <1>2, Zenon DEF Matches
  <1>4. \A n \in 1..m : Fate(b[n], xb[n], values, refusal /\ n = m)
    BY <1>2, Zenon DEF Matches
  <1>5. \A n \in 1..l : b[n].k # "close" /\ (b[n].k = "first" => n = l)
    BY <1>2, Zenon DEF Matches, Outward
  <1>6. /\ ab \in Layout /\ Len(ab) = h + l /\ h \in Nat /\ l \in Nat
        /\ \A n \in 1..h : ab[n] = a[n]
        /\ \A n \in 1..l : ab[h + n] = b[n]
    <2>1. a \in Seq(Field) /\ b \in Seq(Field)
      BY <1>1 DEF Layout
    <2>2. /\ a \o b \in Seq(Field) /\ Len(a \o b) = Len(a) + Len(b)
          /\ Len(a) \in Nat /\ Len(b) \in Nat
          /\ \A n \in 1..Len(a) : (a \o b)[n] = a[n]
          /\ \A n \in 1..Len(b) : (a \o b)[Len(a) + n] = b[n]
      BY <2>1, Joined
    <2> QED
      BY <1>2, <2>2, Zenon DEF Layout
  <1>7. /\ x \in Seq(Content) /\ Len(x) = h + m /\ m \in Nat
        /\ \A n \in 1..h : x[n] = xa[n]
        /\ \A n \in 1..m : x[h + n] = xb[n]
    <2>1. /\ xa \o xb \in Seq(Content) /\ Len(xa \o xb) = Len(xa) + Len(xb)
          /\ Len(xb) \in Nat
          /\ \A n \in 1..Len(xa) : (xa \o xb)[n] = xa[n]
          /\ \A n \in 1..Len(xb) : (xa \o xb)[Len(xa) + n] = xb[n]
      <3>1. xa \in Seq(Content) /\ xb \in Seq(Content)
        BY <1>1
      <3> QED
        BY ONLY <3>1, Joined
    <2> QED
      BY <1>2, <2>1, Zenon
  <1>8. \A n \in 1..h : /\ a[n].k \notin {"close", "first"}
                        /\ Suits(a[n], xa[n], values)
    BY <1>2, Zenon
  <1>9. Outward(ab)
    <2>1. ASSUME NEW n \in 1..(h + l)
          PROVE  ab[n].k # "close" /\ (ab[n].k = "first" => n = h + l)
      <3>1. CASE n \in 1..h
        BY <1>6, <1>8, <3>1, Zenon
      <3>2. CASE n \notin 1..h
        <4>1. PICK i \in 1..l : n = h + i /\ (i = l => n = h + l)
          <5>1. n - h \in 1..l /\ n = h + (n - h) /\ (n - h = l => n = h + l)
            BY <1>6, <3>2
          <5> QED
            BY <5>1
        <4>2. ab[n] = b[i]
          BY <1>6, <4>1, Zenon
        <4> QED
          BY <1>5, <4>1, <4>2, Zenon
      <3> QED
        BY <3>1, <3>2
    <2> QED
      BY <1>6, <2>1, Zenon DEF Outward
  <1>10. ASSUME NEW n \in 1..(h + m)
         PROVE  Fate(ab[n], x[n], values, refusal /\ n = h + m)
    <2>1. CASE n \in 1..h
      <3>1. ~(refusal /\ n = h + m)
        BY <1>3, <1>6, <1>7, <2>1
      <3>2. ab[n] = a[n] /\ x[n] = xa[n] /\ Suits(a[n], xa[n], values)
        BY <1>6, <1>7, <1>8, <2>1, Zenon
      <3> QED
        BY <3>1, <3>2, Zenon DEF Fate
    <2>2. CASE n \notin 1..h
      <3>1. PICK i \in 1..m : n = h + i /\ i \in 1..l /\ (n = h + m <=> i = m)
        <4>1. /\ n - h \in 1..m /\ n = h + (n - h) /\ n - h \in 1..l
              /\ n = h + m <=> n - h = m
          BY <1>3, <1>6, <1>7, <2>2
        <4> QED
          BY <4>1
      <3>2. ab[n] = b[i] /\ x[n] = xb[i]
        BY <1>6, <1>7, <3>1, Zenon
      <3>3. Fate(b[i], xb[i], values, refusal /\ i = m)
        BY <1>4, <3>1, Zenon
      <3> QED
        BY <3>1, <3>2, <3>3, Zenon DEF Fate
    <2> QED
      BY <2>1, <2>2
  <1>11. /\ h + m <= h + l /\ (refusal => h + m >= 1)
         /\ ~refusal => h + m = h + l
    BY <1>3, <1>6, <1>7
  <1>12. Matches(ab, x, values, refusal)
    BY <1>6, <1>7, <1>9, <1>10, <1>11, Zenon DEF Matches
  <1> QED
    BY <1>2, <1>12, Zenon

\* A structure may be read field by field.
LEMMA MatchSpread ==
  ASSUME NEW of \in Seq(Elem), NEW row \in Seq(Seq(Octet)), FitsStruct(of, row),
         NEW b, NEW xb, NEW values, NEW refusal \in BOOLEAN,
         Matches(b, xb, values, refusal)
  PROVE  Matches(of \o b, Spread(row) \o xb, values, refusal)
  <1>1. /\ Voiced(of, Spread(row)) /\ Len(Spread(row)) = Len(of)
        /\ Text(of, Spread(row)) = Struct(of, row)
    BY SpreadText
  <1>2. of \in Layout /\ Spread(row) \in Seq(Content)
    BY <1>1 DEF Voiced
  <1>3. ASSUME NEW n \in 1..Len(of)
        PROVE  of[n].k \notin {"close", "first"} /\ Suits(of[n], Spread(row)[n], values)
    <2>1. /\ of[n] \in Elem /\ FitsPlain(of[n], row[n])
          /\ Spread(row)[n] = << << row[n] >> >>
      BY <1>1 DEF FitsStruct, Spread
    <2>2. of[n].k \notin {"times", "close", "list", "buffer", "first"}
      BY <2>1, ElemKinds
    <2>3. Len(Spread(row)[n]) = 1 /\ Len(Spread(row)[n][1]) = 1
          /\ Spread(row)[n][1][1] = row[n]
      BY <2>1
    <2> QED
      BY <2>1, <2>2, <2>3 DEF Suits, Fits
  <1> QED
    BY <1>1, <1>2, <1>3, MatchJoin

\* A field that may say what it says, before such fields.
LEMMA MatchCons ==
  ASSUME NEW f \in Field, f.k \notin {"close", "first"}, NEW rows \in Content,
         NEW values, Suits(f, rows, values),
         NEW b, NEW xb, NEW refusal \in BOOLEAN, Matches(b, xb, values, refusal)
  PROVE  /\ Matches(<<f>> \o b, <<rows>> \o xb, values, refusal)
         /\ Text(<<f>> \o b, <<rows>> \o xb) = Both(Speak(f, rows), Text(b, xb))
  <1>1. <<f>> \in Layout /\ <<rows>> \in Seq(Content)
    BY DEF Layout
  <1>2. Matches(<<f>> \o b, <<rows>> \o xb, values, refusal)
    <2>1. \A n \in 1..Len(<<f>>) : /\ <<f>>[n].k \notin {"close", "first"}
                                   /\ Suits(<<f>>[n], <<rows>>[n], values)
      OBVIOUS
    <2>2. Len(<<rows>>) = Len(<<f>>)
      OBVIOUS
    <2> QED
      BY <1>1, <2>1, <2>2, MatchJoin
  <1>3. b \in Layout /\ xb \in Seq(Content)
    BY DEF Matches, Outward
  <1>4. /\ <<f>> \o b # <<>> /\ Head(<<f>> \o b) = f /\ Tail(<<f>> \o b) = b
    BY <1>3 DEF Layout
  <1>5. Head(<<rows>> \o xb) = rows /\ Tail(<<rows>> \o xb) = xb
    BY <1>3
  <1>6. Text(<<f>> \o b, <<rows>> \o xb)
          = Both(Speak(Head(<<f>> \o b), Head(<<rows>> \o xb)),
                 Text(Tail(<<f>> \o b), Tail(<<rows>> \o xb)))
    BY <1>2, <1>4, MatchHead
  <1> QED
    BY <1>2, <1>4, <1>5, <1>6
-----------------------------------------------------------------------------
(* What the octets of a reply say of the next field.                       *)

\* Two sequences agree where they have these octets.
LEMMA Slices ==
  ASSUME NEW s \in Seq(Octet), NEW t \in Seq(Octet),
         NEW i \in Nat, NEW j \in Nat, NEW n \in Nat,
         i + n <= Len(s), j + n <= Len(t), \A k \in 1..n : s[i + k] = t[j + k]
  PROVE  SubSeq(s, i + 1, i + n) = SubSeq(t, j + 1, j + n)
  <1>1. PICK u, v : u = SubSeq(s, i + 1, i + n) /\ v = SubSeq(t, j + 1, j + n)
    OBVIOUS
  <1>2. /\ u \in Seq(Octet) /\ Len(u) = n
        /\ \A k \in 1..n : u[k] = s[i + k]
    <2>1. i + 1 \in 1..(Len(s) + 1) /\ i + n \in i..Len(s) /\ Len(s) \in Nat
      OBVIOUS
    <2> QED
      BY <1>1, <2>1
  <1>3. /\ v \in Seq(Octet) /\ Len(v) = n
        /\ \A k \in 1..n : v[k] = t[j + k]
    <2>1. j + 1 \in 1..(Len(t) + 1) /\ j + n \in j..Len(t) /\ Len(t) \in Nat
      OBVIOUS
    <2> QED
      BY <1>1, <2>1
  <1>4. \A k \in 1..n : u[k] = v[k]
    BY <1>2, <1>3, Zenon
  <1>5. u = v
    BY <1>2, <1>3, <1>4
  <1> QED
    BY <1>1, <1>5

\* What follows in a sequence.
LEMMA Suffix ==
  ASSUME NEW s \in Seq(Octet), NEW t \in Seq(Octet)
  PROVE  /\ SubSeq(s \o t, Len(s) + 1, Len(s) + Len(t)) = t
         /\ SubSeq(t, 1, Len(t)) = t
  <1>1. PICK w, l, m : w = s \o t /\ l = Len(s) /\ m = Len(t)
    OBVIOUS
  <1>2. /\ w \in Seq(Octet) /\ Len(w) = l + m /\ l \in Nat /\ m \in Nat
        /\ \A k \in 1..m : w[l + k] = t[k]
    BY <1>1
  <1>3. SubSeq(t, 1, Len(t)) = t
    <2>1. PICK u : u = SubSeq(t, 1, Len(t))
      OBVIOUS
    <2>2. u \in Seq(Octet) /\ Len(u) = m /\ \A k \in 1..m : u[k] = t[k]
      BY <1>1, <1>2, <2>1
    <2>3. u = t
      BY <1>1, <1>2, <2>2
    <2> QED
      BY <2>1, <2>3
  <1>4. SubSeq(w, l + 1, l + m) = SubSeq(t, 0 + 1, 0 + m)
    <2>1. l + m <= Len(w) /\ 0 + m <= Len(t) /\ \A k \in 1..m : w[l + k] = t[0 + k]
      BY <1>1, <1>2
    <2> QED
      BY <1>2, <2>1, Slices
  <1>5. 0 + 1 = 1 /\ 0 + m = m
    BY <1>2
  <1> QED
    BY <1>1, <1>3, <1>4, <1>5

\* What is known of a reply that a device gives, or of such a reply cut short.
LEMMA Follows ==
  ASSUME NEW i \in Inputs, i.outcome # "any"
  PROVE  /\ Whole(i) \in Said /\ Refusal(i) \in BOOLEAN
         /\ Whole(i) = Text(layout(i), i.said)
         /\ Matches(layout(i), i.said, Whole(i).values, Refusal(i))
         /\ i.octets \in Seq(Octet)
         /\ \A n \in 1..Len(i.octets) :
              n <= Len(Whole(i).octets) => i.octets[n] = Whole(i).octets[n]
         /\ \/ i.outcome = "short" /\ Len(i.octets) < Len(Whole(i).octets)
            \/ /\ i.outcome = IF Refusal(i) THEN "unexpected" ELSE "done"
               /\ Len(Whole(i).octets) <= Len(i.octets)
         /\ i.outcome = "done" => i.values = Whole(i).values /\ i.pcrs = Whole(i).pcrs
  <1>1. Sent(i) /\ i.octets \in Seq(Octet) /\ i.parser \in DOMAIN Parsers
    BY InputsAssumption
  <1>2. Refusal(i) \in BOOLEAN
    BY DEF Refusal
  <1>3. PICK l, m, v, r, o :
          /\ l = layout(i) /\ m = Len(i.said) /\ v = Whole(i).values
          /\ r = Refusal(i) /\ o = Whole(i).octets
    OBVIOUS
  <1>4. /\ l \in Layout
        /\ \A n \in 1..Len(l) : l[n] \in Entry \/ (n = Len(l) /\ l[n].k = "first")
    BY <1>1, <1>3, ParsersRead DEF layout, Written
  <1>5. i.said \in Seq(Content) /\ m \in Nat
    <2>1. i.said \in Seq(Content)
      BY <1>1 DEF Sent, Says, Content
    <2> QED
      BY <1>3, <2>1
  <1>6. IF r THEN m <= Len(l) ELSE m = Len(l)
    BY <1>1, <1>3, Zenon DEF Sent, Says
  <1>7. \A n \in 1..m : \/ n = m /\ r
                        \/ Fits(l[n], i.said[n], v)
    BY <1>1, <1>3, Zenon DEF Sent, Says
  <1>8. r => m > 0 /\ Refuses(l[m], i.said[m], v)
    BY <1>3, Zenon DEF Refusal
  <1>9. Len(l) \in Nat
    BY <1>4 DEF Layout
  <1>10. m <= Len(l)
    BY <1>2, <1>3, <1>5, <1>6, <1>9
  <1>11. \A n \in 1..Len(l) : /\ l[n].k \notin {"close", "times"}
                              /\ l[n].k = "first" => n = Len(l)
    <2>1. ASSUME NEW n \in 1..Len(l), l[n] \in Entry
          PROVE  l[n].k \notin {"close", "times", "first"}
      BY <2>1 DEF Entry, Elem
    <2> QED
      BY <1>4, <2>1
  <1>12. Matches(l, i.said, v, r)
    <2>1. Outward(l)
      BY <1>4, <1>11, Zenon DEF Outward
    <2>2. ASSUME NEW n \in 1..m
          PROVE  Fate(l[n], i.said[n], v, r /\ n = m)
      <3>1. CASE r /\ n = m
        BY <1>8, <3>1, Zenon DEF Fate
      <3>2. CASE ~(r /\ n = m)
        <4>1. n \in 1..Len(l)
          BY <1>5, <1>9, <1>10
        <4>2. l[n].k # "times"
          BY <1>11, <4>1
        <4> QED
          BY <1>7, <3>2, <4>2, Zenon DEF Fate, Suits
      <3> QED
        BY <3>1, <3>2
    <2>3. (r => m >= 1) /\ (~r => m = Len(l))
      BY <1>5, <1>6, <1>8
    <2> QED
      BY <1>3, <1>5, <1>10, <2>1, <2>2, <2>3, Zenon DEF Matches
  <1>13. Whole(i) = Text(l, i.said)
    <2>1. \A n \in 1..m : Speak(l[n], i.said[n]) = Spoken(l[n], i.said[n])
      <3>1. ASSUME NEW n \in 1..m
            PROVE  l[n].k # "times"
        <4>1. n \in 1..Len(l)
          BY <1>5, <1>9, <1>10
        <4> QED
          BY <1>11, <4>1
      <3> QED
        BY <3>1 DEF Speak
    <2>2. [n \in 1..m |-> Spoken(l[n], i.said[n])]
            = [n \in 1..m |-> Speak(l[n], i.said[n])]
      BY <2>1
    <2> QED
      BY <1>3, <2>2, Zenon DEF Whole, Speech, Text
  <1>14. Whole(i) \in Said
    BY <1>2, <1>3, <1>12, <1>13, MatchVoiced, TextType
  <1>15. o \in Seq(Octet)
    BY <1>3, <1>14 DEF Said
  <1>16. ASSUME NEW s \in Seq(Octet), NEW t \in Seq(Octet), IsPrefix(s, t)
         PROVE  /\ Len(s) <= Len(t) /\ \A n \in 1..Len(s) : t[n] = s[n]
                /\ s # t => Len(s) < Len(t)
    <2>1. Len(s) <= Len(t) /\ s = SubSeq(t, 1, Len(s))
      BY <1>16, Suffix, Zenon DEF IsPrefix
    <2>2. \A n \in 1..Len(s) : SubSeq(t, 1, Len(s))[n] = t[n]
      BY <2>1
    <2>3. Len(s) = Len(t) => s = t
      BY <2>1, Suffix, Zenon
    <2>4. Len(s) \in Nat /\ Len(t) \in Nat
      OBVIOUS
    <2> QED
      BY <2>1, <2>2, <2>3, <2>4
  <1>17. CASE i.outcome = "short" /\ IsStrictPrefix(i.octets, o)
    <2>1. IsPrefix(i.octets, o) /\ i.octets # o
      BY <1>17, Zenon DEF IsStrictPrefix
    <2>2. Len(i.octets) < Len(o) /\ \A n \in 1..Len(i.octets) : o[n] = i.octets[n]
      BY <1>1, <1>15, <1>16, <2>1, Zenon
    <2> QED
      BY <1>1, <1>2, <1>3, <1>12, <1>13, <1>14, <1>17, <2>2, Zenon
  <1>18. CASE /\ i.outcome = IF Refusal(i) THEN "unexpected" ELSE "done"
              /\ IsPrefix(o, i.octets)
    <2>1. Len(o) <= Len(i.octets) /\ \A n \in 1..Len(o) : i.octets[n] = o[n]
      BY <1>1, <1>15, <1>16, <1>18, Zenon
    <2>2. \A n \in 1..Len(i.octets) : n <= Len(o) => n \in 1..Len(o)
      BY <1>1, <1>15
    <2>3. i.outcome = "done" => i.values = Whole(i).values /\ i.pcrs = Whole(i).pcrs
      BY <1>1, Zenon DEF Sent
    <2> QED
      BY <1>1, <1>2, <1>3, <1>12, <1>13, <1>14, <1>18, <2>1, <2>2, <2>3, Zenon
  <1> QED
    BY <1>1, <1>3, <1>17, <1>18, Zenon DEF Sent

\* The device has said pre, which has been read, says h next, and then t.
Facing(pre, h, t) ==
  /\ input \in Inputs /\ input.outcome # "any"
  /\ pre \in Said /\ h \in Said /\ t \in Said
  /\ Len(pre.octets) = off
  /\ Whole(input) = Both(pre, Both(h, t))

\* These octets come next, as far as there are any.
Standing(w) ==
  \A n \in 1..Len(w) : off + n <= Len(input.octets) => input.octets[off + n] = w[n]

\* What comes next is what the device says next.
LEMMA Stands ==
  ASSUME NEW pre, NEW h, NEW t, Facing(pre, h, t)
  PROVE  /\ Standing(h.octets) /\ h.octets \in Seq(Octet) /\ t.octets \in Seq(Octet)
         /\ off \in Nat
         /\ Len(Whole(input).octets) = off + Len(h.octets) + Len(t.octets)
  <1>1. PICK p, u, v : p = pre.octets /\ u = h.octets /\ v = t.octets
    OBVIOUS
  <1>2. /\ p \in Seq(Octet) /\ u \in Seq(Octet) /\ v \in Seq(Octet) /\ Len(p) = off
        /\ Whole(input).octets = p \o (u \o v)
    <2>1. pre \in Said /\ h \in Said /\ t \in Said /\ Len(pre.octets) = off
          /\ Whole(input) = Both(pre, Both(h, t))
      BY Zenon DEF Facing
    <2>2. /\ pre.octets \in Seq(Octet) /\ h.octets \in Seq(Octet)
          /\ t.octets \in Seq(Octet)
      BY <2>1 DEF Said
    <2>3. /\ Both(h, t).octets = h.octets \o t.octets
          /\ Both(pre, Both(h, t)).octets = pre.octets \o Both(h, t).octets
      BY DEF Both
    <2>4. Whole(input).octets = pre.octets \o (h.octets \o t.octets)
      BY <2>1, <2>3, Zenon
    <2> QED
      BY <1>1, <2>1, <2>2, <2>4, Zenon
  <1>3. PICK w : w = p \o (u \o v)
    OBVIOUS
  <1>4. /\ w \in Seq(Octet) /\ Len(w) = off + Len(u) + Len(v) /\ off \in Nat
        /\ \A n \in 1..Len(u) : w[off + n] = u[n]
    <2>1. /\ u \o v \in Seq(Octet) /\ Len(u \o v) = Len(u) + Len(v)
          /\ \A n \in 1..Len(u) : (u \o v)[n] = u[n]
      BY <1>2
    <2>2. PICK x \in Seq(Octet) : x = u \o v
      BY <2>1
    <2>3. /\ w \in Seq(Octet) /\ Len(w) = Len(p) + Len(x) /\ Len(p) \in Nat
          /\ \A n \in 1..Len(x) : w[Len(p) + n] = x[n]
      <3>1. p \in Seq(Octet) /\ w = p \o x
        BY <1>2, <1>3, <2>2
      <3> QED
        BY <2>2, <3>1, Joined
    <2>4. \A n \in 1..Len(u) : n \in 1..Len(x)
      BY <1>2, <2>1, <2>2
    <2>5. Len(u) \in Nat /\ Len(v) \in Nat
      BY <1>2
    <2> QED
      BY <1>2, <2>1, <2>2, <2>3, <2>4, <2>5
  <1>5. \A n \in 1..Len(input.octets) :
          n <= Len(w) => input.octets[n] = w[n]
    BY <1>2, <1>3, Follows, Zenon DEF Facing
  <1>6. input.octets \in Seq(Octet)
    BY Follows DEF Facing
  <1>7. Standing(u)
    <2> SUFFICES ASSUME NEW n \in 1..Len(u), off + n <= Len(input.octets)
                 PROVE  input.octets[off + n] = u[n]
      BY DEF Standing
    <2>1. off + n \in 1..Len(input.octets) /\ off + n <= Len(w)
      <3>1. Len(u) \in Nat /\ Len(v) \in Nat /\ Len(input.octets) \in Nat
        BY <1>2, <1>6
      <3> QED
        BY <1>4, <3>1
    <2> QED
      BY <1>4, <1>5, <2>1, Zenon
  <1> QED
    BY <1>1, <1>2, <1>3, <1>4, <1>7, Zenon

\* What is read where these octets come next.
LEMMA ReadsAs ==
  ASSUME IInv, NEW w \in Seq(Octet), Standing(w), NEW m \in Nat, NEW n \in Nat,
         m + n <= Len(w), off + (m + n) <= lim
  PROVE  /\ Octets(off + m, n) = SubSeq(w, m + 1, m + n)
         /\ n > 0 => U8(off + m) = w[m + 1]
  <1>1. /\ off \in Nat /\ input.octets \in Seq(Octet) /\ lim \in Nat
        /\ lim <= Len(input.octets) /\ Len(w) \in Nat /\ Len(input.octets) \in Nat
    BY DEF IInv, TypeOK, InBounds
  <1>2. ASSUME NEW k \in 1..n
        PROVE  input.octets[(off + m) + k] = w[m + k]
    <2>1. m + k \in 1..Len(w) /\ off + (m + k) <= Len(input.octets)
          /\ (off + m) + k = off + (m + k)
      BY <1>1
    <2> QED
      BY <2>1 DEF Standing
  <1>3. SubSeq(input.octets, (off + m) + 1, (off + m) + n) = SubSeq(w, m + 1, m + n)
    <2>1. off + m \in Nat /\ (off + m) + n <= Len(input.octets)
      BY <1>1
    <2> QED
      BY <1>1, <1>2, <2>1, Slices
  <1>4. n > 0 => 1 \in 1..n
    OBVIOUS
  <1>5. n > 0 => U8(off + m) = w[m + 1]
    BY <1>2, <1>4 DEF U8
  <1> QED
    BY <1>3, <1>5 DEF Octets

\* A size is read as the device has written it.
LEMMA Sized ==
  ASSUME IInv, NEW n \in Nat, n < MaxSize, NEW c \in Seq(Octet),
         Standing(PutU16(n) \o c), Has(2)
  PROVE  U16(off) = n
  <1>1. PICK p : p = PutU16(n)
    OBVIOUS
  <1>2. /\ p \in Seq(Octet) /\ Len(p) = 2 /\ 256 * p[1] + p[2] = n
    BY <1>1, SizeOctets
  <1>3. PICK w : w = p \o c
    OBVIOUS
  <1>4. /\ w \in Seq(Octet) /\ Len(w) >= 2 /\ w[1] = p[1] /\ w[2] = p[2]
        /\ Standing(w)
    <2>1. /\ w \in Seq(Octet) /\ Len(w) = 2 + Len(c) /\ Len(c) \in Nat
          /\ \A i \in 1..2 : w[i] = p[i]
      <3>1. /\ p \o c \in Seq(Octet) /\ Len(p \o c) = Len(p) + Len(c) /\ Len(c) \in Nat
            /\ \A i \in 1..Len(p) : (p \o c)[i] = p[i]
        BY <1>2, Joined
      <3> QED
        BY <1>2, <1>3, <3>1, Zenon
    <2> QED
      BY <1>1, <1>3, <2>1
  <1>5. off \in Nat /\ lim \in Nat /\ Len(w) \in Nat /\ off + 2 <= lim
    BY <1>4 DEF IInv, TypeOK, Has
  <1>6. U8(off + 0) = w[0 + 1]
    <2>1. 0 + 1 <= Len(w) /\ off + (0 + 1) <= lim
      BY <1>4, <1>5
    <2>2. 0 \in Nat /\ 1 \in Nat /\ 1 > 0
      OBVIOUS
    <2> QED
      BY <1>4, <2>1, <2>2, ReadsAs
  <1>7. U8(off + 1) = w[1 + 1]
    <2>1. 1 + 1 <= Len(w) /\ off + (1 + 1) <= lim
      BY <1>4, <1>5
    <2>2. 1 \in Nat /\ 1 > 0
      OBVIOUS
    <2> QED
      BY <1>4, <2>1, <2>2, ReadsAs
  <1>8. off + 0 = off /\ 0 + 1 = 1 /\ 1 + 1 = 2
    BY <1>5
  <1>9. U16(off) = 256 * p[1] + p[2]
    BY <1>4, <1>6, <1>7, <1>8 DEF U16
  <1> QED
    BY <1>2, <1>9
-----------------------------------------------------------------------------
(* What a step does.                                                       *)

\* A parser at work takes the action for the next field, or runs short.
LEMMA Actions ==
  ASSUME Next
  PROVE  /\ status = "parsing"
         /\ \/ todo = <<>> /\ Return
            \/ todo # <<>> /\ ErrShortBuffer
            \/ todo # <<>> /\ field.k = "int" /\ GetInt
            \/ todo # <<>> /\ field.k = "expect" /\ GetExpected
            \/ todo # <<>> /\ field.k = "2b" /\ UnmarshalTPM2B
            \/ todo # <<>> /\ field.k = "bitmap" /\ GetBitmap
            \/ todo # <<>> /\ field.k = "detail" /\ GetDetail
            \/ todo # <<>> /\ field.k = "buffer" /\ Enter
            \/ todo # <<>> /\ field.k = "close" /\ Leave
            \/ todo # <<>> /\ field.k = "list" /\ GetCount
            \/ todo # <<>> /\ field.k = "times" /\ Iterate
            \/ todo # <<>> /\ field.k = "first" /\ CheckFirst
  <1>1. GetInt => Reading("int")
    BY Zenon DEF GetInt
  <1>2. GetExpected => Reading("expect")
    BY Zenon DEF GetExpected
  <1>3. UnmarshalTPM2B => Reading("2b")
    BY Zenon DEF UnmarshalTPM2B
  <1>4. GetBitmap => Reading("bitmap")
    BY Zenon DEF GetBitmap
  <1>5. GetDetail => Reading("detail")
    BY Zenon DEF GetDetail
  <1>6. Enter => Reading("buffer")
    BY Zenon DEF Enter
  <1>7. Leave => Reading("close")
    BY Zenon DEF Leave
  <1>8. GetCount => Reading("list")
    BY Zenon DEF GetCount
  <1>9. Iterate => Reading("times")
    BY Zenon DEF Iterate
  <1>10. CheckFirst => Reading("first")
    BY Zenon DEF CheckFirst
  <1>11. ErrShortBuffer => status = "parsing" /\ todo # <<>>
    BY Zenon DEF ErrShortBuffer
  <1>12. Return => status = "parsing" /\ todo = <<>>
    BY Zenon DEF Return
  <1> QED
    BY <1>1, <1>2, <1>3, <1>4, <1>5, <1>6, <1>7, <1>8, <1>9, <1>10, <1>11,
       <1>12, Zenon DEF Next, Reading

\* The parser reads h, and next is what is left to be read.
Passed(h, next) ==
  /\ off + Len(h.octets) <= lim
  /\ off' = off + Len(h.octets)
  /\ got' = got \o h.values
  /\ selected' = selected \o h.pcrs
  /\ todo' = next
  /\ UNCHANGED <<input, lim, status>>

\* It does not find all of h.
Cut(h) == off + Len(h.octets) > lim /\ End("short")

\* The octets of one string.
LEMMA PlainOctets ==
  ASSUME NEW f \in Elem, NEW x \in Seq(Octet)
  PROVE  /\ f.k = "2b" =>
              /\ Plain(f, x).octets = PutU16(Len(x)) \o x
              /\ Plain(f, x).values = If(f.keep, x) /\ Plain(f, x).pcrs = <<>>
         /\ f.k = "bitmap" =>
              /\ Plain(f, x).octets = << Len(x) >> \o x
              /\ Plain(f, x).pcrs = If(f.keep, SelectedBy(x))
              /\ Plain(f, x).values = <<>>
         /\ f.k = "int" =>
              /\ Plain(f, x).octets = x
              /\ Plain(f, x).values = If(f.keep, x) /\ Plain(f, x).pcrs = <<>>
         /\ f.k \in {"expect", "detail"} => Plain(f, x) = Bare(x)
  <1>1. CASE f.k = "2b"
    BY <1>1 DEF Plain, MarshalTPM2B
  <1>2. CASE f.k = "bitmap"
    BY <1>2 DEF Plain
  <1>3. CASE f.k = "int"
    BY <1>3 DEF Plain
  <1>4. CASE f.k \in {"expect", "detail"}
    BY <1>4 DEF Plain, Bare
  <1> QED
    BY <1>1, <1>2, <1>3, <1>4, ElemKinds

\* A field that is one string is read as the device has written it.
LEMMA PlainStep ==
  ASSUME IInv, Next, todo # <<>>, field \in Elem, NEW x \in Seq(Octet),
         FitsPlain(field, x), NEW pre, NEW t, Facing(pre, Plain(field, x), t)
  PROVE  Passed(Plain(field, x), Tail(todo)) \/ Cut(Plain(field, x))
  <1>1. PICK h, l : h = Plain(field, x) /\ l = Len(x)
    OBVIOUS
  <1>2. /\ Standing(h.octets) /\ h.octets \in Seq(Octet) /\ off \in Nat /\ l \in Nat
        /\ lim \in Nat
    <2>1. Len(x) \in Nat
      OBVIOUS
    <2> QED
      BY <1>1, <2>1, Stands, Zenon DEF IInv, TypeOK
  <1>3. got \in Seq(Seq(Octet)) /\ selected \in Seq(SUBSET Nat)
    BY DEF IInv, TypeOK
  <1>4. got \o <<>> = got /\ selected \o <<>> = selected
    BY <1>3
  <1>5. /\ field.k \in {"int", "expect", "2b", "bitmap", "detail"}
        /\ field.k = "int" => field.w \in Nat /\ field.keep \in BOOLEAN
        /\ field.k = "expect" => field.v \in Seq(Octet)
        /\ field.k = "detail" => field.w \in Nat
    BY ElemKinds
  <1>6. ErrShortBuffer => ~Has(Needs) /\ End("short")
    BY Zenon DEF ErrShortBuffer
  <1>7. CASE field.k = "int"
    <2>1. h.octets = x /\ h.values = If(field.keep, x) /\ h.pcrs = <<>>
      BY <1>1, <1>7, PlainOctets
    <2>2. Needs = l /\ field.w = l
      BY <1>1, <1>7 DEF Needs, FitsPlain
    <2>3. CASE ErrShortBuffer
      <3>1. off + l > lim
        BY <1>2, <1>6, <2>2, <2>3 DEF Has
      <3> QED
        BY <1>1, <1>6, <2>1, <2>3, <3>1, Zenon DEF Cut
    <2>4. CASE GetInt
      <3>1. Take(l, If(field.keep, Octets(off, l)), Tail(todo)) /\ Has(l)
        BY <2>2, <2>4, Zenon DEF GetInt, Take
      <3>2. Octets(off, l) = x
        <4>1. 0 + l <= Len(x) /\ off + (0 + l) <= lim /\ 0 \in Nat
          BY <1>1, <1>2, <3>1 DEF Has
        <4>2. Octets(off + 0, l) = SubSeq(x, 0 + 1, 0 + l)
          BY <1>2, <2>1, <4>1, ReadsAs
        <4>3. off + 0 = off /\ 0 + 1 = 1 /\ 0 + l = l
          BY <1>2
        <4> QED
          BY <1>1, <4>2, <4>3, Suffix
      <3> QED
        BY <1>1, <1>4, <2>1, <3>1, <3>2, Zenon DEF Take, Passed, Has
    <2> QED
      BY <1>7, <2>3, <2>4, Actions
  <1>8. CASE field.k = "expect"
    <2>1. h.octets = x /\ h.values = <<>> /\ h.pcrs = <<>>
      <3>1. h = Bare(x)
        BY <1>1, <1>8, PlainOctets
      <3> QED
        BY <3>1, BareType
    <2>2. Needs = l /\ field.v = x
      BY <1>1, <1>8 DEF Needs, FitsPlain
    <2>3. CASE ErrShortBuffer
      <3>1. off + l > lim
        BY <1>2, <1>6, <2>2, <2>3 DEF Has
      <3> QED
        BY <1>1, <1>6, <2>1, <2>3, <3>1, Zenon DEF Cut
    <2>4. CASE GetExpected
      <3>1. Has(l) /\ IF Octets(off, l) = x THEN Take(l, <<>>, Tail(todo))
                                            ELSE End("unexpected")
        BY <1>1, <2>2, <2>4, Zenon DEF GetExpected
      <3>2. Octets(off, l) = x
        <4>1. 0 + l <= Len(x) /\ off + (0 + l) <= lim /\ 0 \in Nat
          BY <1>1, <1>2, <3>1 DEF Has
        <4>2. Octets(off + 0, l) = SubSeq(x, 0 + 1, 0 + l)
          BY <1>2, <2>1, <4>1, ReadsAs
        <4>3. off + 0 = off /\ 0 + 1 = 1 /\ 0 + l = l
          BY <1>2
        <4> QED
          BY <1>1, <4>2, <4>3, Suffix
      <3> QED
        BY <1>1, <1>4, <2>1, <3>1, <3>2, Zenon DEF Take, Passed, Has
    <2> QED
      BY <1>8, <2>3, <2>4, Actions
  <1>9. CASE field.k = "2b"
    <2>1. /\ h.octets = PutU16(l) \o x /\ h.values = If(field.keep, x) /\ h.pcrs = <<>>
      BY <1>1, <1>9, PlainOctets, Zenon
    <2>2. l < MaxSize
      BY <1>1, <1>9, Zenon DEF FitsPlain
    <2>3. Len(h.octets) = 2 + l /\ PutU16(l) \in Seq(Octet) /\ Len(PutU16(l)) = 2
      <3>1. PutU16(l) \in Seq(Octet) /\ Len(PutU16(l)) = 2
        BY <1>2, SizeOctets
      <3>2. PICK p \in Seq(Octet) : p = PutU16(l) /\ Len(p) = 2
        BY <3>1
      <3>3. Len(p \o x) = Len(p) + Len(x)
        BY <3>2, Joined
      <3> QED
        BY <1>1, <2>1, <3>1, <3>2, <3>3, Zenon
    <2>4. Has(2) => U16(off) = l
      BY <1>2, <2>1, <2>2, Sized, Zenon
    <2>5. /\ Has(2) => Needs = 2 + l
          /\ ~Has(2) => Needs = 2 + 0
      BY <1>9, <2>4, Zenon DEF Needs
    <2>6. CASE ErrShortBuffer
      <3>1. off + (2 + l) > lim
        BY <1>2, <1>6, <2>5, <2>6 DEF Has
      <3> QED
        BY <1>1, <1>6, <2>3, <2>6, <3>1, Zenon DEF Cut
    <2>7. CASE UnmarshalTPM2B
      <3>1. /\ Take(Needs, If(field.keep, Octets(off + 2, Needs - 2)), Tail(todo))
            /\ Has(Needs)
        BY <2>7, Zenon DEF UnmarshalTPM2B, Take
      <3>2. Needs = 2 + l /\ Needs - 2 = l /\ off + (2 + l) <= lim
        BY <1>2, <2>5, <3>1 DEF Has
      <3>3. Octets(off + 2, l) = x
        <4>1. 2 + l <= Len(h.octets) /\ 2 \in Nat
          BY <1>2, <2>3
        <4>2. Octets(off + 2, l) = SubSeq(h.octets, 2 + 1, 2 + l)
          BY <1>2, <3>2, <4>1, ReadsAs
        <4> QED
          BY <1>1, <2>1, <2>3, <4>2, Suffix
      <3> QED
        BY <1>1, <1>4, <2>1, <2>3, <3>1, <3>2, <3>3, Zenon DEF Take, Passed
    <2> QED
      BY <1>9, <2>6, <2>7, Actions
  <1>10. CASE field.k = "bitmap"
    <2>1. /\ h.octets = << l >> \o x /\ h.pcrs = If(field.keep, SelectedBy(x))
          /\ h.values = <<>>
      BY <1>1, <1>10, PlainOctets, Zenon
    <2>2. l < 256
      BY <1>1, <1>10, Zenon DEF FitsPlain
    <2>3. /\ Len(h.octets) = 1 + l /\ << l >> \in Seq(Octet) /\ Len(<< l >>) = 1
          /\ h.octets[1] = l
      <3>1. l \in Octet
        BY <1>2, <2>2 DEF Octet
      <3>2. << l >> \in Seq(Octet) /\ Len(<< l >>) = 1 /\ << l >>[1] = l
        BY <3>1
      <3>3. PICK s \in Seq(Octet) : s = << l >> /\ Len(s) = 1 /\ s[1] = l
        BY <3>2
      <3>4. Len(s \o x) = 1 + Len(x) /\ (s \o x)[1] = l
        BY <3>3, Joined
      <3> QED
        BY <1>1, <2>1, <3>2, <3>3, <3>4
    <2>4. Has(1) => U8(off) = l
      <3> SUFFICES ASSUME Has(1) PROVE U8(off) = l
        OBVIOUS
      <3>1. 0 + 1 <= Len(h.octets) /\ off + (0 + 1) <= lim /\ 0 \in Nat /\ 1 \in Nat /\ 1 > 0
        BY <1>2, <2>3 DEF Has
      <3>2. U8(off + 0) = h.octets[0 + 1]
        BY <1>2, <3>1, ReadsAs
      <3>3. off + 0 = off /\ 0 + 1 = 1
        BY <1>2
      <3> QED
        BY <2>3, <3>2, <3>3
    <2>5. /\ Has(1) => Needs = 1 + l
          /\ ~Has(1) => Needs = 1 + 0
      BY <1>10, <2>4, Zenon DEF Needs
    <2>6. CASE ErrShortBuffer
      <3>1. off + (1 + l) > lim
        BY <1>2, <1>6, <2>5, <2>6 DEF Has
      <3> QED
        BY <1>1, <1>6, <2>3, <2>6, <3>1, Zenon DEF Cut
    <2>7. CASE GetBitmap
      <3>1. /\ Has(Needs) /\ off' = off + Needs
            /\ selected' = selected \o
                 If(field.keep, pcrsFromBitmap(Octets(off + 1, Needs - 1)))
            /\ todo' = Tail(todo)
            /\ UNCHANGED <<input, lim, got, status>>
        BY <2>7, Zenon DEF GetBitmap
      <3>2. Needs = 1 + l /\ Needs - 1 = l /\ off + (1 + l) <= lim
        BY <1>2, <2>5, <3>1 DEF Has
      <3>3. Octets(off + 1, l) = x
        <4>1. 1 + l <= Len(h.octets) /\ 1 \in Nat
          BY <1>2, <2>3
        <4>2. Octets(off + 1, l) = SubSeq(h.octets, 1 + 1, 1 + l)
          BY <1>2, <3>2, <4>1, ReadsAs
        <4> QED
          BY <1>1, <2>1, <2>3, <4>2, Suffix
      <3>4. pcrsFromBitmap(x) = SelectedBy(x)
        BY BitmapSelects
      <3> QED
        BY <1>1, <1>4, <2>1, <2>3, <3>1, <3>2, <3>3, <3>4, Zenon DEF Passed
    <2> QED
      BY <1>10, <2>6, <2>7, Actions
  <1>11. CASE field.k = "detail"
    <2>1. h.octets = x /\ h.values = <<>> /\ h.pcrs = <<>>
      <3>1. h = Bare(x)
        BY <1>1, <1>11, PlainOctets
      <3> QED
        BY <3>1, BareType
    <2>2. \/ l = 2 /\ SubSeq(x, 1, 2) = algNull
          \/ l = 2 + field.w /\ SubSeq(x, 1, 2) # algNull
      <3>1. CASE x = algNull
        <4>1. Len(x) = 2
          BY <3>1, SizeOctets DEF algNull
        <4> QED
          BY <1>1, <3>1, <4>1, Suffix
      <3>2. CASE Len(x) = 2 + field.w /\ SubSeq(x, 1, 2) # algNull
        BY <1>1, <3>2
      <3> QED
        BY <1>11, <3>1, <3>2 DEF FitsPlain
    <2>3. Has(2) => Octets(off, 2) = SubSeq(x, 1, 2)
      <3> SUFFICES ASSUME Has(2) PROVE Octets(off, 2) = SubSeq(x, 1, 2)
        OBVIOUS
      <3>1. 0 + 2 <= Len(x) /\ off + (0 + 2) <= lim /\ 0 \in Nat /\ 2 \in Nat
        BY <1>1, <1>2, <1>5, <1>11, <2>2 DEF Has
      <3>2. Octets(off + 0, 2) = SubSeq(x, 0 + 1, 0 + 2)
        BY <1>2, <2>1, <3>1, ReadsAs
      <3>3. off + 0 = off /\ 0 + 1 = 1 /\ 0 + 2 = 2
        BY <1>2
      <3> QED
        BY <3>2, <3>3
    <2>4. /\ Has(2) => Needs = l
          /\ ~Has(2) => Needs = 2 + 0
      <3>1. Needs = 2 + (IF Has(2) /\ Octets(off, 2) # algNull THEN field.w ELSE 0)
        BY <1>11, Zenon DEF Needs
      <3> QED
        BY <2>2, <2>3, <3>1
    <2>5. CASE ErrShortBuffer
      <3>1. off + l > lim
        BY <1>2, <1>5, <1>6, <1>11, <2>2, <2>4, <2>5 DEF Has
      <3> QED
        BY <1>1, <1>6, <2>1, <2>5, <3>1, Zenon DEF Cut
    <2>6. CASE GetDetail
      <3>1. Take(Needs, <<>>, Tail(todo)) /\ Has(Needs)
        BY <2>6, Zenon DEF GetDetail, Take
      <3>2. Needs = l /\ off + l <= lim
        BY <1>2, <1>5, <1>11, <2>2, <2>4, <3>1 DEF Has
      <3> QED
        BY <1>1, <1>4, <2>1, <3>1, <3>2, Zenon DEF Take, Passed
    <2> QED
      BY <1>11, <2>5, <2>6, Actions
  <1> QED
    BY <1>5, <1>7, <1>8, <1>9, <1>10, <1>11
-----------------------------------------------------------------------------
(* Where a parser is in what the device says.                              *)

\* The device has said pre, and the parser has kept it.
Beginning(pre) ==
  /\ pre \in Said
  /\ Len(pre.octets) = off /\ pre.values = got /\ pre.pcrs = selected

\* Outside of a buffer, the device goes on with xs.
Outside(pre, xs) ==
  /\ Beginning(pre)
  /\ Matches(todo, xs, Whole(input).values, Refusal(input))
  /\ Whole(input) = Both(pre, Text(todo, xs))
  /\ lim = Len(input.octets)

\* In a buffer, with the strings of row, and then with xs.
Inside(pre, of, row, after, xs) ==
  /\ Beginning(pre)
  /\ of \in Seq(Elem) /\ row \in Seq(Seq(Octet)) /\ FitsStruct(of, row)
  /\ todo = of \o (<<Close>> \o after)
  /\ Matches(after, xs, Whole(input).values, Refusal(input))
  /\ Whole(input) = Both(pre, Both(Struct(of, row), Text(after, xs)))
  /\ lim = off + Len(Struct(of, row).octets)

Progress ==
  \/ \E pre, xs : Outside(pre, xs)
  \/ \E pre, of, row, after, xs : Inside(pre, of, row, after, xs)

\* The parser has ended as the device's reply calls for.
Decoded ==
  /\ status = input.outcome
  /\ status = "done" => got = input.values /\ selected = input.pcrs

\* The inductive invariant of decoding: of a reply that a device gives, or of
\* such a reply cut short, the parser keeps what it has read of it.
Following ==
  input \in Inputs /\ input.outcome # "any" =>
    IF status = "parsing" THEN Progress ELSE Decoded

\* Reading h takes the parser past it.
LEMMA Further ==
  ASSUME NEW pre, NEW h, NEW t, Facing(pre, h, t), Beginning(pre),
         off' = off + Len(h.octets), got' = got \o h.values,
         selected' = selected \o h.pcrs, input' = input
  PROVE  /\ Beginning(Both(pre, h))'
         /\ Whole(input) = Both(Both(pre, h), t)
         /\ Whole(input') = Whole(input) /\ Refusal(input') = Refusal(input)
  <1>1. pre \in Said /\ h \in Said /\ t \in Said
    BY DEF Facing
  <1>2. PICK q : q = Both(pre, h)
    OBVIOUS
  <1>3. /\ q \in Said /\ q.values = pre.values \o h.values
        /\ q.pcrs = pre.pcrs \o h.pcrs /\ q.octets = pre.octets \o h.octets
    BY <1>1, <1>2, Joining DEF Both
  <1>4. Len(q.octets) = Len(pre.octets) + Len(h.octets)
    BY <1>1, <1>3 DEF Said
  <1>5. q.values = got' /\ q.pcrs = selected' /\ Len(q.octets) = off'
    BY <1>3, <1>4, Zenon DEF Beginning
  <1>6. Beginning(q)'
    BY <1>3, <1>5 DEF Beginning
  <1>7. Whole(input) = Both(q, t)
    BY <1>1, <1>2, Joining DEF Facing
  <1> QED
    BY <1>2, <1>6, <1>7

\* The same for a step that stays where it is.
LEMMA Advance ==
  ASSUME NEW pre, NEW h, NEW t, Facing(pre, h, t), Beginning(pre),
         NEW next, Passed(h, next)
  PROVE  /\ Beginning(Both(pre, h))'
         /\ Whole(input) = Both(Both(pre, h), t)
         /\ input' = input /\ status' = status /\ todo' = next /\ lim' = lim
         /\ off' = off + Len(h.octets)
         /\ Whole(input') = Whole(input) /\ Refusal(input') = Refusal(input)
  <1>1. /\ input' = input /\ status' = status /\ todo' = next /\ lim' = lim
        /\ off' = off + Len(h.octets) /\ got' = got \o h.values
        /\ selected' = selected \o h.pcrs
    BY DEF Passed
  <1> QED
    BY <1>1, Further, Zenon

\* Outside of a buffer, the parser goes on.
LEMMA OutsideNext ==
  ASSUME NEW pre, NEW h, NEW t, Facing(pre, h, t), Beginning(pre),
         NEW next, Passed(h, next), status = "parsing", lim = Len(input.octets),
         NEW xs, Matches(next, xs, Whole(input).values, Refusal(input)),
         t = Text(next, xs)
  PROVE  Following'
  <1>1. PICK q : q = Both(pre, h)
    OBVIOUS
  <1>2. /\ Beginning(q)' /\ Whole(input) = Both(q, t)
        /\ input' = input /\ status' = status /\ todo' = next /\ lim' = lim
        /\ Whole(input') = Whole(input) /\ Refusal(input') = Refusal(input)
    BY <1>1, Advance, Zenon
  <1>3. Matches(todo', xs, Whole(input').values, Refusal(input'))
    BY <1>2, Zenon
  <1>4. Whole(input') = Both(q, Text(todo', xs)) /\ lim' = Len(input'.octets)
    BY <1>2, Zenon
  <1>5. Outside(q, xs)'
    BY <1>2, <1>3, <1>4 DEF Outside
  <1>6. Progress'
    BY <1>5 DEF Progress
  <1> QED
    BY <1>2, <1>6, Zenon DEF Following

\* A reply that ends before h is a reply cut short.
LEMMA CutShort ==
  ASSUME NEW pre, NEW h, NEW t, Facing(pre, h, t), lim = Len(input.octets), Cut(h)
  PROVE  Following'
  <1>1. /\ off \in Nat /\ h.octets \in Seq(Octet) /\ t.octets \in Seq(Octet)
        /\ Len(Whole(input).octets) = off + Len(h.octets) + Len(t.octets)
    BY Stands
  <1>2. Len(input.octets) < Len(Whole(input).octets)
    <2>1. PICK l \in Nat, m \in Nat : l = Len(h.octets) /\ m = Len(t.octets)
      BY <1>1
    <2>2. PICK w : w = Len(Whole(input).octets)
      OBVIOUS
    <2>3. PICK n \in Nat : n = Len(input.octets) /\ w = Len(Whole(input).octets)
      BY <2>2, Follows DEF Facing
    <2>4. off + l > n
      BY <2>1, <2>3, Zenon DEF Cut
    <2>5. w = off + l + m
      BY <1>1, <2>1, <2>2, Zenon
    <2>6. PICK o \in Nat : o = off
      BY <1>1
    <2>7. n < w
      BY <2>4, <2>5, <2>6
    <2> QED
      BY <2>3, <2>7, Zenon
  <1>3. input.outcome = "short"
    <2>1. Len(Whole(input).octets) \in Nat /\ Len(input.octets) \in Nat
      BY Follows DEF Facing, Said
    <2>2. ~(Len(Whole(input).octets) <= Len(input.octets))
      BY <1>2, <2>1
    <2> QED
      BY <2>2, Follows, Zenon DEF Facing
  <1>4. status' = "short" /\ input' = input
    BY DEF Cut, End
  <1>5. Decoded'
    BY <1>3, <1>4 DEF Decoded
  <1> QED
    BY <1>4, <1>5 DEF Following

\* When all of what the device says is there, the reply is not cut short.
LEMMA WholeThere ==
  ASSUME NEW pre, NEW h, NEW t, Facing(pre, h, t), t = Nothing,
         lim = Len(input.octets), off + Len(h.octets) <= lim
  PROVE  /\ input.outcome = IF Refusal(input) THEN "unexpected" ELSE "done"
         /\ input.outcome = "done" =>
              input.values = Whole(input).values /\ input.pcrs = Whole(input).pcrs
  <1>1. /\ off \in Nat /\ h.octets \in Seq(Octet)
        /\ Len(Whole(input).octets) = off + Len(h.octets) + Len(t.octets)
    BY Stands
  <1>2. Len(t.octets) = 0
    BY DEF Nothing
  <1>3. ~(Len(input.octets) < Len(Whole(input).octets))
    <2>1. Len(h.octets) \in Nat
      BY <1>1
    <2>2. Len(input.octets) \in Nat
      BY Follows DEF Facing
    <2> QED
      BY <1>1, <1>2, <2>1, <2>2
  <1> QED
    BY <1>3, Follows, Zenon DEF Facing

\* A reply is refused where the device says what the parser does not accept.
LEMMA Refused ==
  ASSUME NEW pre, NEW h, NEW t, Facing(pre, h, t), t = Nothing,
         lim = Len(input.octets), off + Len(h.octets) <= lim,
         Refusal(input), End("unexpected")
  PROVE  Following'
  <1>1. input.outcome = "unexpected"
    BY WholeThere, Zenon
  <1>2. status' = "unexpected" /\ input' = input
    BY DEF End
  <1>3. Decoded'
    BY <1>1, <1>2 DEF Decoded
  <1> QED
    BY <1>2, <1>3 DEF Following
-----------------------------------------------------------------------------
(* Steps outside of a buffer.                                              *)

\* The device has said pre, and says x in the next field and then t.
Ready(pre, x, t) ==
  /\ Beginning(pre) /\ Facing(pre, Speak(field, x), t)
  /\ todo # <<>> /\ field \in Field /\ x \in Content
  /\ lim = Len(input.octets)

\* The parser accepts x, and the device goes on with ys.
On(pre, x, ys) ==
  /\ Ready(pre, x, Text(Tail(todo), ys))
  /\ Suits(field, x, Whole(input).values)
  /\ Matches(Tail(todo), ys, Whole(input).values, Refusal(input))

\* A field that is one string.
LEMMA StringOn ==
  ASSUME IInv, Next, NEW pre, NEW x, NEW ys, On(pre, x, ys),
         field.k \notin {"list", "buffer", "times", "first", "close"}
  PROVE  Following'
  <1>1. Ready(pre, x, Text(Tail(todo), ys)) /\ Suits(field, x, Whole(input).values)
        /\ Matches(Tail(todo), ys, Whole(input).values, Refusal(input))
    BY DEF On
  <1>2. field \in Elem /\ x \in Content /\ todo # <<>>
    BY <1>1, FieldKinds DEF Ready
  <1>3. Len(x) = 1 /\ Len(x[1]) = 1 /\ FitsPlain(field, x[1][1])
    BY <1>1 DEF Suits, Fits
  <1>4. x[1][1] \in Seq(Octet)
    <2>1. x[1] \in Seq(Seq(Octet))
      BY <1>2, <1>3 DEF Content
    <2> QED
      BY <1>3, <2>1
  <1>5. PICK s, h, t, next :
          /\ s = x[1][1] /\ h = Plain(field, s)
          /\ t = Text(Tail(todo), ys) /\ next = Tail(todo)
    OBVIOUS
  <1>6. Speak(field, x) = h
    BY <1>5 DEF Speak, Spoken
  <1>7. Facing(pre, h, t) /\ Beginning(pre) /\ lim = Len(input.octets)
    BY <1>1, <1>5, <1>6, Zenon DEF Ready
  <1>8. Passed(h, next) \/ Cut(h)
    <2>1. Facing(pre, Plain(field, s), t)
      BY <1>5, <1>7, Zenon
    <2>2. Passed(Plain(field, s), Tail(todo)) \/ Cut(Plain(field, s))
      BY <1>2, <1>3, <1>4, <1>5, <2>1, PlainStep, Zenon
    <2> QED
      BY <1>5, <2>2, Zenon
  <1>9. CASE Passed(h, next)
    <2>1. status = "parsing"
      BY Actions, Zenon
    <2>2. Matches(next, ys, Whole(input).values, Refusal(input)) /\ t = Text(next, ys)
      BY <1>1, <1>5, Zenon
    <2> QED
      BY <1>7, <1>9, <2>1, <2>2, OutsideNext, Zenon
  <1>10. CASE Cut(h)
    BY <1>7, <1>10, CutShort, Zenon
  <1> QED
    BY <1>8, <1>9, <1>10

\* A list: its count, and so many structures.
LEMMA ListOn ==
  ASSUME IInv, Next, NEW pre, NEW x, NEW ys, On(pre, x, ys), field.k = "list"
  PROVE  Following'
  <1>1. Ready(pre, x, Text(Tail(todo), ys)) /\ Suits(field, x, Whole(input).values)
        /\ Matches(Tail(todo), ys, Whole(input).values, Refusal(input))
    BY DEF On
  <1>2. field.of \in Seq(Elem) /\ x \in Content /\ todo # <<>>
    BY <1>1, FieldKinds DEF Ready
  <1>3. Len(x) < MaxCount /\ FitsStructs(field.of, x)
    BY <1>1, Zenon DEF Suits, Fits
  <1>4. PICK of, l, o, h, c, t :
          /\ of = field.of /\ l = Len(x) /\ o = PutU32(l) /\ h = Bare(o)
          /\ c = Structs(of, x) /\ t = Text(Tail(todo), ys)
    OBVIOUS
  <1>5. l \in Nat
    BY <1>2, <1>4 DEF Content
  <1>6. o \in Seq(Octet) /\ Len(o) = 4
    BY <1>4, <1>5, CountOctets, Zenon
  <1>7. o[1] = 0 /\ MaxSize * o[2] + (256 * o[3] + o[4]) = l
    BY <1>3, <1>4, <1>5, CountOctets, Zenon
  <1>8. h \in Said /\ h.octets = o /\ h.values = <<>> /\ h.pcrs = <<>>
    BY <1>4, <1>6, BareType, Zenon
  <1>9. c \in Said
    BY <1>2, <1>3, <1>4, StructsType, Zenon
  <1>10. Speak(field, x) = Both(h, c)
    BY <1>4 DEF Speak, Spoken
  <1>11. /\ Beginning(pre) /\ lim = Len(input.octets)
         /\ Facing(pre, Both(h, c), t)
    BY <1>1, <1>4, <1>10, Zenon DEF Ready
  <1>12. Facing(pre, h, Both(c, t))
    <2>1. t \in Said
      BY <1>11, Zenon DEF Facing
    <2>2. Both(Both(h, c), t) = Both(h, Both(c, t)) /\ Both(c, t) \in Said
      BY <1>8, <1>9, <2>1, Joining, Zenon
    <2> QED
      BY <1>8, <1>11, <2>2, Zenon DEF Facing
  <1>13. status = "parsing" /\ (ErrShortBuffer \/ GetCount)
    BY <1>2, Actions
  <1>14. Needs = 4
    BY DEF Needs
  <1>15. Standing(o) /\ off \in Nat /\ lim \in Nat
    BY <1>8, <1>12, Stands, Zenon DEF IInv, TypeOK
  <1>16. CASE ErrShortBuffer
    <2>1. off + Len(h.octets) > lim
      <3>1. ~Has(4)
        BY <1>14, <1>16, Zenon DEF ErrShortBuffer
      <3>2. off + 4 > lim
        BY <1>15, <3>1 DEF Has
      <3> QED
        BY <1>6, <1>8, <3>2, Zenon
    <2>2. Cut(h)
      BY <1>16, <2>1, Zenon DEF Cut, ErrShortBuffer
    <2> QED
      BY <1>11, <1>12, <2>2, CutShort, Zenon
  <1>17. CASE GetCount
    <2>1. Has(4) /\ Take(4, <<>>, << Times(Count(off), field.of) >> \o Tail(todo))
      BY <1>14, <1>17, Zenon DEF GetCount
    <2>2. Count(off) = l
      <3>1. /\ 0 + 1 <= Len(o) /\ off + (0 + 1) <= lim
            /\ 1 + 1 <= Len(o) /\ off + (1 + 1) <= lim
            /\ 2 + 1 <= Len(o) /\ off + (2 + 1) <= lim
            /\ 3 + 1 <= Len(o) /\ off + (3 + 1) <= lim
        BY <1>6, <1>15, <2>1 DEF Has
      <3>2. 0 \in Nat /\ 1 \in Nat /\ 2 \in Nat /\ 3 \in Nat /\ 1 > 0
        OBVIOUS
      <3>3. U8(off + 0) = o[0 + 1]
        BY <1>6, <1>15, <3>1, <3>2, ReadsAs
      <3>4. U8(off + 1) = o[1 + 1]
        BY <1>6, <1>15, <3>1, <3>2, ReadsAs
      <3>5. U8(off + 2) = o[2 + 1]
        BY <1>6, <1>15, <3>1, <3>2, ReadsAs
      <3>6. U8(off + 3) = o[3 + 1]
        BY <1>6, <1>15, <3>1, <3>2, ReadsAs
      <3>7. /\ off + 0 = off /\ 0 + 1 = 1 /\ 1 + 1 = 2 /\ 2 + 1 = 3 /\ 3 + 1 = 4
            /\ (off + 2) + 1 = off + 3
        BY <1>15
      <3>8. /\ U8(off) = 0 /\ U8(off + 1) = o[2]
            /\ U8(off + 2) = o[3] /\ U8((off + 2) + 1) = o[4]
        BY <1>7, <3>3, <3>4, <3>5, <3>6, <3>7
      <3>9. Count(off) = MaxSize * U8(off + 1) + U16(off + 2)
        <4>1. ~(U8(off) > 0)
          BY <3>8
        <4> QED
          BY <4>1, Zenon DEF Count
      <3> QED
        BY <1>7, <3>8, <3>9 DEF U16
    <2>3. PICK f, next : f = Times(l, of) /\ next = << f >> \o Tail(todo)
      OBVIOUS
    <2>4. f \in Field /\ f.k = "times" /\ f.n = l /\ f.of = of
      BY <1>2, <1>4, <1>5, <2>3 DEF Times, Field
    <2>5. Passed(h, next)
      <3>1. got \o <<>> = got /\ selected \o <<>> = selected
        BY DEF IInv, TypeOK
      <3>2. Len(h.octets) = 4
        BY <1>6, <1>8
      <3> QED
        BY <1>4, <1>8, <2>1, <2>2, <2>3, <3>1, <3>2, Zenon DEF Passed, Take, Has
    <2>6. Suits(f, x, Whole(input).values) /\ f.k \notin {"close", "first"}
      BY <1>3, <1>4, <2>4 DEF Suits
    <2>7. Refusal(input) \in BOOLEAN
      BY <1>11, Follows DEF Facing
    <2>8. PICK zs : zs = << x >> \o ys
      OBVIOUS
    <2>9. /\ Matches(next, zs, Whole(input).values, Refusal(input))
          /\ Text(next, zs) = Both(Speak(f, x), Text(Tail(todo), ys))
      <3>1. PICK v, r, rest : v = Whole(input).values /\ r = Refusal(input)
                              /\ rest = Tail(todo)
        OBVIOUS
      <3>2. /\ f \in Field /\ f.k \notin {"close", "first"} /\ x \in Content
            /\ r \in BOOLEAN /\ Suits(f, x, v) /\ Matches(rest, ys, v, r)
        BY <1>1, <1>2, <2>4, <2>6, <2>7, <3>1, Zenon
      <3>3. /\ Matches(<< f >> \o rest, << x >> \o ys, v, r)
            /\ Text(<< f >> \o rest, << x >> \o ys) = Both(Speak(f, x), Text(rest, ys))
        BY ONLY <3>2, MatchCons, SMT
      <3> QED
        BY <2>3, <2>8, <3>1, <3>3, Zenon
    <2>10. Speak(f, x) = c
      BY <1>4, <2>4, Zenon DEF Speak
    <2>11. Both(c, t) = Text(next, zs)
      BY <1>4, <2>9, <2>10, Zenon
    <2>12. PICK u : u = Both(c, t)
      OBVIOUS
    <2>13. Facing(pre, h, u) /\ u = Text(next, zs)
      BY <1>12, <2>11, <2>12, Zenon
    <2> QED
      BY <1>11, <1>13, <2>5, <2>9, <2>13, OutsideNext, Zenon
  <1> QED
    BY <1>13, <1>16, <1>17

\* What is left of a list.
LEMMA TimesOn ==
  ASSUME IInv, Next, NEW pre, NEW x, NEW ys, On(pre, x, ys), field.k = "times"
  PROVE  Following'
  <1>1. Ready(pre, x, Text(Tail(todo), ys)) /\ Suits(field, x, Whole(input).values)
        /\ Matches(Tail(todo), ys, Whole(input).values, Refusal(input))
    BY DEF On
  <1>2. field.of \in Seq(Elem) /\ field.n \in Nat /\ x \in Content /\ todo # <<>>
    BY <1>1, FieldKinds DEF Ready
  <1>3. Len(x) = field.n /\ FitsStructs(field.of, x)
    BY <1>1, Zenon DEF Suits
  <1>4. PICK of, n, h, t, rest :
          /\ of = field.of /\ n = field.n /\ h = Structs(of, x)
          /\ rest = Tail(todo) /\ t = Text(rest, ys)
    OBVIOUS
  <1>5. h \in Said
    BY <1>2, <1>3, <1>4, StructsType, Zenon
  <1>6. Speak(field, x) = h
    BY <1>4, Zenon DEF Speak
  <1>7. /\ Beginning(pre) /\ lim = Len(input.octets) /\ Facing(pre, h, t)
    BY <1>1, <1>4, <1>6, Zenon DEF Ready
  <1>8. /\ off \in Nat /\ lim \in Nat /\ off <= lim
        /\ got \o <<>> = got /\ selected \o <<>> = selected
    BY DEF IInv, TypeOK, InBounds
  <1>9. Iterate /\ status = "parsing"
    <2>1. Needs = 0
      BY DEF Needs
    <2>2. Has(Needs)
      BY <1>8, <2>1 DEF Has
    <2>3. ~ErrShortBuffer
      BY <2>2, Zenon DEF ErrShortBuffer
    <2> QED
      BY <1>2, <2>3, Actions
  <1>10. PICK next : next = IF n = 0 THEN rest
                            ELSE of \o << Times(n - 1, of) >> \o rest
    OBVIOUS
  <1>11. Passed(Nothing, next)
    <2>1. Take(0, <<>>, next)
      BY <1>4, <1>9, <1>10, Zenon DEF Iterate
    <2>2. Len(Nothing.octets) = 0 /\ Nothing.values = <<>> /\ Nothing.pcrs = <<>>
      BY DEF Nothing
    <2> QED
      BY <1>8, <2>1, <2>2 DEF Take, Passed
  <1>12. Facing(pre, Nothing, Both(h, t))
    <2>1. h \in Said /\ t \in Said /\ Nothing \in Said
      BY <1>7, Joining, Zenon DEF Facing
    <2>2. Both(h, t) \in Said /\ Both(Nothing, Both(h, t)) = Both(h, t)
      BY <2>1, Joining, Zenon
    <2> QED
      BY <1>7, <2>1, <2>2, Zenon DEF Facing
  <1>13. PICK u, z : u = Both(h, t) /\ z = Nothing
    OBVIOUS
  <1>14. Facing(pre, z, u) /\ Passed(z, next)
    BY <1>11, <1>12, <1>13, Zenon
  <1>15. CASE n = 0
    <2>1. x = <<>>
      BY <1>2, <1>3, <1>4, <1>15 DEF Content
    <2>2. h = Nothing
      BY <1>2, <1>3, <1>4, <2>1, StructsHead, Zenon
    <2>3. u = t
      <3>1. t \in Said
        BY <1>7, Zenon DEF Facing
      <3> QED
        BY <1>13, <2>2, <3>1, Joining, Zenon
    <2>4. next = rest
      BY <1>10, <1>15, Zenon
    <2>5. Matches(next, ys, Whole(input).values, Refusal(input)) /\ u = Text(next, ys)
      BY <1>1, <1>4, <2>3, <2>4, Zenon
    <2> QED
      BY <1>7, <1>9, <1>14, <2>5, OutsideNext, Zenon
  <1>16. CASE n # 0
    <2>1. x # <<>>
      <3>1. Len(x) # 0
        BY <1>3, <1>4, <1>16, Zenon
      <3> QED
        BY <1>2, <3>1 DEF Content
    <2>2. PICK row, xt : row = Head(x) /\ xt = Tail(x)
      OBVIOUS
    <2>3. /\ row \in Seq(Seq(Octet)) /\ FitsStruct(of, row)
          /\ xt \in Content /\ FitsStructs(of, xt) /\ Len(xt) = Len(x) - 1
          /\ h = Both(Struct(of, row), Structs(of, xt))
      BY <1>2, <1>3, <1>4, <2>1, <2>2, StructsHead, Zenon
    <2>4. PICK f : f = Times(n - 1, of)
      OBVIOUS
    <2>5. f \in Field /\ f.k = "times" /\ f.n = n - 1 /\ f.of = of
      <3>1. n - 1 \in Nat
        BY <1>2, <1>4, <1>16
      <3> QED
        BY <1>2, <1>4, <2>4, <3>1 DEF Times, Field
    <2>6. Suits(f, xt, Whole(input).values) /\ f.k \notin {"close", "first"}
      BY <1>3, <1>4, <2>3, <2>5 DEF Suits
    <2>7. Refusal(input) \in BOOLEAN
      BY <1>7, Follows DEF Facing
    <2>8. PICK b, zs : b = << f >> \o rest /\ zs = << xt >> \o ys
      OBVIOUS
    <2>9. /\ Matches(b, zs, Whole(input).values, Refusal(input))
          /\ Text(b, zs) = Both(Speak(f, xt), t)
      <3>1. PICK v, r : v = Whole(input).values /\ r = Refusal(input)
        OBVIOUS
      <3>2. /\ f \in Field /\ f.k \notin {"close", "first"} /\ xt \in Content
            /\ r \in BOOLEAN /\ Suits(f, xt, v) /\ Matches(rest, ys, v, r)
        BY <1>1, <1>4, <2>3, <2>5, <2>6, <2>7, <3>1, Zenon
      <3>3. /\ Matches(<< f >> \o rest, << xt >> \o ys, v, r)
            /\ Text(<< f >> \o rest, << xt >> \o ys) = Both(Speak(f, xt), Text(rest, ys))
        BY ONLY <3>2, MatchCons, SMT
      <3> QED
        BY <1>4, <2>8, <3>1, <3>3, Zenon
    <2>10. PICK ws : ws = Spread(row) \o zs
      OBVIOUS
    <2>11. of \in Seq(Elem)
      BY <1>2, <1>4, Zenon
    <2>12. /\ Matches(of \o b, ws, Whole(input).values, Refusal(input))
           /\ Text(of \o b, ws) = Both(Struct(of, row), Text(b, zs))
      <3>1. PICK v, r : v = Whole(input).values /\ r = Refusal(input)
        OBVIOUS
      <3>2. /\ of \in Seq(Elem) /\ row \in Seq(Seq(Octet)) /\ FitsStruct(of, row)
            /\ r \in BOOLEAN /\ Matches(b, zs, v, r)
        BY <2>3, <2>7, <2>9, <2>11, <3>1, Zenon
      <3>3. /\ Matches(of \o b, Spread(row) \o zs, v, r)
            /\ Text(of \o b, Spread(row) \o zs) = Both(Struct(of, row), Text(b, zs))
        <4>1. Matches(of \o b, Spread(row) \o zs, v, r)
          BY ONLY <3>2, MatchSpread, Zenon
        <4>2. Text(of \o b, Spread(row) \o zs) = Both(Struct(of, row), Text(b, zs))
          <5>1. Voiced(b, zs)
            BY <3>2, MatchVoiced
          <5>2. /\ Voiced(of, Spread(row)) /\ Len(Spread(row)) = Len(of)
                /\ Text(of, Spread(row)) = Struct(of, row)
            BY <3>2, SpreadText
          <5> QED
            BY <5>1, <5>2, TextJoin
        <4> QED
          BY <4>1, <4>2
      <3> QED
        BY <2>10, <3>1, <3>3, Zenon
    <2>13. next = of \o b
      <3>1. of \in Layout /\ << f >> \in Layout /\ rest \in Layout
        <4>1. of \in Layout
          BY <2>11, Constructors DEF Layout
        <4>2. rest \in Layout
          BY <1>1, <1>4 DEF Matches, Outward
        <4> QED
          BY <2>5, <4>1, <4>2 DEF Layout
      <3>2. PICK i \in Seq(Field), j \in Seq(Field), k \in Seq(Field) :
              i = of /\ j = << f >> /\ k = rest
        BY <3>1 DEF Layout
      <3>3. (i \o j) \o k = i \o (j \o k)
        BY ONLY ConcatAssociative
      <3>4. next = (i \o j) \o k
        BY <1>10, <1>16, <2>4, <3>2
      <3> QED
        BY <2>8, <3>2, <3>3, <3>4
    <2>14. Speak(f, xt) = Structs(of, xt)
      BY <2>5, Zenon DEF Speak
    <2>15. u = Text(next, ws)
      <3>1. /\ Struct(of, row) \in Said /\ Structs(of, xt) \in Said /\ t \in Said
        BY <1>7, <2>3, <2>11, StructType, StructsType, Zenon DEF Facing
      <3>2. Both(Both(Struct(of, row), Structs(of, xt)), t)
              = Both(Struct(of, row), Both(Structs(of, xt), t))
        BY <3>1, Joining, Zenon
      <3> QED
        BY <1>13, <2>3, <2>9, <2>12, <2>13, <2>14, <3>2, Zenon
    <2>16. Matches(next, ws, Whole(input).values, Refusal(input))
      BY <2>12, <2>13, Zenon
    <2> QED
      BY <1>7, <1>9, <1>14, <2>15, <2>16, OutsideNext, Zenon
  <1> QED
    BY <1>15, <1>16

\* The first string of a structure, and the others.
LEMMA StructHead ==
  ASSUME NEW of \in Seq(Elem), NEW row \in Seq(Seq(Octet)), FitsStruct(of, row)
  PROVE  /\ of = <<>> => Struct(of, row) = Nothing
         /\ of # <<>> =>
              /\ Head(of) \in Elem /\ Tail(of) \in Seq(Elem)
              /\ Head(row) \in Seq(Octet) /\ FitsPlain(Head(of), Head(row))
              /\ Tail(row) \in Seq(Seq(Octet)) /\ FitsStruct(Tail(of), Tail(row))
              /\ Struct(of, row) = Both(Plain(Head(of), Head(row)),
                                        Struct(Tail(of), Tail(row)))
  <1> DEFINE p == [n \in 1..Len(row) |-> Plain(of[n], row[n])]
  <1>1. Struct(of, row) = InARow(p) /\ p \in Seq(Said) /\ Len(p) = Len(row)
    <2>1. p \in Seq(Said) /\ Struct(of, row) = InARow(p)
      BY StructType, Zenon DEF Struct
    <2>2. Len(p) = Len(row)
      OBVIOUS
    <2> QED
      BY <2>1, <2>2
  <1>2. Len(row) = Len(of) /\ \A n \in 1..Len(of) : FitsPlain(of[n], row[n])
    BY DEF FitsStruct
  <1>3. ASSUME of = <<>>
        PROVE  Struct(of, row) = Nothing
    <2>1. p = <<>>
      BY <1>2, <1>3
    <2> QED
      BY <1>1, <2>1, RowFew
  <1>4. ASSUME of # <<>>
        PROVE  /\ Head(of) \in Elem /\ Tail(of) \in Seq(Elem)
               /\ Head(row) \in Seq(Octet) /\ FitsPlain(Head(of), Head(row))
               /\ Tail(row) \in Seq(Seq(Octet)) /\ FitsStruct(Tail(of), Tail(row))
               /\ Struct(of, row) = Both(Plain(Head(of), Head(row)),
                                         Struct(Tail(of), Tail(row)))
    <2>1. row # <<>>
      BY <1>2, <1>4
    <2>2. PICK l, m, ot, rt :
            l = Len(of) /\ m = Len(Tail(of)) /\ ot = Tail(of) /\ rt = Tail(row)
      OBVIOUS
    <2>3. /\ Head(of) \in Elem /\ Head(of) = of[1] /\ ot \in Seq(Elem)
          /\ l \in Nat /\ m \in Nat /\ l = m + 1 /\ Len(ot) = m
          /\ \A n \in 1..m : ot[n] = of[n + 1]
      BY <1>4, <2>2, Unjoin, Zenon
    <2>4. /\ Head(row) \in Seq(Octet) /\ Head(row) = row[1] /\ rt \in Seq(Seq(Octet))
          /\ Len(row) = l /\ Len(rt) \in Nat /\ l = Len(rt) + 1
          /\ \A n \in 1..Len(rt) : rt[n] = row[n + 1]
      BY <1>2, <2>1, <2>2, Unjoin, Zenon
    <2>5. Len(rt) = m
      BY <2>3, <2>4
    <2>6. 1 \in 1..l /\ \A n \in 1..m : n + 1 \in 1..l
      BY <2>3
    <2>7. FitsPlain(of[1], row[1]) /\ \A n \in 1..m : FitsPlain(ot[n], rt[n])
      BY <1>2, <2>2, <2>3, <2>4, <2>5, <2>6, Zenon
    <2>8. FitsStruct(ot, rt)
      BY <2>3, <2>5, <2>7, Zenon DEF FitsStruct
    <2>9. p # <<>> /\ Head(p) = Plain(Head(of), Head(row))
      <3>1. p[1] = Plain(of[1], row[1])
        BY <2>4, <2>6
      <3>2. Len(p) = l /\ p # <<>> /\ Head(p) = p[1]
        <4> HIDE DEF p
        <4>1. p \in Seq(Said) /\ Len(p) = l /\ l \in Nat /\ l > 0
          BY <1>1, <2>3, <2>4
        <4> QED
          BY ONLY <4>1, SMT
      <3> QED
        BY <2>3, <2>4, <3>1, <3>2, Zenon
    <2>10. Tail(p) = [n \in 1..Len(rt) |-> Plain(ot[n], rt[n])]
      <3>1. Tail(p) = [n \in 1..(Len(p) - 1) |-> p[n + 1]] /\ Len(p) - 1 = m
        BY <1>1, <2>3, <2>4, <2>9
      <3>2. \A n \in 1..m : p[n + 1] = Plain(ot[n], rt[n])
        BY <2>3, <2>4, <2>5, <2>6
      <3> QED
        BY <2>5, <3>1, <3>2
    <2>11. InARow(p) = Both(Head(p), InARow(Tail(p)))
      BY <1>1, <2>9, RowHead
    <2> HIDE DEF p
    <2>12. Struct(of, row) = Both(Plain(Head(of), Head(row)), Struct(ot, rt))
      BY <1>1, <2>9, <2>10, <2>11, Zenon DEF Struct
    <2> QED
      BY <2>2, <2>3, <2>4, <2>7, <2>8, <2>12, Zenon
  <1> QED
    BY <1>3, <1>4

\* A buffer: its size, and its structure.
LEMMA BufferOn ==
  ASSUME IInv, Next, NEW pre, NEW x, NEW ys, On(pre, x, ys), field.k = "buffer"
  PROVE  Following'
  <1>1. Ready(pre, x, Text(Tail(todo), ys)) /\ Suits(field, x, Whole(input).values)
        /\ Matches(Tail(todo), ys, Whole(input).values, Refusal(input))
    BY DEF On
  <1>2. field.of \in Seq(Elem) /\ x \in Content /\ todo # <<>>
    BY <1>1, FieldKinds DEF Ready
  <1>3. /\ Len(x) = 1 /\ FitsStructs(field.of, x)
        /\ Len(Structs(field.of, x).octets) < MaxSize
    BY <1>1, Zenon DEF Suits, Fits
  <1>4. PICK of, row, c, l, o, h, t, rest :
          /\ of = field.of /\ row = Head(x) /\ c = Structs(of, x) /\ l = Len(c.octets)
          /\ o = PutU16(l) /\ h = Bare(o) /\ rest = Tail(todo) /\ t = Text(rest, ys)
    OBVIOUS
  <1>5. of \in Seq(Elem) /\ row \in Seq(Seq(Octet)) /\ FitsStruct(of, row)
        /\ c = Struct(of, row) /\ c \in Said
    <2>1. x # <<>> /\ Tail(x) = <<>>
      <3>1. x # <<>>
        <4>1. Len(x) = 1
          BY <1>3
        <4> QED
          BY ONLY <4>1
      <3>2. x \in Seq(Seq(Seq(Octet)))
        BY <1>2, Zenon DEF Content
      <3> QED
        BY <1>3, <3>1, <3>2, Unjoin, Zenon
    <2>2. /\ row \in Seq(Seq(Octet)) /\ FitsStruct(of, row)
          /\ c = Both(Struct(of, row), Structs(of, Tail(x)))
          /\ Tail(x) \in Content /\ FitsStructs(of, Tail(x))
      BY <1>2, <1>3, <1>4, <2>1, StructsHead, Zenon
    <2>3. of \in Seq(Elem)
      BY <1>2, <1>4, Zenon
    <2>4. Structs(of, Tail(x)) = Nothing
      BY <2>1, <2>2, <2>3, StructsHead, Zenon
    <2>5. Struct(of, row) \in Said
      BY <2>2, <2>3, StructType
    <2> QED
      BY <2>2, <2>3, <2>4, <2>5, Joining, Zenon
  <1>6. l \in Nat /\ l < MaxSize
    <2>1. c.octets \in Seq(Octet)
      BY <1>5 DEF Said
    <2>2. l \in Nat
      BY <1>4, <2>1
    <2> QED
      BY <1>3, <1>4, <2>2, Zenon
  <1>7. o \in Seq(Octet) /\ Len(o) = 2
    BY <1>4, <1>6, SizeOctets, Zenon
  <1>8. h \in Said /\ h.octets = o /\ h.values = <<>> /\ h.pcrs = <<>>
    BY <1>4, <1>7, BareType, Zenon
  <1>9. Speak(field, x) = Both(h, c)
    BY <1>4 DEF Speak, Spoken
  <1>10. /\ Beginning(pre) /\ lim = Len(input.octets)
         /\ Facing(pre, Both(h, c), t)
    BY <1>1, <1>4, <1>9, Zenon DEF Ready
  <1>11. PICK hc, co : hc = Both(h, c) /\ co = c.octets
    OBVIOUS
  <1>19. hc.octets = o \o co
    BY <1>8, <1>11 DEF Both
  <1>20. co \in Seq(Octet) /\ l = Len(co)
    BY <1>4, <1>5, <1>11 DEF Said
  <1>12. /\ Facing(pre, hc, t) /\ Len(hc.octets) = 2 + l
    <2>1. Len(o \o co) = Len(o) + Len(co)
      BY <1>7, <1>20, Joined
    <2> QED
      BY <1>7, <1>10, <1>11, <1>19, <1>20, <2>1, Zenon
  <1>13. status = "parsing" /\ (ErrShortBuffer \/ Enter)
    BY <1>2, Actions
  <1>14. off \in Nat /\ lim \in Nat
    BY DEF IInv, TypeOK
  <1>15. Has(2) => U16(off) = l
    <2>1. Standing(o \o co)
      BY <1>12, <1>19, Stands, Zenon
    <2> QED
      BY <1>4, <1>6, <1>20, <2>1, Sized, Zenon
  <1>16. /\ Has(2) => Needs = 2 + l
         /\ ~Has(2) => Needs = 2 + 0
    BY <1>15, Zenon DEF Needs
  <1>17. CASE ErrShortBuffer
    <2>1. off + (2 + l) > lim
      <3>1. ~Has(Needs)
        BY <1>17, Zenon DEF ErrShortBuffer
      <3> QED
        BY <1>6, <1>14, <1>16, <3>1 DEF Has
    <2>2. Cut(hc)
      BY <1>12, <1>17, <2>1, Zenon DEF Cut, ErrShortBuffer
    <2> QED
      BY <1>10, <1>12, <2>2, CutShort, Zenon
  <1>18. CASE Enter
    <2>1. /\ Has(Needs) /\ off' = off + 2 /\ lim' = off + Needs
          /\ todo' = of \o <<Close>> \o rest
          /\ input' = input /\ got' = got /\ selected' = selected /\ status' = status
      BY <1>4, <1>18 DEF Enter
    <2>2. Needs = 2 + l
      BY <1>6, <1>14, <1>16, <2>1 DEF Has
    <2>3. t \in Said
      BY <1>12, Zenon DEF Facing
    <2>4. PICK u : u = Both(c, t)
      OBVIOUS
    <2>5. Facing(pre, h, u)
      <3>1. Both(Both(h, c), t) = Both(h, Both(c, t)) /\ Both(c, t) \in Said
        BY <1>5, <1>8, <2>3, Joining, Zenon
      <3> QED
        BY <1>8, <1>11, <1>12, <2>4, <3>1, Zenon DEF Facing
    <2>6. /\ off' = off + Len(h.octets) /\ got' = got \o h.values
          /\ selected' = selected \o h.pcrs
      <3>1. got \o <<>> = got /\ selected \o <<>> = selected
        BY DEF IInv, TypeOK
      <3> QED
        BY <1>7, <1>8, <2>1, <3>1, Zenon
    <2>7. PICK q : q = Both(pre, h)
      OBVIOUS
    <2>8. /\ Beginning(q)' /\ Whole(input) = Both(q, u)
          /\ Whole(input') = Whole(input) /\ Refusal(input') = Refusal(input)
      BY <1>10, <2>1, <2>5, <2>6, <2>7, Further, Zenon
    <2>9. todo' = of \o (<<Close>> \o rest)
      <3>1. of \in Layout /\ <<Close>> \in Layout /\ rest \in Layout
        <4>1. of \in Layout /\ <<Close>> \in Layout
          BY <1>5, Constructors DEF Layout
        <4>2. rest \in Layout
          BY <1>1, <1>4 DEF Matches, Outward
        <4> QED
          BY <4>1, <4>2
      <3>2. PICK i \in Seq(Field), j \in Seq(Field), k \in Seq(Field) :
              i = of /\ j = <<Close>> /\ k = rest
        BY <3>1 DEF Layout
      <3>3. (i \o j) \o k = i \o (j \o k)
        BY ONLY ConcatAssociative
      <3> QED
        BY <2>1, <3>2, <3>3
    <2>10. lim' = off' + Len(Struct(of, row).octets)
      <3>1. off + (2 + l) = (off + 2) + l
        BY <1>6, <1>14
      <3> QED
        BY <1>4, <1>5, <2>1, <2>2, <3>1, Zenon
    <2>11. Matches(rest, ys, Whole(input').values, Refusal(input'))
      BY <1>1, <1>4, <2>8, Zenon
    <2>12. Whole(input') = Both(q, Both(Struct(of, row), Text(rest, ys)))
      BY <1>4, <1>5, <2>4, <2>8, Zenon
    <2>13. Inside(q, of, row, rest, ys)'
      BY <1>5, <2>8, <2>9, <2>10, <2>11, <2>12 DEF Inside
    <2>14. Progress'
      BY <2>13 DEF Progress
    <2> QED
      BY <1>13, <2>1, <2>14, Zenon DEF Following
  <1> QED
    BY <1>13, <1>17, <1>18

\* The test of the first value, which is the last field.
LEMMA FirstOn ==
  ASSUME IInv, Next, NEW pre, NEW x, NEW t, Ready(pre, x, t), t = Nothing,
         field.k = "first",
         \/ Refuses(field, x, Whole(input).values) /\ Refusal(input)
         \/ \E ys : On(pre, x, ys)
  PROVE  Following'
  <1>1. /\ Beginning(pre) /\ lim = Len(input.octets) /\ todo # <<>>
        /\ Facing(pre, Speak(field, x), t)
    BY DEF Ready
  <1>2. Speak(field, x) = Nothing
    BY DEF Speak, Spoken
  <1>3. PICK h : h = Nothing
    OBVIOUS
  <1>4. Facing(pre, h, t)
    BY <1>1, <1>2, <1>3, Zenon
  <1>5. Whole(input).values = got
    <2>1. Whole(input) = pre
      BY <1>3, <1>4, Joining DEF Facing
    <2> QED
      BY <1>1, <2>1, Zenon DEF Beginning
  <1>6. /\ h.octets = <<>> /\ h.values = <<>> /\ h.pcrs = <<>>
        /\ off \in Nat /\ lim \in Nat /\ off <= lim
        /\ got \o <<>> = got /\ selected \o <<>> = selected
    BY <1>3 DEF Nothing, IInv, TypeOK, InBounds
  <1>7. off + Len(h.octets) <= lim /\ off + Len(h.octets) = off
    BY <1>6
  <1>8. CheckFirst /\ status = "parsing"
    <2>1. Needs = 0
      BY DEF Needs
    <2>2. Has(Needs)
      BY <1>6, <2>1 DEF Has
    <2>3. ~ErrShortBuffer
      BY <2>2, Zenon DEF ErrShortBuffer
    <2> QED
      BY <1>1, <2>3, Actions
  <1>9. CASE Refuses(field, x, Whole(input).values) /\ Refusal(input)
    <2>1. ~Leads(field.v, got)
      BY <1>5, <1>9 DEF Refuses
    <2>2. End("unexpected")
      BY <1>8, <2>1 DEF CheckFirst, Leads
    <2> QED
      BY <1>1, <1>4, <1>7, <1>9, <2>2, Refused, Zenon
  <1>10. CASE \E ys : On(pre, x, ys)
    <2>1. PICK ys : On(pre, x, ys)
      BY <1>10
    <2>2. Suits(field, x, Whole(input).values)
          /\ Matches(Tail(todo), ys, Whole(input).values, Refusal(input))
          /\ Ready(pre, x, Text(Tail(todo), ys))
      BY <2>1 DEF On
    <2>3. Leads(field.v, got)
      BY <1>5, <2>2 DEF Suits, Fits
    <2>4. PICK next, u : next = Tail(todo) /\ u = Text(next, ys)
      OBVIOUS
    <2>5. Take(0, <<>>, next)
      BY <1>8, <2>3, <2>4 DEF CheckFirst, Leads
    <2>6. Passed(h, next)
      <3>1. off + 0 = off
        BY <1>6
      <3> QED
        BY <1>6, <1>7, <2>5, <3>1, Zenon DEF Take, Passed
    <2>7. Facing(pre, h, u)
      BY <1>2, <1>3, <2>2, <2>4, Zenon DEF Ready
    <2>8. Matches(next, ys, Whole(input).values, Refusal(input))
      BY <2>2, <2>4, Zenon
    <2> QED
      BY <1>1, <1>8, <2>4, <2>6, <2>7, <2>8, OutsideNext, Zenon
  <1> QED
    BY <1>9, <1>10

\* Octets that the parser does not expect.
LEMMA ExpectedOn ==
  ASSUME IInv, Next, NEW pre, NEW x, NEW t, Ready(pre, x, t), t = Nothing,
         field.k = "expect", Refuses(field, x, Whole(input).values), Refusal(input)
  PROVE  Following'
  <1>1. /\ Beginning(pre) /\ lim = Len(input.octets) /\ todo # <<>>
        /\ Facing(pre, Speak(field, x), t) /\ field \in Field /\ x \in Content
    BY DEF Ready
  <1>2. /\ Len(x) = 1 /\ Len(x[1]) = 1 /\ Len(x[1][1]) = Len(field.v)
        /\ x[1][1] # field.v
    BY DEF Refuses
  <1>3. field \in Elem
    BY <1>1, FieldKinds
  <1>4. x[1][1] \in Seq(Octet)
    <2>1. x[1] \in Seq(Seq(Octet))
      BY <1>1, <1>2 DEF Content
    <2> QED
      BY <1>2, <2>1
  <1>5. PICK s, l, h : s = x[1][1] /\ l = Len(s) /\ h = Plain(field, s)
    OBVIOUS
  <1>6. s \in Seq(Octet) /\ l \in Nat
    BY <1>4, <1>5
  <1>7. h.octets = s
    <2>1. h = Bare(s)
      BY <1>3, <1>5, <1>6, PlainOctets
    <2> QED
      BY <1>6, <2>1, BareType
  <1>8. Speak(field, x) = h
    BY <1>5 DEF Speak, Spoken
  <1>9. Facing(pre, h, t)
    BY <1>1, <1>8, Zenon
  <1>10. Standing(s) /\ off \in Nat /\ lim \in Nat
    BY <1>7, <1>9, Stands, Zenon DEF IInv, TypeOK
  <1>11. Needs = l
    BY <1>2, <1>5, Zenon DEF Needs
  <1>12. status = "parsing" /\ (ErrShortBuffer \/ GetExpected)
    BY <1>1, Actions
  <1>13. CASE ErrShortBuffer
    <2>1. ~Has(l)
      BY <1>11, <1>13, Zenon DEF ErrShortBuffer
    <2>2. off + l > lim
      BY <1>6, <1>10, <2>1 DEF Has
    <2>3. Cut(h)
      BY <1>5, <1>7, <1>13, <2>2, Zenon DEF Cut, ErrShortBuffer
    <2> QED
      BY <1>1, <1>9, <2>3, CutShort, Zenon
  <1>14. CASE GetExpected
    <2>1. Has(l) /\ IF Octets(off, l) = field.v THEN Take(Len(field.v), <<>>, Tail(todo))
                                                ELSE End("unexpected")
      BY <1>2, <1>5, <1>11, <1>14, Zenon DEF GetExpected
    <2>2. Octets(off, l) = s
      <3>1. 0 + l <= Len(s) /\ off + (0 + l) <= lim /\ 0 \in Nat
        BY <1>5, <1>6, <1>10, <2>1 DEF Has
      <3>2. Octets(off + 0, l) = SubSeq(s, 0 + 1, 0 + l)
        BY <1>6, <1>10, <3>1, ReadsAs
      <3>3. off + 0 = off /\ 0 + 1 = 1 /\ 0 + l = l
        BY <1>6, <1>10
      <3> QED
        BY <1>5, <1>6, <3>2, <3>3, Suffix
    <2>3. End("unexpected")
      BY <1>2, <1>5, <2>1, <2>2, Zenon
    <2>4. off + Len(h.octets) <= lim
      BY <1>5, <1>7, <2>1, Zenon DEF Has
    <2> QED
      BY <1>1, <1>9, <2>3, <2>4, Refused, Zenon
  <1> QED
    BY <1>12, <1>13, <1>14

\* A step outside of a buffer.
LEMMA OutsideStep ==
  ASSUME IInv, Next, input \in Inputs, input.outcome # "any",
         NEW pre, NEW xs, Outside(pre, xs)
  PROVE  Following'
  <1>1. /\ Beginning(pre) /\ pre \in Said
        /\ Matches(todo, xs, Whole(input).values, Refusal(input))
        /\ Whole(input) = Both(pre, Text(todo, xs)) /\ lim = Len(input.octets)
    BY DEF Outside, Beginning
  <1>2. Refusal(input) \in BOOLEAN
    BY Follows
  <1>3. CASE todo = <<>>
    <2>1. ~Refusal(input) /\ Text(todo, xs) = Nothing
      BY <1>1, <1>2, <1>3, MatchEnd
    <2>2. PICK h : h = Nothing
      OBVIOUS
    <2>3. Facing(pre, h, h) /\ Whole(input) = pre
      <3>1. h \in Said /\ Both(h, h) = h /\ Both(pre, h) = pre
        BY <1>1, <2>2, Joining, Zenon
      <3>2. Whole(input) = pre
        BY <1>1, <2>1, <2>2, <3>1, Zenon
      <3> QED
        BY <1>1, <3>1, <3>2, Zenon DEF Facing, Beginning
    <2>4. off + Len(h.octets) <= lim
      BY <2>2 DEF Nothing, IInv, TypeOK, InBounds
    <2>5. /\ input.outcome = "done"
          /\ input.values = Whole(input).values /\ input.pcrs = Whole(input).pcrs
      BY <1>1, <2>1, <2>2, <2>3, <2>4, WholeThere, Zenon
    <2>6. Return
      BY <1>3, Actions
    <2>7. /\ status' = "done" /\ input' = input /\ got' = got /\ selected' = selected
      BY <2>6 DEF Return, End
    <2>8. Whole(input).values = got /\ Whole(input).pcrs = selected
      BY <1>1, <2>3, Zenon DEF Beginning
    <2>9. Decoded'
      BY <2>5, <2>7, <2>8 DEF Decoded
    <2> QED
      BY <2>7, <2>9 DEF Following
  <1>4. CASE todo # <<>>
    <2>1. PICK x, ys, t : x = Head(xs) /\ ys = Tail(xs) /\ t = Text(Tail(todo), ys)
      OBVIOUS
    <2>2. /\ field \in Field /\ field.k # "close"
          /\ x \in Content /\ Speak(field, x) \in Said /\ t \in Said
          /\ Text(todo, xs) = Both(Speak(field, x), t)
          /\ field.k = "first" => t = Nothing
          /\ \/ /\ Refusal(input) /\ Refuses(field, x, Whole(input).values)
                /\ t = Nothing
             \/ /\ Suits(field, x, Whole(input).values)
                /\ Matches(Tail(todo), ys, Whole(input).values, Refusal(input))
      BY <1>1, <1>2, <1>4, <2>1, MatchHead, Zenon DEF field
    <2>3. Ready(pre, x, t)
      BY <1>1, <1>4, <2>2, Zenon DEF Ready, Facing, Beginning
    <2>4. CASE Refusal(input) /\ Refuses(field, x, Whole(input).values) /\ t = Nothing
      <3>1. field.k = "expect" \/ field.k = "first"
        BY <2>4, Zenon DEF Refuses
      <3> QED
        BY <2>3, <2>4, <3>1, ExpectedOn, FirstOn, Zenon
    <2>5. CASE /\ Suits(field, x, Whole(input).values)
               /\ Matches(Tail(todo), ys, Whole(input).values, Refusal(input))
      <3>1. On(pre, x, ys)
        BY <2>1, <2>3, <2>5, Zenon DEF On
      <3>2. CASE field.k = "list"
        BY <3>1, <3>2, ListOn, Zenon
      <3>3. CASE field.k = "buffer"
        BY <3>1, <3>3, BufferOn, Zenon
      <3>4. CASE field.k = "times"
        BY <3>1, <3>4, TimesOn, Zenon
      <3>5. CASE field.k = "first"
        BY <2>2, <2>3, <3>1, <3>5, FirstOn, Zenon
      <3>6. CASE field.k \notin {"list", "buffer", "times", "first", "close"}
        BY <3>1, <3>6, StringOn, Zenon
      <3> QED
        BY <2>2, <3>2, <3>3, <3>4, <3>5, <3>6
    <2> QED
      BY <2>2, <2>4, <2>5
  <1> QED
    BY <1>3, <1>4

\* A step in a buffer.  The contents of the buffer are all there, since the
\* buffer has been entered only when they were.
LEMMA InsideStep ==
  ASSUME IInv, Next, input \in Inputs, input.outcome # "any",
         NEW pre, NEW of, NEW row, NEW after, NEW xs, Inside(pre, of, row, after, xs)
  PROVE  Following'
  <1>1. /\ Beginning(pre) /\ pre \in Said
        /\ of \in Seq(Elem) /\ row \in Seq(Seq(Octet)) /\ FitsStruct(of, row)
        /\ todo = of \o (<<Close>> \o after)
        /\ Matches(after, xs, Whole(input).values, Refusal(input))
        /\ Whole(input) = Both(pre, Both(Struct(of, row), Text(after, xs)))
        /\ lim = off + Len(Struct(of, row).octets)
    BY DEF Inside, Beginning
  <1>2. PICK t : t = Text(after, xs)
    OBVIOUS
  <1>3. t \in Said
    <2>1. Refusal(input) \in BOOLEAN
      BY Follows
    <2>2. Voiced(after, xs)
      BY <1>1, <2>1, MatchVoiced
    <2> QED
      BY <1>2, <2>2, TextType
  <1>4. after \in Seq(Field) /\ Close \in Field
    BY <1>1, Constructors DEF Matches, Outward, Layout
  <1>5. off \in Nat /\ lim \in Nat /\ off <= lim
    BY DEF IInv, TypeOK, InBounds
  <1>6. PICK tl : tl = <<Close>> \o after
    OBVIOUS
  <1>7. tl \in Seq(Field) /\ tl # <<>> /\ Head(tl) = Close /\ Tail(tl) = after
    BY <1>4, <1>6
  <1>8. CASE of = <<>>
    <2>1. Struct(of, row) = Nothing
      BY <1>1, <1>8, StructHead, Zenon
    <2>2. Len(Nothing.octets) = 0
      BY DEF Nothing
    <2>3. lim = off
      BY <1>1, <1>5, <2>1, <2>2
    <2>4. todo = tl
      BY <1>1, <1>6, <1>7, <1>8
    <2>5. todo # <<>> /\ field.k = "close" /\ Tail(todo) = after
      BY <1>7, <2>4 DEF field, Close
    <2>6. Leave /\ status = "parsing"
      <3>1. Needs = 0
        BY <2>5 DEF Needs
      <3>2. Has(Needs)
        BY <1>5, <3>1 DEF Has
      <3>3. ~ErrShortBuffer
        BY <3>2, Zenon DEF ErrShortBuffer
      <3> QED
        BY <2>5, <3>3, Actions
    <2>7. /\ off' = off /\ lim' = Len(input.octets) /\ todo' = after
          /\ input' = input /\ got' = got /\ selected' = selected /\ status' = status
      BY <2>3, <2>5, <2>6 DEF Leave
    <2>8. Beginning(pre)'
      BY <1>1, <2>7 DEF Beginning
    <2>9. Whole(input) = Both(pre, t)
      BY <1>1, <1>2, <1>3, <2>1, Joining
    <2>10. /\ Matches(todo', xs, Whole(input').values, Refusal(input'))
           /\ Whole(input') = Both(pre, Text(todo', xs)) /\ lim' = Len(input'.octets)
      BY <1>1, <1>2, <2>7, <2>9, Zenon
    <2>11. Outside(pre, xs)'
      BY <2>8, <2>10 DEF Outside
    <2>12. Progress'
      BY <2>11 DEF Progress
    <2> QED
      BY <2>6, <2>7, <2>12, Zenon DEF Following
  <1>9. CASE of # <<>>
    <2>1. PICK f, x, ot, rt, h, c, u :
            /\ f = Head(of) /\ x = Head(row) /\ ot = Tail(of) /\ rt = Tail(row)
            /\ h = Plain(f, x) /\ c = Struct(ot, rt) /\ u = Both(c, t)
      OBVIOUS
    <2>2. /\ f \in Elem /\ ot \in Seq(Elem) /\ x \in Seq(Octet) /\ FitsPlain(f, x)
          /\ rt \in Seq(Seq(Octet)) /\ FitsStruct(ot, rt)
          /\ Struct(of, row) = Both(h, c)
      BY <1>1, <1>9, <2>1, StructHead, Zenon
    <2>3. h \in Said /\ c \in Said
      BY <2>1, <2>2, PlainType, StructType
    <2>4. u \in Said /\ Both(Both(h, c), t) = Both(h, u)
      <3>1. Both(c, t) \in Said
        BY <1>3, <2>3, Joining, Zenon
      <3>2. Both(Both(h, c), t) = Both(h, Both(c, t))
        BY <1>3, <2>3, Joining, Zenon
      <3> QED
        BY <2>1, <3>1, <3>2, Zenon
    <2>5. Facing(pre, h, u)
      BY <1>1, <1>2, <2>2, <2>3, <2>4, Zenon DEF Facing, Beginning
    <2>6. PICK g : g = of \o tl
      OBVIOUS
    <2>7. g # <<>> /\ Head(g) = f /\ Tail(g) = ot \o tl
      <3>1. PICK a \in Seq(Field), b \in Seq(Field) : a = of /\ b = tl
        BY <1>1, <1>7, Constructors
      <3>2. a # <<>> => /\ a \o b # <<>> /\ Head(a \o b) = Head(a)
                        /\ Tail(a \o b) = Tail(a) \o b
        OBVIOUS
      <3> QED
        BY <1>9, <2>1, <2>6, <3>1, <3>2, Zenon
    <2>8. todo # <<>> /\ field = f /\ Tail(todo) = ot \o tl
      BY <1>1, <1>6, <2>6, <2>7, Zenon DEF field
    <2>9. PICK next : next = ot \o tl
      OBVIOUS
    <2>10. Passed(h, next) \/ Cut(h)
      <3>1. field \in Elem /\ FitsPlain(field, x) /\ Facing(pre, Plain(field, x), u)
        BY <2>1, <2>2, <2>5, <2>8, Zenon
      <3>2. Passed(Plain(field, x), Tail(todo)) \/ Cut(Plain(field, x))
        BY <2>2, <2>8, <3>1, PlainStep, Zenon
      <3> QED
        BY <2>1, <2>8, <2>9, <3>2, Zenon
    <2>11. PICK m \in Nat, n \in Nat : m = Len(h.octets) /\ n = Len(c.octets)
      <3>1. h.octets \in Seq(Octet) /\ c.octets \in Seq(Octet)
        BY <2>3 DEF Said
      <3> QED
        BY <3>1
    <2>12. lim = off + (m + n)
      <3>1. Both(h, c).octets = h.octets \o c.octets
        BY DEF Both
      <3>2. h.octets \in Seq(Octet) /\ c.octets \in Seq(Octet)
        BY <2>3 DEF Said
      <3>3. Len(h.octets \o c.octets) = Len(h.octets) + Len(c.octets)
        BY <3>2, Joined
      <3> QED
        BY <1>1, <2>2, <2>11, <3>1, <3>3, Zenon
    <2>13. ~Cut(h)
      <3>1. ~(off + m > lim)
        BY <1>5, <2>12
      <3> QED
        BY <2>11, <3>1, Zenon DEF Cut
    <2>14. Passed(h, next)
      BY <2>10, <2>13
    <2>15. PICK q : q = Both(pre, h)
      OBVIOUS
    <2>16. /\ Beginning(q)' /\ Whole(input) = Both(q, u)
           /\ input' = input /\ status' = status /\ todo' = next /\ lim' = lim
           /\ off' = off + m
           /\ Whole(input') = Whole(input) /\ Refusal(input') = Refusal(input)
      BY <1>1, <2>5, <2>11, <2>14, <2>15, Advance, ZenonT(40)
    <2>17. lim' = off' + Len(Struct(ot, rt).octets)
      <3>1. off + (m + n) = (off + m) + n
        BY <1>5
      <3> QED
        BY <2>1, <2>11, <2>12, <2>16, <3>1, Zenon
    <2>18. todo' = ot \o (<<Close>> \o after)
      BY <1>6, <2>9, <2>16, Zenon
    <2>19. /\ Matches(after, xs, Whole(input').values, Refusal(input'))
           /\ Whole(input') = Both(q, Both(Struct(ot, rt), Text(after, xs)))
      BY <1>1, <1>2, <2>1, <2>16, Zenon
    <2>20. Inside(q, ot, rt, after, xs)'
      BY <2>2, <2>16, <2>17, <2>18, <2>19 DEF Inside
    <2>21. Progress'
      BY <2>20 DEF Progress
    <2>22. status = "parsing"
      BY Actions, Zenon
    <2> QED
      BY <2>16, <2>21, <2>22, Zenon DEF Following
  <1> QED
    BY <1>8, <1>9

\* A parser starts where the device starts.
LEMMA FollowingInitially == Init => Following
  <1> SUFFICES ASSUME Init, input \in Inputs, input.outcome # "any"
               PROVE  Progress
    BY DEF Following, Init
  <1>1. PICK pre, xs : pre = Nothing /\ xs = input.said
    OBVIOUS
  <1>2. /\ Whole(input) \in Said
        /\ Whole(input) = Text(layout(input), xs)
        /\ Matches(layout(input), xs, Whole(input).values, Refusal(input))
    BY <1>1, Follows
  <1>3. /\ todo = layout(input) /\ off = 0 /\ lim = Len(input.octets)
        /\ got = <<>> /\ selected = <<>>
    BY DEF Init
  <1>4. Beginning(pre)
    <2>1. pre \in Said
      BY <1>1, Joining
    <2>2. Len(pre.octets) = off /\ pre.values = got /\ pre.pcrs = selected
      BY <1>1, <1>3 DEF Nothing
    <2> QED
      BY <2>1, <2>2 DEF Beginning
  <1>5. Whole(input) = Both(pre, Text(todo, xs))
    BY <1>1, <1>2, <1>3, Joining
  <1>6. Matches(todo, xs, Whole(input).values, Refusal(input))
    BY <1>2, <1>3, Zenon
  <1>7. Outside(pre, xs)
    BY <1>3, <1>4, <1>5, <1>6 DEF Outside
  <1> QED
    BY <1>7 DEF Progress

\* And every step follows it.
LEMMA FollowingAlways == IInv /\ Following /\ [Next]_vars => Following'
  <1> SUFFICES ASSUME IInv, Following, [Next]_vars PROVE Following'
    OBVIOUS
  <1>1. CASE UNCHANGED vars
    <2>1. /\ input' = input /\ todo' = todo /\ off' = off /\ lim' = lim /\ got' = got
          /\ selected' = selected /\ status' = status
      BY <1>1 DEF vars
    <2> QED
      BY <2>1 DEF Following, Progress, Decoded, Outside, Inside, Beginning
  <1>2. CASE Next
    <2>1. input' = input
      BY <1>2 DEF Next, GetInt, GetExpected, UnmarshalTPM2B, GetBitmap, GetDetail,
                  Enter, Leave, GetCount, Iterate, CheckFirst, ErrShortBuffer, Return,
                  Take, End
    <2> SUFFICES ASSUME input \in Inputs, input.outcome # "any"
                 PROVE  Following'
      BY <2>1, Zenon DEF Following
    <2>2. Progress
      BY <1>2, Actions, Zenon DEF Following
    <2>3. CASE \E pre, xs : Outside(pre, xs)
      BY <1>2, <2>3, OutsideStep, Zenon
    <2>4. CASE \E pre, of, row, after, xs : Inside(pre, of, row, after, xs)
      BY <1>2, <2>4, InsideStep, Zenon
    <2> QED
      BY <2>2, <2>3, <2>4, Zenon DEF Progress
  <1> QED
    BY <1>1, <1>2
-----------------------------------------------------------------------------
(* The theorems.                                                           *)

\* Every reachable state of every parser satisfies the invariant.
THEOREM Invariant == Spec => []IInv
  BY Initial, Preserved, PTL DEF Spec

\* Sizes and offsets stay numbers whatever the octets of the reply
\* (UnmarshalTPM2B and the GetU functions as the parsers of the package use
\* them).
THEOREM TypeCorrect == Spec => []TypeOK
  <1>1. IInv => TypeOK
    BY DEF IInv
  <1> QED
    BY <1>1, Invariant, PTL

\* No parser slices a reply past its end: a truncated or garbled reply is
\* an error and never a panic.
THEOREM NoReadPastEnd == Spec => []InBounds
  <1>1. IInv => InBounds
    BY DEF IInv
  <1> QED
    BY <1>1, Invariant, PTL

\* The loops over counted lists keep no more values than octets they have
\* read, however large the count.
THEOREM CountsArePaidFor == Spec => []KeptIsPaidFor
  <1>1. IInv => KeptIsPaidFor
    BY DEF IInv
  <1> QED
    BY <1>1, Invariant, PTL

\* Every parser returns what the device has said, whatever it says: the values
\* and selections of the fields that are kept, in order, or the error that what
\* the parser does not expect calls for.  Of a reply cut anywhere within what
\* the device says it returns ErrShortBuffer, never a value.
THEOREM RepliesDecoded == Spec => []Decodes
  <1>1. Following /\ input \in Inputs => Decodes
    BY DEF Following, Decodes, Decoded
  <1>2. Init => input \in Inputs
    BY DEF Init
  <1>3. input \in Inputs /\ [Next]_vars => (input \in Inputs)'
    BY DEF Next, GetInt, GetExpected, UnmarshalTPM2B, GetBitmap, GetDetail,
                  Enter, Leave, GetCount, Iterate, CheckFirst, ErrShortBuffer, Return,
                  Take, End, vars
  <1> QED
    BY <1>1, <1>2, <1>3, FollowingInitially, FollowingAlways, Initial, Preserved,
       PTL DEF Spec
=============================================================================
