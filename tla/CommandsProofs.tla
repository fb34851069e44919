-------------------------- MODULE CommandsProofs --------------------------
(***************************************************************************)
(* Every command is understood as it was meant, none is refused, and what  *)
(* was sealed, wrapped or bound comes out as it went in: for every hash,   *)
(* every group, all secrets and all PCR values.                            *)
(*                                                                         *)
(* First what the device reads of each command and of each public area,    *)
(* then the invariant, then one lemma for each action.                     *)
(***************************************************************************)
EXTENDS Commands, WrapsProofs

-----------------------------------------------------------------------------
(* Selections of PCRs.                                                     *)

\* The selections that the program makes.
LEMMA Selections ==
  ASSUME NEW sel \in {<<>>, Selection, TwoBanks}
  PROVE  /\ Starts(<<"pcrs">>, <<marshalPCRSelectionList(sel)>>,
                   marshalPCRSelectionList(sel))
         /\ marshalPCRSelectionList(sel) \in Octets
  <1>1. CASE sel = <<>>
    <2>1. marshalPCRSelectionList(sel) = PutU32(0) \o <<>>
      <3>1. [i \in DOMAIN <<>> |-> BankOctets(<<>>[i])] = <<>> /\ Len(<<>>) = 0
        OBVIOUS
      <3>2. FlattenSeq(<<>>) = <<>>
        BY FlattenFew
      <3>3. marshalPCRSelectionList(<<>>)
              = PutU32(Len(<<>>)) \o FlattenSeq([i \in DOMAIN <<>> |-> BankOctets(<<>>[i])])
        BY Zenon DEF marshalPCRSelectionList, BankOctets
      <3> QED
        BY <1>1, <3>1, <3>2, <3>3
    <2>2. <<>> \in Octets /\ Length(<<>>) = 6 * 0
      BY Lengths
    <2>3. 0 \in Octet
      BY DEF Octet
    <2> QED
      BY <2>1, <2>2, <2>3, ListOctets, Zenon
  <1>2. CASE sel = Selection
    <2>1. PICK b : b = [hash |-> algSHA256, pcrs |-> {0, 7, 23}]
      OBVIOUS
    <2>2. sel = <<b>>
      BY <1>2, <2>1 DEF Selection
    <2>3. BankOctets(b) \in Octets /\ Length(BankOctets(b)) = 6 * 1
      <3>1. b.hash \in Octets /\ Length(b.hash) = 2
        BY <2>1, Algorithms
      <3> QED
        BY <3>1, BankLength
    <2>4. marshalPCRSelectionList(sel) = PutU32(1) \o BankOctets(b)
      <3>1. marshalPCRSelectionList(sel)
              = PutU32(Len(sel)) \o FlattenSeq([i \in DOMAIN sel |-> BankOctets(sel[i])])
        BY Zenon DEF marshalPCRSelectionList, BankOctets
      <3>2. [i \in DOMAIN sel |-> BankOctets(sel[i])] = <<BankOctets(b)>> /\ Len(sel) = 1
        BY <2>2
      <3>3. FlattenSeq(<<BankOctets(b)>>) = BankOctets(b)
        BY FlattenFew
      <3> QED
        BY <3>1, <3>2, <3>3
    <2>5. 1 \in Octet
      BY DEF Octet
    <2> QED
      BY <2>3, <2>4, <2>5, ListOctets, Zenon
  <1>3. CASE sel = TwoBanks
    <2>1. PICK a, b : /\ a = [hash |-> algSHA256, pcrs |-> {}]
                      /\ b = [hash |-> PutU16(4), pcrs |-> {8}]
      OBVIOUS
    <2>2. sel = <<a, b>>
      BY <1>3, <2>1 DEF TwoBanks
    <2>3. /\ BankOctets(a) \in Octets /\ Length(BankOctets(a)) = 6
          /\ BankOctets(b) \in Octets /\ Length(BankOctets(b)) = 6
      <3>1. /\ a.hash \in Octets /\ Length(a.hash) = 2
            /\ b.hash \in Octets /\ Length(b.hash) = 2
        BY <2>1, Algorithms, U16s
      <3> QED
        BY <3>1, BankLength
    <2>4. marshalPCRSelectionList(sel) = PutU32(2) \o (BankOctets(a) \o BankOctets(b))
      <3>1. marshalPCRSelectionList(sel)
              = PutU32(Len(sel)) \o FlattenSeq([i \in DOMAIN sel |-> BankOctets(sel[i])])
        BY Zenon DEF marshalPCRSelectionList, BankOctets
      <3>2. /\ [i \in DOMAIN sel |-> BankOctets(sel[i])] = <<BankOctets(a), BankOctets(b)>>
            /\ Len(sel) = 2
        BY <2>2
      <3>3. FlattenSeq(<<BankOctets(a), BankOctets(b)>>) = BankOctets(a) \o BankOctets(b)
        BY FlattenFew
      <3> QED
        BY <3>1, <3>2, <3>3
    <2>5. PICK banks : banks = BankOctets(a) \o BankOctets(b)
      OBVIOUS
    <2>6. banks \in Octets /\ Length(banks) = 6 + 6
      BY <2>3, <2>5, Longer, Zenon
    <2>7. Length(banks) = 6 * 2 /\ 2 \in Octet
      BY <2>6 DEF Octet
    <2> QED
      BY <2>4, <2>5, <2>6, <2>7, ListOctets, Zenon
  <1> QED
    BY <1>1, <1>2, <1>3

-----------------------------------------------------------------------------
(* Commands.                                                               *)

\* The fields of an authorization.
AuthKinds == <<"u32", "2b", "u8", "2b">>

\* Kinds of fields once and twice.
LEMMA TimesFew ==
  ASSUME NEW kinds \in Seq(Kinds), kinds # <<>>
  PROVE  /\ Times(0, kinds) = <<>>
         /\ Times(1, kinds) = kinds
         /\ Times(2, kinds) = kinds \o kinds
  <1> DEFINE n == Len(kinds)
  <1>1. n \in Nat \ {0} /\ \A i \in 1..n : kinds[i] \in Kinds
    BY EmptySeq, ElementOfSeq
  <1>2. kinds = [i \in 1..n |-> kinds[i]] /\ DOMAIN kinds = 1..n
    BY LenProperties
  <1>3. kinds \o kinds \in Seq(Kinds) /\ Len(kinds \o kinds) = n + n
        /\ \A i \in 1..(n + n) : (kinds \o kinds)[i] = IF i <= n THEN kinds[i]
                                                      ELSE kinds[i - n]
    BY ConcatProperties
  <1> HIDE DEF n
  <1>4. ASSUME NEW i \in 1..n PROVE 1 + ((i - 1) % n) = i
    <2>1. i - 1 \in 0..(n - 1)
      BY <1>1
    <2>2. (i - 1) % n = i - 1
      BY <1>1, <2>1, Small
    <2> QED
      BY <2>2
  <1>5. ASSUME NEW i \in (n + 1)..(n + n) PROVE 1 + ((i - 1) % n) = i - n
    <2>1. i - 1 - n \in 0..(n - 1)
      BY <1>1
    <2>4. PICK r \in 0..(n - 1) : r = i - 1 - n
      BY <2>1
    <2>5. (n * 1 + r) % n = r
      BY <1>1, Remainder
    <2>2. (n * 1 + (i - 1 - n)) % n = i - 1 - n
      BY <2>4, <2>5, Zenon
    <2>3. n * 1 + (i - 1 - n) = i - 1
      BY <1>1
    <2> QED
      BY <2>2, <2>3, <1>1
  <1>6. Times(0, kinds) = <<>>
    <2>1. 0 * n = 0
      BY <1>1
    <2> QED
      BY <2>1 DEF Times, n
  <1>7. Times(1, kinds) = kinds
    <2>1. 1 * n = n
      BY <1>1
    <2>2. Times(1, kinds) = [i \in 1..n |-> kinds[1 + ((i - 1) % n)]]
      BY <2>1 DEF Times, n
    <2>3. \A i \in 1..n : kinds[1 + ((i - 1) % n)] = kinds[i]
      BY <1>4
    <2> QED
      BY <2>2, <2>3, <1>2
  <1>8. Times(2, kinds) = kinds \o kinds
    <2>1. 2 * n = n + n
      BY <1>1
    <2>2. Times(2, kinds) = [i \in 1..(n + n) |-> kinds[1 + ((i - 1) % n)]]
      BY <2>1 DEF Times, n
    <2>3. ASSUME NEW i \in 1..(n + n)
          PROVE  kinds[1 + ((i - 1) % n)] = IF i <= n THEN kinds[i] ELSE kinds[i - n]
      <3>1. CASE i <= n
        <4>1. i \in 1..n
          BY <3>1, <1>1
        <4> QED
          BY <3>1, <4>1, <1>4
      <3>2. CASE ~(i <= n)
        <4>1. i \in (n + 1)..(n + n)
          BY <3>2, <1>1
        <4> QED
          BY <3>2, <4>1, <1>5
      <3> QED
        BY <3>1, <3>2
    <2>4. PICK t : t = kinds \o kinds
      OBVIOUS
    <2>5. t = [i \in 1..(n + n) |-> t[i]]
      BY <1>3, <2>4, LenProperties
    <2>6. \A i \in 1..(n + n) : t[i] = kinds[1 + ((i - 1) % n)]
      BY <1>3, <2>3, <2>4
    <2> QED
      BY <2>2, <2>4, <2>5, <2>6
  <1> QED
    BY <1>6, <1>7, <1>8

\* Fields that follow each other.
LEMMA FieldParts ==
  ASSUME NEW a \in Seq(Octets), NEW b \in Seq(Octets)
  PROVE  /\ a \o b \in Seq(Octets)
         /\ Len(a) \in Nat /\ Len(b) \in Nat /\ Len(a \o b) = Len(a) + Len(b)
         /\ \A i \in 1..Len(a) : (a \o b)[i] = a[i]
         /\ \A i \in 1..Len(b) : (a \o b)[Len(a) + i] = b[i]
         /\ SubSeq(a \o b, 1, Len(a)) = a
         /\ SubSeq(a \o b, Len(a) + 1, Len(a) + Len(b)) = b
  BY Parts

\* The fields of a command, those of its authorizations, and how many of the
\* first come before its parameters.
ReadAs(command, form, fields, heads, auths) ==
  /\ form = Forms[command.cc]
  /\ fields = CommandFields(form, command) /\ fields # None /\ auths # None
  /\ \/ /\ command.sessions = TRUE /\ form.auths > 0
        /\ heads = form.handles + 1
        /\ auths = SessionFields(form, fields[heads])
     \/ /\ command.sessions = FALSE /\ ~(form.auths > 0)
        /\ heads = form.handles + 0
        /\ auths = <<>>

\* What is read of a command whose fields are these.
LEMMA ReadingIs ==
  ASSUME NEW command, NEW form, NEW fields, NEW heads, NEW auths,
         ReadAs(command, form, fields, heads, auths)
  PROVE  Reading(command) = [handles |-> SubSeq(fields, 1, form.handles),
                             auths   |-> [i \in 1..form.auths |-> auths[4 * i - 3]],
                             params  |-> SubSeq(fields, heads + 1, Len(fields))]
  <1> DEFINE all == [handles |-> SubSeq(fields, 1, form.handles),
                     auths   |-> [i \in 1..form.auths |-> auths[4 * i - 3]],
                     params  |-> SubSeq(fields, heads + 1, Len(fields))]
             has == IF fields # None /\ command.sessions
                    THEN SessionFields(form, fields[heads]) ELSE <<>>
  <1>0. heads = form.handles + (IF command.sessions THEN 1 ELSE 0)
    BY DEF ReadAs
  <1>1. has = auths /\ fields # None /\ auths # None
    BY DEF ReadAs
  <1>3. form.auths > 0 <=> command.sessions
    BY DEF ReadAs
  <1>4. form = Forms[command.cc] /\ fields = CommandFields(form, command)
    BY DEF ReadAs
  <1>2. Reading(command)
          = IF fields = None \/ has = None \/ ~(form.auths > 0 <=> command.sessions)
            THEN None
            ELSE [handles |-> SubSeq(fields, 1, form.handles),
                  auths   |-> [i \in 1..form.auths |-> has[4 * i - 3]],
                  params  |-> SubSeq(fields, heads + 1, Len(fields))]
    BY <1>0, <1>4, Zenon DEF Reading
  <1> HIDE DEF has
  <1> QED
    BY <1>1, <1>2, <1>3, Zenon

\* A command without sessions is its handles and its parameters.
IsPlain(command, form, hs, ho, ps, po) ==
  /\ form = Forms[command.cc] /\ command.sessions = FALSE /\ form.auths = 0
  /\ Starts(Times(form.handles, <<"u32">>), hs, ho) /\ Len(hs) = form.handles
  /\ Starts(form.params, ps, po)
  /\ command.body = ho \o po

\* And is read as those.
LEMMA ReadPlain ==
  ASSUME NEW command, NEW form, NEW hs, NEW ho, NEW ps, NEW po,
         IsPlain(command, form, hs, ho, ps, po)
  PROVE  Reading(command) = [handles |-> hs, auths |-> <<>>, params |-> ps]
  <1>0. /\ form = Forms[command.cc] /\ command.sessions = FALSE /\ form.auths = 0
        /\ Starts(Times(form.handles, <<"u32">>), hs, ho) /\ Len(hs) = form.handles
        /\ Starts(form.params, ps, po)
        /\ command.body = ho \o po
    BY DEF IsPlain
  <1>1. PICK ks : ks = Times(form.handles, <<"u32">>)
    OBVIOUS
  <1>2. /\ ks \in Seq(Kinds) /\ form.params \in Seq(Kinds)
        /\ hs \in Seq(Octets) /\ ps \in Seq(Octets)
    BY <1>0, <1>1 DEF Starts
  <1>3. PICK f : f = hs \o ps
    OBVIOUS
  <1>4. CommandFields(form, command) = f
    <2>1. ks \o <<>> = ks
      BY <1>2, ConcatEmptySeq
    <2>2. Starts(ks \o form.params, f, ho \o po)
      BY <1>0, <1>1, <1>3, StartsConcat, Zenon
    <2>3. Fields(ks \o form.params, command.body) = f
      BY <1>0, <2>2, StartsFields, Zenon
    <2>4. CommandFields(form, command) = Fields(ks \o <<>> \o form.params, command.body)
      BY <1>0, <1>1 DEF CommandFields
    <2> QED
      BY <2>1, <2>3, <2>4, Zenon
  <1>5. /\ f \in Seq(Octets) /\ Len(hs) \in Nat /\ Len(ps) \in Nat
        /\ Len(f) = Len(hs) + Len(ps)
        /\ SubSeq(f, 1, Len(hs)) = hs /\ SubSeq(f, Len(hs) + 1, Len(hs) + Len(ps)) = ps
    BY <1>2, <1>3, FieldParts, Zenon
  <1>6. f # None /\ <<>> # None
    BY <1>5, NoneAssumption, EmptySeq
  <1>7. PICK h \in Nat : h = form.handles /\ h = Len(hs) /\ h + 0 = h
    BY <1>0, <1>5
  <1>8. SubSeq(f, 1, h) = hs /\ SubSeq(f, h + 1, Len(f)) = ps
    BY <1>5, <1>7, Zenon
  <1>9. PICK none : none = [i \in 1..form.auths |-> <<>>[4 * i - 3]]
    OBVIOUS
  <1>10. none = <<>>
    <2>1. 1..form.auths = {}
      BY <1>0
    <2>2. none = [i \in {} |-> <<>>[4 * i - 3]]
      BY <1>9, <2>1
    <2>3. none = [i \in {} |-> i] /\ <<>> = [i \in {} |-> i]
      BY <2>2, SMT
    <2> QED
      BY <2>3, Zenon
  <1>11. PICK x, y : x = SubSeq(f, 1, h) /\ y = SubSeq(f, h + 1, Len(f))
    OBVIOUS
  <1>12. Reading(command) = [handles |-> x, auths |-> none, params |-> y]
    <2>1. PICK heads : heads = form.handles + 0
      OBVIOUS
    <2>2. heads = h
      BY <1>7, <2>1
    <2>3. PICK auths : auths = <<>>
      OBVIOUS
    <2>4. auths # None /\ f = CommandFields(form, command) /\ f # None
      BY <1>4, <1>6, <2>3
    <2>5. command.sessions = FALSE /\ ~(form.auths > 0)
      BY <1>0
    <2>7. Reading(command) = [handles |-> SubSeq(f, 1, form.handles),
                              auths   |-> [i \in 1..form.auths |-> auths[4 * i - 3]],
                              params  |-> SubSeq(f, heads + 1, Len(f))]
      <3>1. ReadAs(command, form, f, heads, auths)
        BY <1>0, <2>1, <2>3, <2>4, <2>5 DEF ReadAs
      <3> QED
        BY <3>1, ReadingIs
    <2> QED
      BY <1>7, <1>9, <1>11, <2>2, <2>3, <2>7, Zenon
  <1> QED
    BY <1>8, <1>10, <1>11, <1>12, Zenon

\* A command with sessions has their area between them.
HasSessions(command, form, hs, ho, area, av, ps, po) ==
  /\ form = Forms[command.cc] /\ command.sessions = TRUE /\ form.auths > 0
  /\ Starts(Times(form.handles, <<"u32">>), hs, ho) /\ Len(hs) = form.handles
  /\ area \in Octets /\ Length(area) \in Sizes
  /\ SessionFields(form, area) = av /\ av # None
  /\ Starts(form.params, ps, po)
  /\ command.body = ho \o (PutU32(Len(area)) \o area) \o po

\* And is read as these.
LEMMA ReadAuths ==
  ASSUME NEW command, NEW form, NEW hs, NEW ho, NEW area, NEW av, NEW ps, NEW po,
         HasSessions(command, form, hs, ho, area, av, ps, po)
  PROVE  Reading(command) = [handles |-> hs,
                             auths   |-> [i \in 1..form.auths |-> av[4 * i - 3]],
                             params  |-> ps]
  <1>0. /\ form = Forms[command.cc] /\ command.sessions = TRUE /\ form.auths > 0
        /\ Starts(Times(form.handles, <<"u32">>), hs, ho) /\ Len(hs) = form.handles
        /\ area \in Octets /\ Length(area) \in Sizes
        /\ SessionFields(form, area) = av /\ av # None
        /\ Starts(form.params, ps, po)
        /\ command.body = ho \o (PutU32(Len(area)) \o area) \o po
    BY DEF HasSessions
  <1>1. PICK ks : ks = Times(form.handles, <<"u32">>)
    OBVIOUS
  <1>2. /\ ks \in Seq(Kinds) /\ form.params \in Seq(Kinds)
        /\ hs \in Seq(Octets) /\ ps \in Seq(Octets)
    BY <1>0, <1>1 DEF Starts
  <1>3. PICK g : g = hs \o <<area>>
    OBVIOUS
  <1>4. PICK f : f = g \o ps
    OBVIOUS
  <1>5. CommandFields(form, command) = f
    <2>1. Starts(<<"4b">>, <<area>>, PutU32(Len(area)) \o area)
      BY <1>0, StartsArea
    <2>2. Starts(ks \o <<"4b">>, g, ho \o (PutU32(Len(area)) \o area))
      BY <1>0, <1>1, <1>3, <2>1, StartsConcat, Zenon
    <2>3. Starts(ks \o <<"4b">> \o form.params, f, command.body)
      BY <1>0, <1>4, <2>2, StartsConcat, Zenon
    <2>4. Fields(ks \o <<"4b">> \o form.params, command.body) = f
      BY <2>3, StartsFields, Zenon
    <2> QED
      BY <1>0, <1>1, <2>4 DEF CommandFields
  <1>6. /\ g \in Seq(Octets) /\ Len(hs) \in Nat /\ Len(g) = Len(hs) + 1
        /\ SubSeq(g, 1, Len(hs)) = hs /\ g[Len(hs) + 1] = area
    <2>1. PICK o : o = <<area>>
      OBVIOUS
    <2>2. o \in Seq(Octets) /\ Len(o) = 1 /\ o[1] = area
      BY <1>0, <2>1
    <2>3. /\ hs \o o \in Seq(Octets) /\ Len(hs) \in Nat /\ Len(hs \o o) = Len(hs) + Len(o)
          /\ \A i \in 1..Len(o) : (hs \o o)[Len(hs) + i] = o[i]
          /\ SubSeq(hs \o o, 1, Len(hs)) = hs
      BY <1>2, <2>2, FieldParts, Zenon
    <2>4. g = hs \o o
      BY <1>3, <2>1, Zenon
    <2>5. 1 \in 1..Len(o)
      BY <2>2
    <2>6. g[Len(hs) + 1] = area
      BY <2>2, <2>3, <2>4, <2>5, Zenon
    <2> QED
      BY <2>2, <2>3, <2>4, <2>6, Zenon
  <1>7. /\ f \in Seq(Octets) /\ Len(g) \in Nat /\ Len(ps) \in Nat
        /\ Len(f) = Len(g) + Len(ps)
        /\ \A i \in 1..Len(g) : f[i] = g[i]
        /\ SubSeq(f, 1, Len(g)) = g /\ SubSeq(f, Len(g) + 1, Len(g) + Len(ps)) = ps
    BY <1>2, <1>4, <1>6, FieldParts, Zenon
  <1>8. PICK h \in Nat : h = form.handles /\ h = Len(hs)
    BY <1>0, <1>6
  <1>9. Len(g) = h + 1 /\ h + 1 \in 1..Len(g)
    <2>1. PICK n : n = Len(g)
      OBVIOUS
    <2>2. n = h + 1
      BY <1>6, <1>8, <2>1, Zenon
    <2> QED
      BY <2>1, <2>2
  <1>10. f[h + 1] = area /\ SubSeq(f, (h + 1) + 1, Len(f)) = ps
    <2>1. f[h + 1] = g[h + 1]
      BY <1>7, <1>9, Zenon
    <2>2. g[h + 1] = area
      BY <1>6, <1>8, Zenon
    <2>3. SubSeq(f, (h + 1) + 1, Len(f)) = ps
      BY <1>7, <1>9, Zenon
    <2> QED
      BY <2>1, <2>2, <2>3, Zenon
  <1>11. SubSeq(f, 1, h) = hs
    <2>1. \A i \in 1..h : f[i] = g[i] /\ g[i] = hs[i]
      BY <1>2, <1>3, <1>6, <1>7, <1>8, <1>9, FieldParts
    <2>2. Len(f) \in Nat /\ h <= Len(f)
      BY <1>7, <1>8, <1>9
    <2> QED
      BY <1>2, <1>7, <1>8, <2>1, <2>2, SMTT(30)
  <1>12. PICK heads : heads = h + 1
    OBVIOUS
  <1>13. ReadAs(command, form, f, heads, av)
    <2>1. f # None
      BY <1>7, NoneAssumption
    <2>2. heads = form.handles + 1
      BY <1>8, <1>12
    <2>3. f[heads] = area
      BY <1>10, <1>12, Zenon
    <2> QED
      BY <1>0, <1>5, <2>1, <2>2, <2>3 DEF ReadAs
  <1>14. Reading(command) = [handles |-> SubSeq(f, 1, form.handles),
                             auths   |-> [i \in 1..form.auths |-> av[4 * i - 3]],
                             params  |-> SubSeq(f, heads + 1, Len(f))]
    BY <1>13, ReadingIs
  <1> QED
    BY <1>8, <1>10, <1>11, <1>12, <1>14, Zenon

\* The fields of an authorization with an empty password and no nonce.
AuthValues(handle) == <<handle, <<>>, <<1>>, <<>>>>

\* An authorization.
LEMMA StartsAuth ==
  ASSUME NEW handle \in Octets, Length(handle) = 4
  PROVE  /\ Starts(AuthKinds, AuthValues(handle), marshalPolicyAuth(handle))
         /\ Length(marshalPolicyAuth(handle)) = 9
  <1>1. Starts(<<"u32">>, <<handle>>, handle)
    BY StartsNumber
  <1>2. Starts(<<"2b">>, << <<>> >>, Empty)
    BY StartsBuffer
  <1>3. <<1>> \in Octets /\ Length(<<1>>) = 1
    <2>1. 1 \in Octet
      BY DEF Octet
    <2> QED
      BY <2>1, FewOctets, Zenon
  <1>4. Starts(<<"u8">>, << <<1>> >>, <<1>>)
    BY <1>3, StartsNumber
  <1>5. Starts(<<"u32", "2b", "u8", "2b">>, <<handle, <<>>, <<1>>, <<>>>>,
               handle \o Empty \o <<1>> \o Empty)
    BY <1>1, <1>2, <1>4, StartsFour, Zenon
  <1>6. Length(handle \o Empty \o <<1>> \o Empty) = 9
    <2>1. Empty \in Octets /\ Length(Empty) = 2
      BY Algorithms
    <2>2. PICK a : a = handle \o Empty
      OBVIOUS
    <2>3. a \in Octets /\ Length(a) = 6
      BY <2>1, <2>2, Beginning
    <2>4. PICK b : b = a \o <<1>>
      OBVIOUS
    <2>5. b \in Octets /\ Length(b) = 7
      BY <1>3, <2>3, <2>4, Beginning
    <2>6. Length(b \o Empty) = 9
      BY <2>1, <2>5, Beginning
    <2> QED
      BY <2>2, <2>4, <2>6, Zenon
  <1>7. marshalPolicyAuth(handle) = handle \o Empty \o <<1>> \o Empty
    BY Zenon DEF marshalPolicyAuth, sessionContinue
  <1> QED
    BY <1>5, <1>6, <1>7, Zenon DEF AuthKinds, AuthValues

\* The authorizations of a command with one, and with two.
LEMMA AuthsOne ==
  ASSUME NEW handle \in Octets, Length(handle) = 4, NEW form, form.auths = 1
  PROVE  /\ SessionFields(form, marshalPolicyAuth(handle)) = AuthValues(handle)
         /\ AuthValues(handle) # None
         /\ [i \in 1..form.auths |-> AuthValues(handle)[4 * i - 3]] = <<handle>>
  <1>1. Starts(AuthKinds, AuthValues(handle), marshalPolicyAuth(handle))
    BY StartsAuth
  <1>2. AuthKinds \in Seq(Kinds) /\ AuthKinds # <<>>
    BY DEF AuthKinds, Kinds
  <1>3. Times(1, AuthKinds) = AuthKinds
    BY <1>2, TimesFew
  <1>4. SessionFields(form, marshalPolicyAuth(handle)) = AuthValues(handle)
    <2>1. SessionFields(form, marshalPolicyAuth(handle))
            = Fields(Times(1, AuthKinds), marshalPolicyAuth(handle))
      BY Zenon DEF SessionFields, AuthKinds
    <2> QED
      BY <1>1, <1>3, <2>1, StartsFields, Zenon
  <1>5. AuthValues(handle) # None
    BY <1>1, NoneAssumption, Zenon DEF Starts
  <1>6. [i \in 1..form.auths |-> AuthValues(handle)[4 * i - 3]] = <<handle>>
    <2>1. PICK av : av = AuthValues(handle)
      OBVIOUS
    <2>2. av[1] = handle
      BY <2>1 DEF AuthValues
    <2>3. \A i \in 1..1 : av[4 * i - 3] = handle
      BY <2>2
    <2>4. [i \in 1..1 |-> av[4 * i - 3]] = [i \in 1..1 |-> handle]
      BY <2>3, Zenon
    <2>5. [i \in 1..1 |-> handle] = <<handle>>
      OBVIOUS
    <2> QED
      BY <2>1, <2>4, <2>5, Zenon
  <1> QED
    BY <1>4, <1>5, <1>6

\* Two authorizations, and their handles.
LEMMA AuthsTwo ==
  ASSUME NEW a \in Octets, Length(a) = 4, NEW b \in Octets, Length(b) = 4,
         NEW form, form.auths = 2
  PROVE  \E av : /\ SessionFields(form, marshalPolicyAuth(a) \o marshalPolicyAuth(b)) = av
                 /\ av # None
                 /\ [i \in 1..form.auths |-> av[4 * i - 3]] = <<a, b>>
  <1>1. Starts(AuthKinds, AuthValues(a), marshalPolicyAuth(a))
        /\ Starts(AuthKinds, AuthValues(b), marshalPolicyAuth(b))
    BY StartsAuth
  <1>2. AuthKinds \in Seq(Kinds) /\ AuthKinds # <<>>
    BY DEF AuthKinds, Kinds
  <1>3. Times(2, AuthKinds) = AuthKinds \o AuthKinds
    BY <1>2, TimesFew
  <1>4. PICK av : av = AuthValues(a) \o AuthValues(b)
    OBVIOUS
  <1>5. Starts(AuthKinds \o AuthKinds, av, marshalPolicyAuth(a) \o marshalPolicyAuth(b))
    BY <1>1, <1>4, StartsConcat, Zenon
  <1>6. SessionFields(form, marshalPolicyAuth(a) \o marshalPolicyAuth(b)) = av
    <2>1. SessionFields(form, marshalPolicyAuth(a) \o marshalPolicyAuth(b))
            = Fields(Times(2, AuthKinds), marshalPolicyAuth(a) \o marshalPolicyAuth(b))
      BY Zenon DEF SessionFields, AuthKinds
    <2> QED
      BY <1>3, <1>5, <2>1, StartsFields, Zenon
  <1>7. av # None
    BY <1>5, NoneAssumption, Zenon DEF Starts
  <1>8. av[1] = a /\ av[5] = b
    <2>1. AuthValues(a) \in Seq(Octets) /\ AuthValues(b) \in Seq(Octets)
      BY <1>1, Zenon DEF Starts
    <2>2. PICK x, y, n, m : /\ x = AuthValues(a) /\ y = AuthValues(b)
                            /\ n = Len(x) /\ m = Len(y)
      OBVIOUS
    <2>3. n = 4 /\ m = 4 /\ x[1] = a /\ y[1] = b
      BY <2>2 DEF AuthValues
    <2>4. /\ \A i \in 1..Len(x) : (x \o y)[i] = x[i]
          /\ \A i \in 1..Len(y) : (x \o y)[Len(x) + i] = y[i]
      BY <2>1, <2>2, FieldParts, Zenon
    <2>5. \A i \in 1..n : av[i] = x[i]
      BY <1>4, <2>2, <2>4, Zenon
    <2>6. \A i \in 1..m : av[n + i] = y[i]
      BY <1>4, <2>2, <2>4, Zenon
    <2>7. 1 \in 1..n /\ 1 \in 1..m /\ n + 1 = 5
      BY <2>3
    <2>8. av[1] = x[1] /\ av[n + 1] = y[1]
      BY <2>5, <2>6, <2>7, Zenon
    <2> QED
      BY <2>3, <2>7, <2>8, Zenon
  <1>9. [i \in 1..form.auths |-> av[4 * i - 3]] = <<a, b>>
    <2>1. \A i \in 1..2 : av[4 * i - 3] = IF i = 1 THEN a ELSE b
      BY <1>8
    <2>2. [i \in 1..2 |-> av[4 * i - 3]] = [i \in 1..2 |-> IF i = 1 THEN a ELSE b]
      BY <2>1, Zenon
    <2>3. [i \in 1..2 |-> IF i = 1 THEN a ELSE b] = <<a, b>>
      OBVIOUS
    <2> QED
      BY <2>2, <2>3, Zenon
  <1> QED
    BY <1>6, <1>7, <1>9

\* Octets that start with so many handles.
Handles(n, hs, ho) == Starts(Times(n, <<"u32">>), hs, ho) /\ Len(hs) = n

\* No handles, one and two.
LEMMA StartsHandles ==
  ASSUME NEW a \in Octets, Length(a) = 4, NEW b \in Octets, Length(b) = 4
  PROVE  Handles(0, <<>>, <<>>) /\ Handles(1, <<a>>, a) /\ Handles(2, <<a, b>>, a \o b)
  <1>1. <<"u32">> \in Seq(Kinds) /\ <<"u32">> # <<>>
    BY DEF Kinds
  <1>2. /\ Times(0, <<"u32">>) = <<>> /\ Times(1, <<"u32">>) = <<"u32">>
        /\ Times(2, <<"u32">>) = <<"u32">> \o <<"u32">>
    BY <1>1, TimesFew, Zenon
  <1>3. Starts(<<"u32">>, <<a>>, a) /\ Starts(<<"u32">>, <<b>>, b)
    BY StartsNumber
  <1>4. Starts(<<"u32", "u32">>, <<a, b>>, a \o b)
    BY <1>3, StartsTwo, Zenon
  <1>5. <<"u32">> \o <<"u32">> = <<"u32", "u32">>
    <2>1. "u32" \in Kinds
      BY DEF Kinds
    <2> QED
      BY <2>1, Join2
  <1>6. Starts(<<>>, <<>>, <<>>)
    BY StartsEmpty
  <1>7. Len(<<>>) = 0 /\ Len(<<a>>) = 1 /\ Len(<<a, b>>) = 2
    OBVIOUS
  <1> QED
    BY <1>2, <1>3, <1>4, <1>5, <1>6, <1>7, Zenon DEF Handles

\* The handles of the commands.
LEMMA HandlesOf ==
  /\ \A h \in {Handle.ak, Handle.srk, Handle.ek, Handle.item, SessionHandle, NVIndex,
               RHOwner, RHEndorsement, rhNull, TPM_RS_PW} : h \in Octets /\ Length(h) = 4
  /\ 9 \in Sizes /\ 18 \in Sizes
  <1>1. /\ 0 \in Octet /\ 1 \in Octet /\ 2 \in Octet /\ 3 \in Octet /\ 7 \in Octet
        /\ 9 \in Octet /\ 11 \in Octet /\ 64 \in Octet /\ 80 \in Octet /\ 128 \in Octet
    BY DEF Octet
  <1>2. \A a, b, c, d \in Octet : <<a, b, c, d>> \in Octets /\ Length(<<a, b, c, d>>) = 4
    BY FewOctets, Zenon
  <1>3. 9 \in Sizes /\ 18 \in Sizes
    BY DEF Sizes
  <1>4. /\ Handle.ak = <<128, 0, 0, 0>> /\ Handle.srk = <<128, 0, 0, 1>>
        /\ Handle.ek = <<128, 0, 0, 2>> /\ Handle.item = <<128, 0, 0, 3>>
    BY DEF Handle
  <1>5. /\ Handle.ak \in Octets /\ Length(Handle.ak) = 4
        /\ Handle.srk \in Octets /\ Length(Handle.srk) = 4
        /\ Handle.ek \in Octets /\ Length(Handle.ek) = 4
        /\ Handle.item \in Octets /\ Length(Handle.item) = 4
    BY <1>1, <1>2, <1>4
  <1>6. /\ SessionHandle \in Octets /\ Length(SessionHandle) = 4
        /\ NVIndex \in Octets /\ Length(NVIndex) = 4
        /\ RHOwner \in Octets /\ Length(RHOwner) = 4
        /\ RHEndorsement \in Octets /\ Length(RHEndorsement) = 4
        /\ rhNull \in Octets /\ Length(rhNull) = 4
        /\ TPM_RS_PW \in Octets /\ Length(TPM_RS_PW) = 4
    BY <1>1, <1>2 DEF SessionHandle, NVIndex, RHOwner, RHEndorsement, rhNull, TPM_RS_PW
  <1> QED
    BY <1>3, <1>5, <1>6, Zenon

\* The forms of the commands.
IsForm(cc, handles, auths, params) ==
  /\ Forms[cc].handles = handles /\ Forms[cc].auths = auths /\ Forms[cc].params = params

\* The forms of all commands.
LEMMA FormsOf ==
  /\ IsForm("Startup", 0, 0, <<"u16">>) /\ IsForm("Shutdown", 0, 0, <<"u16">>)
  /\ IsForm("SelfTest", 0, 0, <<"u8">>) /\ IsForm("GetRandom", 0, 0, <<"u16">>)
  /\ IsForm("GetCapability", 0, 0, <<"u32", "u32", "u32">>)
  /\ IsForm("PCR_Read", 0, 0, <<"pcrs">>) /\ IsForm("PCR_Extend", 1, 1, <<"digests">>)
  /\ IsForm("Quote", 1, 1, <<"2b", "scheme", "pcrs">>)
  /\ IsForm("NV_DefineSpace", 1, 1, <<"2b", "2b">>)
  /\ IsForm("NV_UndefineSpace", 2, 1, <<>>) /\ IsForm("NV_Write", 2, 1, <<"2b", "u16">>)
  /\ IsForm("NV_Read", 2, 1, <<"u16", "u16">>) /\ IsForm("NV_ReadPublic", 1, 0, <<>>)
  /\ IsForm("CreatePrimary", 1, 1, <<"2b", "2b", "2b", "pcrs">>)
  /\ IsForm("Create", 1, 1, <<"2b", "2b", "2b", "pcrs">>)
  /\ IsForm("Load", 1, 1, <<"2b", "2b">>)
  /\ IsForm("Import", 1, 1, <<"2b", "2b", "2b", "2b", "symmetric">>)
  /\ IsForm("StartAuthSession", 2, 0, <<"2b", "2b", "u8", "symmetric", "u16">>)
  /\ IsForm("PolicyPCR", 1, 0, <<"2b", "pcrs">>) /\ IsForm("PolicyGetDigest", 1, 0, <<>>)
  /\ IsForm("PolicySecret", 2, 1, <<"2b", "2b", "2b", "u32">>)
  /\ IsForm("Unseal", 1, 1, <<>>) /\ IsForm("ActivateCredential", 2, 2, <<"2b", "2b">>)
  BY DEF IsForm, Forms, Form

\* A command with a password.
LEMMA ReadPassword ==
  ASSUME NEW cc, NEW n, NEW params, IsForm(cc, n, 1, params),
         NEW hs, NEW ho, Handles(n, hs, ho),
         NEW ps, NEW po, Starts(params, ps, po)
  PROVE  Reading(Password(cc, ho, po)) = Says(hs, PW, ps)
  <1>0. PICK form : form = Forms[cc]
    OBVIOUS
  <1>11. form.handles = n /\ form.auths = 1 /\ form.params = params
    BY <1>0, Zenon DEF IsForm
  <1>12. /\ Starts(Times(form.handles, <<"u32">>), hs, ho) /\ Len(hs) = form.handles
         /\ Starts(form.params, ps, po)
    BY <1>11, Zenon DEF Handles
  <1>1. TPM_RS_PW \in Octets /\ Length(TPM_RS_PW) = 4 /\ 9 \in Sizes
    BY HandlesOf, Zenon
  <1>2. PICK area : area = marshalPolicyAuth(TPM_RS_PW)
    OBVIOUS
  <1>3. area \in Octets /\ Length(area) \in Sizes
    BY <1>1, <1>2, StartsAuth, Zenon DEF Starts
  <1>4. marshalAuthArea(<<marshalPasswordAuth>>) = PutU32(Len(area)) \o area
    <2>1. marshalPasswordAuth = area
      BY <1>2, Zenon DEF marshalPasswordAuth, marshalPolicyAuth
    <2>2. FlattenSeq(<<area>>) = area
      BY FlattenFew, Zenon
    <2> QED
      BY <2>1, <2>2, Zenon DEF marshalAuthArea
  <1>5. PICK command : command = Password(cc, ho, po)
    OBVIOUS
  <1>6. /\ command.cc = cc /\ command.sessions = TRUE
        /\ command.body = ho \o (PutU32(Len(area)) \o area) \o po
    <2>1. PICK x : x = ho \o marshalAuthArea(<<marshalPasswordAuth>>) \o po
      OBVIOUS
    <2>2. command = [cc |-> cc, sessions |-> TRUE, body |-> x]
      BY <1>5, <2>1, Zenon DEF Password
    <2>3. command.cc = cc /\ command.sessions = TRUE /\ command.body = x
      BY <2>2
    <2> QED
      BY <1>4, <2>1, <2>3, Zenon
  <1>7. PICK av : av = AuthValues(TPM_RS_PW)
    OBVIOUS
  <1>8. /\ SessionFields(form, area) = av /\ av # None
        /\ [i \in 1..form.auths |-> av[4 * i - 3]] = <<TPM_RS_PW>>
    BY <1>1, <1>2, <1>7, <1>11, AuthsOne, Zenon
  <1>9. form.auths > 0 /\ form = Forms[command.cc]
    BY <1>0, <1>6, <1>11
  <1>10. Reading(command) = [handles |-> hs,
                             auths   |-> [i \in 1..form.auths |-> av[4 * i - 3]],
                             params  |-> ps]
    <2>1. HasSessions(command, form, hs, ho, area, av, ps, po)
      BY <1>3, <1>6, <1>8, <1>9, <1>12, Zenon DEF HasSessions
    <2> QED
      BY <2>1, ReadAuths
  <1> QED
    BY <1>5, <1>8, <1>10, Zenon DEF PW, Says

\* Commands without sessions, by their handles.
LEMMA PlainNone ==
  ASSUME NEW cc, NEW params, IsForm(cc, 0, 0, params), NEW ps, NEW po,
         Starts(params, ps, po)
  PROVE  Reading(Plain(cc, po)) = Says(<<>>, <<>>, ps)
  <1>1. PICK command : command = Plain(cc, po)
    OBVIOUS
  <1>2. command.cc = cc /\ command.sessions = FALSE /\ command.body = po
    BY <1>1 DEF Plain
  <1>3. PICK form : form = Forms[cc]
    OBVIOUS
  <1>4. form.handles = 0 /\ form.auths = 0 /\ form.params = params
    BY <1>3, Zenon DEF IsForm
  <1>5. <<>> \o po = po
    BY ConcatEmptySeq DEF Starts, Octets
  <1>6. TPM_RS_PW \in Octets /\ Length(TPM_RS_PW) = 4
    BY HandlesOf, Zenon
  <1>7. Handles(form.handles, <<>>, <<>>)
    BY <1>4, <1>6, StartsHandles, Zenon
  <1>8. IsPlain(command, form, <<>>, <<>>, ps, po)
    BY <1>2, <1>3, <1>4, <1>5, <1>7, Zenon DEF IsPlain, Handles
  <1>9. Reading(command) = [handles |-> <<>>, auths |-> <<>>, params |-> ps]
    BY <1>8, ReadPlain, Zenon
  <1> QED
    BY <1>1, <1>9, Zenon DEF Says

\* A command without sessions and with one handle.
LEMMA PlainOne ==
  ASSUME NEW cc, NEW params, IsForm(cc, 1, 0, params), NEW ps, NEW po,
         Starts(params, ps, po), NEW h \in Octets, Length(h) = 4
  PROVE  Reading(Plain(cc, h \o po)) = Says(<<h>>, <<>>, ps)
  <1>1. PICK command, body : command = Plain(cc, body) /\ body = h \o po
    OBVIOUS
  <1>2. command.cc = cc /\ command.sessions = FALSE /\ command.body = body
    BY <1>1 DEF Plain
  <1>3. PICK form : form = Forms[cc]
    OBVIOUS
  <1>4. form.handles = 1 /\ form.auths = 0 /\ form.params = params
    BY <1>3, Zenon DEF IsForm
  <1>7. Handles(form.handles, <<h>>, h)
    BY <1>4, StartsHandles, Zenon
  <1>8. IsPlain(command, form, <<h>>, h, ps, po)
    BY <1>1, <1>2, <1>3, <1>4, <1>7, Zenon DEF IsPlain, Handles
  <1>9. Reading(command) = [handles |-> <<h>>, auths |-> <<>>, params |-> ps]
    BY <1>8, ReadPlain, Zenon
  <1> QED
    BY <1>1, <1>9, Zenon DEF Says

\* A command without sessions and with two handles.
LEMMA PlainTwo ==
  ASSUME NEW cc, NEW params, IsForm(cc, 2, 0, params), NEW ps, NEW po,
         Starts(params, ps, po),
         NEW a \in Octets, Length(a) = 4, NEW b \in Octets, Length(b) = 4
  PROVE  Reading(Plain(cc, (a \o b) \o po)) = Says(<<a, b>>, <<>>, ps)
  <1>1. PICK command, body : command = Plain(cc, body) /\ body = (a \o b) \o po
    OBVIOUS
  <1>2. command.cc = cc /\ command.sessions = FALSE /\ command.body = body
    BY <1>1 DEF Plain
  <1>3. PICK form : form = Forms[cc]
    OBVIOUS
  <1>4. form.handles = 2 /\ form.auths = 0 /\ form.params = params
    BY <1>3, Zenon DEF IsForm
  <1>7. Handles(form.handles, <<a, b>>, a \o b)
    BY <1>4, StartsHandles, Zenon
  <1>8. IsPlain(command, form, <<a, b>>, a \o b, ps, po)
    BY <1>1, <1>2, <1>3, <1>4, <1>7, Zenon DEF IsPlain, Handles
  <1>9. Reading(command) = [handles |-> <<a, b>>, auths |-> <<>>, params |-> ps]
    BY <1>8, ReadPlain, Zenon
  <1> QED
    BY <1>1, <1>9, Zenon DEF Says

\* And commands with a password.
LEMMA PasswordOne ==
  ASSUME NEW cc, NEW params, IsForm(cc, 1, 1, params), NEW ps, NEW po,
         Starts(params, ps, po), NEW h \in Octets, Length(h) = 4
  PROVE  Reading(Password(cc, h, po)) = Says(<<h>>, PW, ps)
  <1>1. Handles(1, <<h>>, h)
    BY StartsHandles, Zenon
  <1> QED
    BY <1>1, ReadPassword

\* A command with two handles and one password.
LEMMA PasswordTwo ==
  ASSUME NEW cc, NEW params, IsForm(cc, 2, 1, params), NEW ps, NEW po,
         Starts(params, ps, po),
         NEW a \in Octets, Length(a) = 4, NEW b \in Octets, Length(b) = 4
  PROVE  Reading(Password(cc, a \o b, po)) = Says(<<a, b>>, PW, ps)
  <1>1. Handles(2, <<a, b>>, a \o b)
    BY StartsHandles, Zenon
  <1> QED
    BY <1>1, ReadPassword

-----------------------------------------------------------------------------
(* What is read of each command.                                           *)

\* Commands of one integer.
LEMMA ReadsNumber ==
  ASSUME NEW n \in Nat
  PROVE  /\ Reading(Startup(n)) = Says(<<>>, <<>>, <<PutU16(n)>>)
         /\ Reading(Shutdown(n)) = Says(<<>>, <<>>, <<PutU16(n)>>)
         /\ Reading(GetRandom(n)) = Says(<<>>, <<>>, <<PutU16(n)>>)
  <1>1. Starts(<<"u16">>, <<PutU16(n)>>, PutU16(n))
    BY NumberParameters
  <1>2. /\ IsForm("Startup", 0, 0, <<"u16">>) /\ IsForm("Shutdown", 0, 0, <<"u16">>)
        /\ IsForm("GetRandom", 0, 0, <<"u16">>)
    BY FormsOf
  <1>3. /\ Reading(Plain("Startup", PutU16(n))) = Says(<<>>, <<>>, <<PutU16(n)>>)
        /\ Reading(Plain("Shutdown", PutU16(n))) = Says(<<>>, <<>>, <<PutU16(n)>>)
        /\ Reading(Plain("GetRandom", PutU16(n))) = Says(<<>>, <<>>, <<PutU16(n)>>)
    BY <1>1, <1>2, PlainNone
  <1> QED
    BY <1>3, Zenon DEF Startup, Shutdown, GetRandom

\* A self test.
LEMMA ReadsSelfTest ==
  ASSUME NEW full
  PROVE  Reading(SelfTest(full)) = Says(<<>>, <<>>, << <<yesNo(full)>> >>)
  <1>1. yesNo(full) \in Octet
    BY DEF yesNo, Octet
  <1>2. Starts(<<"u8">>, << <<yesNo(full)>> >>, <<yesNo(full)>>)
    BY <1>1, NumberParameters, Zenon
  <1>3. IsForm("SelfTest", 0, 0, <<"u8">>)
    BY FormsOf
  <1>4. Reading(Plain("SelfTest", <<yesNo(full)>>)) = Says(<<>>, <<>>, << <<yesNo(full)>> >>)
    BY <1>2, <1>3, PlainNone
  <1> QED
    BY <1>4, Zenon DEF SelfTest

\* A capability query.
LEMMA ReadsGetCapability ==
  ASSUME NEW cap \in Nat, NEW prop \in Nat, NEW count \in Nat
  PROVE  Reading(GetCapability(cap, prop, count))
           = Says(<<>>, <<>>, <<PutU32(cap), PutU32(prop), PutU32(count)>>)
  <1>1. Starts(<<"u32", "u32", "u32">>, <<PutU32(cap), PutU32(prop), PutU32(count)>>,
               PutU32(cap) \o PutU32(prop) \o PutU32(count))
    BY NumberParameters, StartsThree
  <1>2. IsForm("GetCapability", 0, 0, <<"u32", "u32", "u32">>)
    BY FormsOf
  <1>3. Reading(Plain("GetCapability", PutU32(cap) \o PutU32(prop) \o PutU32(count)))
          = Says(<<>>, <<>>, <<PutU32(cap), PutU32(prop), PutU32(count)>>)
    BY <1>1, <1>2, PlainNone
  <1> QED
    BY <1>3, Zenon DEF GetCapability

\* The PCRs.
LEMMA ReadsPCRRead ==
  ASSUME NEW sel \in {<<>>, Selection, TwoBanks}
  PROVE  Reading(PCRRead(sel)) = Says(<<>>, <<>>, <<marshalPCRSelectionList(sel)>>)
  <1>1. PICK o : o = marshalPCRSelectionList(sel)
    OBVIOUS
  <1>2. Starts(<<"pcrs">>, <<o>>, o)
    BY <1>1, Selections
  <1>3. IsForm("PCR_Read", 0, 0, <<"pcrs">>)
    BY FormsOf
  <1>4. Reading(Plain("PCR_Read", o)) = Says(<<>>, <<>>, <<o>>)
    BY <1>2, <1>3, PlainNone
  <1> QED
    BY <1>1, <1>4, Zenon DEF PCRRead

\* Commands of one handle.
LEMMA ReadsHandle ==
  ASSUME NEW h \in Octets, Length(h) = 4
  PROVE  /\ Reading(NVReadPublic(h)) = Says(<<h>>, <<>>, <<>>)
         /\ Reading(PolicyGetDigest(h)) = Says(<<h>>, <<>>, <<>>)
  <1>1. Starts(<<>>, <<>>, <<>>) /\ h \o <<>> = h
    BY NoParameters
  <1>2. IsForm("NV_ReadPublic", 1, 0, <<>>) /\ IsForm("PolicyGetDigest", 1, 0, <<>>)
    BY FormsOf
  <1>3. PICK e : e = <<>>
    OBVIOUS
  <1>4. /\ Reading(Plain("NV_ReadPublic", h \o e)) = Says(<<h>>, <<>>, e)
        /\ Reading(Plain("PolicyGetDigest", h \o e)) = Says(<<h>>, <<>>, e)
    <2>1. /\ Starts(e, e, e)
          /\ IsForm("NV_ReadPublic", 1, 0, e) /\ IsForm("PolicyGetDigest", 1, 0, e)
      BY <1>1, <1>2, <1>3, Zenon
    <2> QED
      BY <2>1, PlainOne
  <1> QED
    BY <1>1, <1>3, <1>4, Zenon DEF NVReadPublic, PolicyGetDigest

\* Strings after strings.
Regroups(h, a, b, c, d, e) == h \o a \o b \o c \o d \o e = h \o (a \o b \o c \o d \o e)

\* However three strings are joined.
Associates(a, b, c) == (a \o b) \o c = a \o (b \o c)

\* Joining is associative.
LEMMA Associativity ==
  ASSUME NEW a \in Octets, NEW b \in Octets, NEW c \in Octets
  PROVE  Associates(a, b, c)
  BY ConcatTwice DEF Associates

\* A string before five others.
LEMMA Regroup ==
  ASSUME NEW h \in Octets, NEW a \in Octets, NEW b \in Octets, NEW c \in Octets,
         NEW d \in Octets, NEW e \in Octets
  PROVE  Regroups(h, a, b, c, d, e)
  <1>1. PICK x, y, z : x = a \o b /\ y = x \o c /\ z = y \o d
    OBVIOUS
  <1>2. x \in Octets
    BY <1>1, ConcatType, Zenon
  <1>3. y \in Octets
    BY <1>1, <1>2, ConcatType, Zenon
  <1>4. z \in Octets
    BY <1>1, <1>3, ConcatType, Zenon
  <1>5. Associates(h, a, b)
    BY Associativity, Zenon
  <1>6. Associates(h, x, c)
    BY <1>2, Associativity, Zenon
  <1>7. Associates(h, y, d)
    BY <1>3, Associativity, Zenon
  <1>8. Associates(h, z, e)
    BY <1>4, Associativity, Zenon
  <1> QED
    BY <1>1, <1>5, <1>6, <1>7, <1>8, Zenon DEF Regroups, Associates

\* A session that is opened, and its policies.
LEMMA ReadsStartAuthSession ==
  ASSUME NEW nonce \in Octets, Length(nonce) \in Sizes
  PROVE  Reading(StartAuthSession(nonce))
           = Says(<<rhNull, rhNull>>, <<>>, <<nonce, <<>>, <<1>>, algNull, algSHA256>>)
  <1>1. rhNull \in Octets /\ Length(rhNull) = 4
    BY HandlesOf, Zenon
  <1>2. /\ algNull \in Octets /\ Length(algNull) = 2
        /\ algSHA256 \in Octets /\ Length(algSHA256) = 2 /\ Empty \in Octets
    BY Algorithms, Zenon
  <1>3. <<1>> \in Octets /\ 1 \in Octet
    <2>1. 1 \in Octet
      BY DEF Octet
    <2> QED
      BY <2>1, FewOctets, Zenon
  <1>4. Starts(<<"2b">>, <<nonce>>, MarshalTPM2B(nonce)) /\ MarshalTPM2B(nonce) \in Octets
    BY StartsBuffer, Zenon DEF Starts
  <1>5. /\ Starts(<<"2b">>, << <<>> >>, Empty) /\ Starts(<<"u8">>, << <<1>> >>, <<1>>)
        /\ Starts(<<"symmetric">>, <<algNull>>, algNull)
        /\ Starts(<<"u16">>, <<algSHA256>>, algSHA256)
    <2>1. Length(algNull) >= 2
      BY <1>2
    <2>2. Starts(<<"symmetric">>, <<algNull>>, algNull)
      BY <1>2, <2>1, StartsAlgorithm, Zenon
    <2> QED
      BY <1>2, <1>3, <2>2, StartsBuffer, StartsNumber, NumberParameters, Zenon
  <1>6. PICK po : po = MarshalTPM2B(nonce) \o Empty \o <<1>> \o algNull \o algSHA256
    OBVIOUS
  <1>7. Starts(<<"2b", "2b", "u8", "symmetric", "u16">>,
               <<nonce, <<>>, <<1>>, algNull, algSHA256>>, po)
    BY <1>4, <1>5, <1>6, StartsFive, Zenon
  <1>8. IsForm("StartAuthSession", 2, 0, <<"2b", "2b", "u8", "symmetric", "u16">>)
    BY FormsOf, Zenon
  <1>9. Reading(Plain("StartAuthSession", (rhNull \o rhNull) \o po))
          = Says(<<rhNull, rhNull>>, <<>>, <<nonce, <<>>, <<1>>, algNull, algSHA256>>)
    BY <1>1, <1>7, <1>8, PlainTwo
  <1>10. (rhNull \o rhNull) \o po
           = rhNull \o rhNull \o MarshalTPM2B(nonce) \o Empty \o <<1>> \o algNull \o algSHA256
    <2>1. PICK h, a, b, c, d, e : /\ h = rhNull \o rhNull /\ a = MarshalTPM2B(nonce)
                                  /\ b = Empty /\ c = <<1>> /\ d = algNull
                                  /\ e = algSHA256
      OBVIOUS
    <2>2. h \in Octets
      BY <1>1, <2>1, ConcatType, Zenon
    <2>3. h \o a \o b \o c \o d \o e = h \o (a \o b \o c \o d \o e)
      <3>1. a \in Octets /\ b \in Octets /\ c \in Octets /\ d \in Octets /\ e \in Octets
        BY <1>2, <1>3, <1>4, <2>1, Zenon
      <3>2. Regroups(h, a, b, c, d, e)
        BY <2>2, <3>1, Regroup, Zenon
      <3> QED
        BY <3>2, Zenon DEF Regroups
    <2> QED
      BY <1>6, <2>1, <2>3, Zenon
  <1> QED
    BY <1>9, <1>10, Zenon DEF StartAuthSession

\* The commands of a session's policy.
LEMMA ReadsPolicies ==
  /\ Reading(PolicyPCR(SessionHandle, Selection))
       = Says(<<SessionHandle>>, <<>>, << <<>>, marshalPCRSelectionList(Selection)>>)
  /\ Reading(PolicySecret(RHEndorsement, SessionHandle))
       = Says(<<RHEndorsement, SessionHandle>>, PW, << <<>>, <<>>, <<>>, PutU32(0)>>)
  <1>1. /\ SessionHandle \in Octets /\ Length(SessionHandle) = 4
        /\ RHEndorsement \in Octets /\ Length(RHEndorsement) = 4
    BY HandlesOf, Zenon
  <1>2. Starts(<<"2b">>, << <<>> >>, Empty) /\ Empty \in Octets
    BY StartsBuffer, Zenon DEF Starts
  <1>3. Reading(PolicyPCR(SessionHandle, Selection))
          = Says(<<SessionHandle>>, <<>>, << <<>>, marshalPCRSelectionList(Selection)>>)
    <2>1. PICK o : o = marshalPCRSelectionList(Selection)
      OBVIOUS
    <2>2. Starts(<<"pcrs">>, <<o>>, o) /\ o \in Octets
      BY <2>1, Selections
    <2>3. Starts(<<"2b", "pcrs">>, << <<>>, o>>, Empty \o o)
      BY <1>2, <2>2, StartsTwo, Zenon
    <2>4. IsForm("PolicyPCR", 1, 0, <<"2b", "pcrs">>)
      BY FormsOf, Zenon
    <2>5. Reading(Plain("PolicyPCR", SessionHandle \o (Empty \o o)))
            = Says(<<SessionHandle>>, <<>>, << <<>>, o>>)
      BY <1>1, <2>3, <2>4, PlainOne
    <2>6. SessionHandle \o (Empty \o o) = SessionHandle \o Empty \o o
      BY <1>1, <1>2, <2>2, ConcatTwice, Zenon
    <2> QED
      BY <2>1, <2>5, <2>6, Zenon DEF PolicyPCR
  <1>4. Reading(PolicySecret(RHEndorsement, SessionHandle))
          = Says(<<RHEndorsement, SessionHandle>>, PW, << <<>>, <<>>, <<>>, PutU32(0)>>)
    <2>1. PICK z : z = PutU32(0)
      OBVIOUS
    <2>2. Starts(<<"u32">>, <<z>>, z)
      BY <2>1, NumberParameters
    <2>3. Starts(<<"2b", "2b", "2b", "u32">>, << <<>>, <<>>, <<>>, z>>,
                 Empty \o Empty \o Empty \o z)
      BY <1>2, <2>2, StartsFour, Zenon
    <2>4. IsForm("PolicySecret", 2, 1, <<"2b", "2b", "2b", "u32">>)
      BY FormsOf, Zenon
    <2>5. Reading(Password("PolicySecret", RHEndorsement \o SessionHandle,
                           Empty \o Empty \o Empty \o z))
            = Says(<<RHEndorsement, SessionHandle>>, PW, << <<>>, <<>>, <<>>, z>>)
      BY <1>1, <2>3, <2>4, PasswordTwo
    <2> QED
      BY <2>1, <2>5, Zenon DEF PolicySecret
  <1> QED
    BY <1>3, <1>4

\* Lists of no PCRs.
LEMMA NoPCRs == Starts(<<"pcrs">>, <<PutU32(0)>>, PutU32(0))
  <1>1. <<>> \in Octets /\ Length(<<>>) = 6 * 0 /\ 0 \in Octet
    BY Lengths DEF Octet
  <1>2. PutU32(0) \in Octets
    BY U32s
  <1>3. PutU32(0) \o <<>> = PutU32(0)
    BY <1>2, NoParameters, Zenon
  <1> QED
    BY <1>1, <1>3, ListOctets, Zenon

\* The NV commands.
LEMMA ReadsNV ==
  ASSUME NEW index \in Octets, Length(index) = 4
  PROVE  /\ Reading(NVUndefineSpace(index)) = Says(<<RHOwner, index>>, PW, <<>>)
         /\ \A data, offset : IsBuffer(data) /\ offset \in Nat =>
              Reading(NVWrite(index, data, offset))
                = Says(<<RHOwner, index>>, PW, <<data, PutU16(offset)>>)
         /\ \A size, offset \in Nat :
              Reading(NVRead(index, size, offset))
                = Says(<<RHOwner, index>>, PW, <<PutU16(size), PutU16(offset)>>)
  <1>1. RHOwner \in Octets /\ Length(RHOwner) = 4
    BY HandlesOf, Zenon
  <1>2. Reading(NVUndefineSpace(index)) = Says(<<RHOwner, index>>, PW, <<>>)
    <2>1. PICK e : e = <<>>
      OBVIOUS
    <2>2. Starts(e, e, e) /\ IsForm("NV_UndefineSpace", 2, 1, e)
      BY <2>1, NoParameters, FormsOf, Zenon
    <2>3. Reading(Password("NV_UndefineSpace", RHOwner \o index, e))
            = Says(<<RHOwner, index>>, PW, e)
      BY <1>1, <2>2, PasswordTwo
    <2> QED
      BY <2>1, <2>3, Zenon DEF NVUndefineSpace
  <1>3. ASSUME NEW data, NEW offset, IsBuffer(data), offset \in Nat
        PROVE  Reading(NVWrite(index, data, offset))
                 = Says(<<RHOwner, index>>, PW, <<data, PutU16(offset)>>)
    <2>1. PICK a, b, c : a = MarshalTPM2B(data) /\ b = PutU16(offset) /\ c = a \o b
      OBVIOUS
    <2>2. Starts(<<"2b">>, <<data>>, a) /\ Starts(<<"u16">>, <<b>>, b)
      BY <1>3, <2>1, BufferParameters, NumberParameters, Zenon
    <2>3. Starts(<<"2b", "u16">>, <<data, b>>, c)
      BY <2>1, <2>2, StartsTwo, Zenon
    <2>4. IsForm("NV_Write", 2, 1, <<"2b", "u16">>)
      BY FormsOf, Zenon
    <2>5. Reading(Password("NV_Write", RHOwner \o index, c))
            = Says(<<RHOwner, index>>, PW, <<data, b>>)
      BY <1>1, <2>3, <2>4, PasswordTwo
    <2> QED
      BY <2>1, <2>5, Zenon DEF NVWrite
  <1>4. ASSUME NEW size \in Nat, NEW offset \in Nat
        PROVE  Reading(NVRead(index, size, offset))
                 = Says(<<RHOwner, index>>, PW, <<PutU16(size), PutU16(offset)>>)
    <2>1. PICK a, b, c : a = PutU16(size) /\ b = PutU16(offset) /\ c = a \o b
      OBVIOUS
    <2>2. Starts(<<"u16">>, <<a>>, a) /\ Starts(<<"u16">>, <<b>>, b)
      BY <2>1, NumberParameters, Zenon
    <2>3. Starts(<<"u16", "u16">>, <<a, b>>, c)
      BY <2>1, <2>2, StartsTwo, Zenon
    <2>4. IsForm("NV_Read", 2, 1, <<"u16", "u16">>)
      BY FormsOf, Zenon
    <2>5. Reading(Password("NV_Read", RHOwner \o index, c))
            = Says(<<RHOwner, index>>, PW, <<a, b>>)
      BY <1>1, <2>3, <2>4, PasswordTwo
    <2> QED
      BY <2>1, <2>5, Zenon DEF NVRead
  <1> QED
    BY <1>2, <1>3, <1>4

\* Defining an NV index of this public area.
LEMMA ReadsNVDefineSpace ==
  ASSUME NEW pub, NEW area, IsBuffer(area), marshalNVPublic(pub) = MarshalTPM2B(area)
  PROVE  Reading(NVDefineSpace(pub)) = Says(<<RHOwner>>, PW, << <<>>, area>>)
  <1>1. RHOwner \in Octets /\ Length(RHOwner) = 4
    BY HandlesOf, Zenon
  <1>2. PICK a, c : a = MarshalTPM2B(area) /\ c = Empty \o a
    OBVIOUS
  <1>3. Starts(<<"2b">>, <<area>>, a) /\ Starts(<<"2b">>, << <<>> >>, Empty)
    BY <1>2, BufferParameters, Zenon
  <1>4. Starts(<<"2b", "2b">>, << <<>>, area>>, c)
    BY <1>2, <1>3, StartsTwo, Zenon
  <1>5. IsForm("NV_DefineSpace", 1, 1, <<"2b", "2b">>)
    BY FormsOf, Zenon
  <1>6. Reading(Password("NV_DefineSpace", RHOwner, c))
          = Says(<<RHOwner>>, PW, << <<>>, area>>)
    BY <1>1, <1>4, <1>5, PasswordOne
  <1> QED
    BY <1>2, <1>6, Zenon DEF NVDefineSpace

\* A quote.
LEMMA ReadsQuote ==
  ASSUME NEW key \in Octets, Length(key) = 4, NEW nonce, IsBuffer(nonce)
  PROVE  Reading(Quote(key, nonce, Selection))
           = Says(<<key>>, PW, <<nonce, algNull, marshalPCRSelectionList(Selection)>>)
  <1>1. PICK a, o, c : /\ a = MarshalTPM2B(nonce)
                       /\ o = marshalPCRSelectionList(Selection)
                       /\ c = a \o algNull \o o
    OBVIOUS
  <1>2. /\ Starts(<<"2b">>, <<nonce>>, a) /\ Starts(<<"pcrs">>, <<o>>, o)
        /\ Starts(<<"scheme">>, <<algNull>>, algNull)
    <2>1. algNull \in Octets /\ Length(algNull) = 2
      BY Algorithms, Zenon
    <2>2. Length(algNull) >= 2
      BY <2>1
    <2>3. Starts(<<"scheme">>, <<algNull>>, algNull)
      BY <2>1, <2>2, StartsAlgorithm, Zenon
    <2> QED
      BY <1>1, <2>3, BufferParameters, Selections, Zenon
  <1>3. Starts(<<"2b", "scheme", "pcrs">>, <<nonce, algNull, o>>, c)
    BY <1>1, <1>2, StartsThree, Zenon
  <1>4. IsForm("Quote", 1, 1, <<"2b", "scheme", "pcrs">>)
    BY FormsOf, Zenon
  <1>5. Reading(Password("Quote", key, c)) = Says(<<key>>, PW, <<nonce, algNull, o>>)
    BY <1>3, <1>4, PasswordOne
  <1> QED
    BY <1>1, <1>5, Zenon DEF Quote

\* A digest with the octets of its algorithm extends a PCR, and no other.
LEMMA ReadsPCRExtend ==
  ASSUME NEW digest \in Octets
  PROVE  /\ Length(digest) = DigestSize =>
              Reading(PCRExtend(16, algSHA256, digest))
                = Says(<<PutU32(16)>>, PW, <<algSHA256 \o digest>>)
         /\ Length(digest) # DigestSize =>
              Reading(PCRExtend(16, algSHA256, digest)) = None
  <1>1. PICK pcr : pcr = PutU32(16)
    OBVIOUS
  <1>2. pcr \in Octets /\ Length(pcr) = 4
    BY <1>1, U32s
  <1>3. PICK one : one = PutU32(1)
    OBVIOUS
  <1>4. one \in Octets /\ Length(one) = 4 /\ At(one, 4) = 1
    BY <1>3, U32s
  <1>5. PICK d : d = algSHA256 \o digest
    OBVIOUS
  <1>6. /\ algSHA256 \in Octets /\ d \in Octets
        /\ Length(d) = 2 + Length(digest) /\ Length(digest) \in Nat
    <2>1. algSHA256 \in Octets /\ Length(algSHA256) = 2
      BY Algorithms, Zenon
    <2>2. d \in Octets /\ Length(d) = Length(algSHA256) + Length(digest)
      BY <1>5, <2>1, Longer, Zenon
    <2> QED
      BY <2>1, <2>2, Lengths
  <1>7. PICK po : po = one \o d
    OBVIOUS
  <1>8. /\ PutU32(1) \o algSHA256 \o digest = po
        /\ po \in Octets /\ Length(po) = 4 + Length(d) /\ At(po, 4) = 1
        /\ Slice(po, 5, Length(po)) = d
    <2>1. PutU32(1) \o algSHA256 \o digest = po
      BY <1>3, <1>4, <1>5, <1>6, <1>7, ConcatTwice, Zenon
    <2>2. /\ po \in Octets /\ Length(po) = Length(one) + Length(d) /\ Length(d) \in Nat
          /\ \A i \in 1..Length(one) : At(po, i) = At(one, i)
          /\ Slice(po, Length(one) + 1, Length(one) + Length(d)) = d
      BY <1>4, <1>6, <1>7, Beginning, Ending, Zenon
    <2>3. 4 \in 1..Length(one) /\ Length(one) + 1 = 5
      BY <1>4
    <2>4. At(po, 4) = 1
      BY <1>4, <2>2, <2>3, Zenon
    <2>5. Slice(po, 5, Length(po)) = d
      BY <2>2, <2>3, Zenon
    <2>6. Length(po) = 4 + Length(d)
      BY <1>4, <2>2
    <2> QED
      BY <2>1, <2>2, <2>4, <2>5, <2>6
  <1>9. IsForm("PCR_Extend", 1, 1, <<"digests">>)
    BY FormsOf, Zenon
  <1>10. ASSUME Length(digest) = DigestSize
         PROVE  Reading(PCRExtend(16, algSHA256, digest)) = Says(<<pcr>>, PW, <<d>>)
    <2>1. Length(po) >= 4 /\ At(po, 4) \in Nat
          /\ Length(po) = 4 + At(po, 4) * (2 + DigestSize)
      <3>1. DigestSize \in Nat
        BY DigestSizeAssumption
      <3>2. Length(po) = 4 + (2 + DigestSize) /\ At(po, 4) = 1
        BY <1>6, <1>8, <1>10
      <3> QED
        BY <3>1, <3>2
    <2>2. Starts(<<"digests">>, <<d>>, po)
      BY <1>8, <2>1, StartsList
    <2>3. Reading(Password("PCR_Extend", pcr, po)) = Says(<<pcr>>, PW, <<d>>)
      BY <1>2, <1>9, <2>2, PasswordOne
    <2> QED
      BY <1>1, <1>8, <2>3, Zenon DEF PCRExtend
  <1>11. ASSUME Length(digest) # DigestSize
         PROVE  Reading(PCRExtend(16, algSHA256, digest)) = None
    <2>1. PICK area : area = marshalPolicyAuth(TPM_RS_PW)
      OBVIOUS
    <2>2. area \in Octets /\ Length(area) \in Sizes
      <3>1. TPM_RS_PW \in Octets /\ Length(TPM_RS_PW) = 4 /\ 9 \in Sizes
        BY HandlesOf, Zenon
      <3> QED
        BY <2>1, <3>1, StartsAuth, Zenon DEF Starts
    <2>3. marshalAuthArea(<<marshalPasswordAuth>>) = PutU32(Len(area)) \o area
      <3>1. marshalPasswordAuth = area
        BY <2>1, Zenon DEF marshalPasswordAuth, marshalPolicyAuth
      <3>2. FlattenSeq(<<area>>) = area
        BY FlattenFew, Zenon
      <3> QED
        BY <3>1, <3>2, Zenon DEF marshalAuthArea
    <2>4. PICK start : start = pcr \o (PutU32(Len(area)) \o area)
      OBVIOUS
    <2>5. Starts(<<"u32", "4b">>, <<pcr, area>>, start)
      <3>1. Starts(<<"4b">>, <<area>>, PutU32(Len(area)) \o area)
        BY <2>2, StartsArea
      <3>2. Starts(<<"u32">>, <<pcr>>, pcr)
        BY <1>2, StartsNumber, Zenon
      <3> QED
        BY <2>4, <3>1, <3>2, StartsTwo, Zenon
    <2>6. PICK command : command = PCRExtend(16, algSHA256, digest)
      OBVIOUS
    <2>7. command.cc = "PCR_Extend" /\ command.sessions = TRUE /\ command.body = start \o po
      <3>1. PICK body : body = start \o po
        OBVIOUS
      <3>2. command = [cc |-> "PCR_Extend", sessions |-> TRUE, body |-> body]
        BY <1>1, <1>8, <2>3, <2>4, <2>6, <3>1, Zenon DEF PCRExtend, Password
      <3> QED
        BY <3>1, <3>2
    <2>8. PICK form : form = Forms["PCR_Extend"]
      OBVIOUS
    <2>9. form.handles = 1 /\ form.params = <<"digests">>
      BY <1>9, <2>8, Zenon DEF IsForm
    <2>10. Times(1, <<"u32">>) = <<"u32">> /\ <<"u32">> \o <<"4b">> = <<"u32", "4b">>
      <3>1. "u32" \in Kinds /\ "4b" \in Kinds
        BY DEF Kinds
      <3>2. <<"u32">> \o <<"4b">> = <<"u32", "4b">>
        BY <3>1, Join2
      <3>3. <<"u32">> \in Seq(Kinds) /\ <<"u32">> # <<>>
        BY <3>1
      <3> QED
        BY <3>2, <3>3, TimesFew
    <2>11. Fields(<<"u32", "4b">> \o <<"digests">>, start \o po) = None
      <3>1. "digests" \in Kinds
        BY DEF Kinds
      <3>2. PICK n \in Nat : n = 2 + DigestSize
        BY DigestSizeAssumption
      <3>3. Size("digests", po) = <<4, n>>
        <4>1. PICK m : m = Length(po)
          OBVIOUS
        <4>2. m >= 4 /\ m \in Nat
          BY <1>6, <1>8, <4>1
        <4>3. ~(Len(po) < 4) /\ po[4] = 1
          BY <1>8, <4>1, <4>2 DEF Length, At
        <4>4. Size("digests", po) = <<4, 1 * (2 + DigestSize)>>
          BY <4>3 DEF Size
        <4> QED
          BY <3>2, <4>4
      <3>4. 4 \in Nat /\ 4 + n # Length(po)
        <4>1. DigestSize \in Nat
          BY DigestSizeAssumption
        <4> QED
          BY <1>6, <1>8, <1>11, <3>2, <4>1
      <3>5. PICK t : t = Taken([got |-> <<pcr, area>>, left |-> po], "digests")
        OBVIOUS
      <3>6. t.left # <<>>
        BY <1>8, <3>3, <3>4, <3>5, TakenBad
      <3> QED
        BY <1>8, <2>5, <3>1, <3>5, <3>6, FieldsLast
    <2>12. CommandFields(form, command) = None
      BY <2>7, <2>9, <2>10, <2>11 DEF CommandFields
    <2>13. Reading(command) = None
      BY <2>7, <2>8, <2>12 DEF Reading
    <2> QED
      BY <2>6, <2>13
  <1> QED
    BY <1>1, <1>5, <1>10, <1>11

\* A secret leaves room in a TPM2B.
LEMMA SecretLimits == MaxSecret \in Nat /\ MaxSecret + 400 <= Most
  BY SMT DEF Most, MaxSecret

\* The secrets, and the sensitive parts they are sealed in.
LEMMA SecretBuffers ==
  ASSUME NEW secret \in Secrets
  PROVE  /\ IsBuffer(secret)
         /\ Length(secret) \in Nat /\ Length(secret) <= MaxSecret
         /\ IsBuffer(Empty \o MarshalTPM2B(secret))
         /\ Length(Empty \o MarshalTPM2B(secret)) = 4 + Length(secret)
  <1>1. /\ secret \in Octets /\ Length(secret) \in Nat
        /\ Length(secret) <= MaxSecret
    <2>1. secret \in Octets /\ Len(secret) <= MaxSecret
      BY CommandsAssumption, Zenon
    <2> QED
      BY <2>1, Lengths, Zenon DEF Length
  <1>2. IsBuffer(secret)
    <2>1. secret \in Octets /\ Length(secret) <= Most
      BY <1>1, Limits, SecretLimits, SMT
    <2> QED
      BY <2>1, Buffers, Zenon
  <1>3. PICK m : m = MarshalTPM2B(secret)
    OBVIOUS
  <1>4. m \in Octets /\ Length(m) = 2 + Length(secret)
    BY <1>2, <1>3, Buffers, Zenon
  <1>5. Empty \in Octets /\ Length(Empty) = 2
    BY Algorithms, Zenon
  <1>6. PICK x : x = Empty \o m
    OBVIOUS
  <1>7. x \in Octets /\ Length(x) = Length(Empty) + Length(m)
    BY <1>4, <1>5, <1>6, Longer, Zenon
  <1>8. Length(x) = 4 + Length(secret) /\ Length(x) <= Most
    BY <1>1, <1>4, <1>5, <1>7, Limits, SecretLimits, SMT
  <1>9. IsBuffer(x)
    BY <1>7, <1>8, Buffers, Zenon
  <1> QED
    BY <1>1, <1>2, <1>3, <1>6, <1>8, <1>9, Zenon

\* What is to be created, of which public area, and nothing besides.
LEMMA CreationParameters ==
  ASSUME NEW value, IsBuffer(value), NEW t, IsBuffer(t), NEW o,
         o = MarshalTPM2B(value) \o MarshalTPM2B(t) \o Empty \o PutU32(0)
  PROVE  Starts(<<"2b", "2b", "2b", "pcrs">>, <<value, t, <<>>, PutU32(0)>>, o)
  <1>1. /\ Starts(<<"2b">>, <<value>>, MarshalTPM2B(value))
        /\ Starts(<<"2b">>, <<t>>, MarshalTPM2B(t))
        /\ Starts(<<"2b">>, << <<>> >>, Empty)
        /\ Starts(<<"pcrs">>, <<PutU32(0)>>, PutU32(0))
    BY BufferParameters, NoPCRs, Zenon
  <1> QED
    BY <1>1, StartsFour, Zenon

\* Two empty TPM2Bs: no password, no data.
LEMMA NothingSealed ==
  /\ IsBuffer(Empty \o Empty) /\ Starts(<<"2b", "2b">>, << <<>>, <<>> >>, Empty \o Empty)
  <1>1. Starts(<<"2b">>, << <<>> >>, Empty)
    BY BufferParameters
  <1>2. Starts(<<"2b", "2b">>, << <<>>, <<>> >>, Empty \o Empty)
    BY <1>1, StartsTwo, Zenon
  <1>3. Empty \in Octets /\ Length(Empty) = 2
    BY Algorithms, Zenon
  <1>4. PICK x : x = Empty \o Empty
    OBVIOUS
  <1>5. x \in Octets /\ Length(x) = Length(Empty) + Length(Empty)
    BY <1>3, <1>4, Longer, Zenon
  <1>6. Length(x) <= Most
    BY <1>3, <1>5, Limits, SMT
  <1> QED
    BY <1>2, <1>4, <1>5, <1>6, Buffers, Zenon

\* A primary key's creation.
LEMMA ReadsCreatePrimary ==
  ASSUME NEW h \in Octets, Length(h) = 4, NEW t, IsBuffer(t)
  PROVE  Reading(CreatePrimaryOf(h, MarshalTPM2B(t)))
           = Says(<<h>>, PW, <<Empty \o Empty, t, <<>>, PutU32(0)>>)
  <1>1. PICK value, z, o : /\ value = Empty \o Empty /\ z = PutU32(0)
                           /\ o = MarshalTPM2B(value) \o MarshalTPM2B(t) \o Empty \o z
    OBVIOUS
  <1>2. IsBuffer(value)
    BY <1>1, NothingSealed, Zenon
  <1>3. Starts(<<"2b", "2b", "2b", "pcrs">>, <<value, t, <<>>, z>>, o)
    BY <1>1, <1>2, CreationParameters, Zenon
  <1>4. IsForm("CreatePrimary", 1, 1, <<"2b", "2b", "2b", "pcrs">>)
    BY FormsOf, Zenon
  <1>5. Reading(Password("CreatePrimary", h, o)) = Says(<<h>>, PW, <<value, t, <<>>, z>>)
    BY <1>3, <1>4, PasswordOne
  <1> QED
    BY <1>1, <1>5, Zenon DEF CreatePrimaryOf, marshalEmptySensitiveCreate

\* A sealed object's.
LEMMA ReadsCreate ==
  ASSUME NEW h \in Octets, Length(h) = 4, NEW secret \in Secrets, NEW policy,
         NEW t, IsBuffer(t), marshalSealPublic(policy) = MarshalTPM2B(t)
  PROVE  Reading(Create(h, secret, policy))
           = Says(<<h>>, PW, <<Empty \o MarshalTPM2B(secret), t, <<>>, PutU32(0)>>)
  <1>1. PICK value, z, o : /\ value = Empty \o MarshalTPM2B(secret) /\ z = PutU32(0)
                           /\ o = MarshalTPM2B(value) \o MarshalTPM2B(t) \o Empty \o z
    OBVIOUS
  <1>2. IsBuffer(value)
    BY <1>1, SecretBuffers, Zenon
  <1>3. Starts(<<"2b", "2b", "2b", "pcrs">>, <<value, t, <<>>, z>>, o)
    BY <1>1, <1>2, CreationParameters, Zenon
  <1>4. IsForm("Create", 1, 1, <<"2b", "2b", "2b", "pcrs">>)
    BY FormsOf, Zenon
  <1>5. Reading(Password("Create", h, o)) = Says(<<h>>, PW, <<value, t, <<>>, z>>)
    BY <1>3, <1>4, PasswordOne
  <1> QED
    BY <1>1, <1>5, Zenon DEF Create, marshalSealSensitiveCreate

\* The loading and the import of an object.
LEMMA ReadsLoad ==
  ASSUME NEW h \in Octets, Length(h) = 4, NEW priv, IsBuffer(priv), NEW pub, IsBuffer(pub)
  PROVE  Reading(Load(h, priv, pub)) = Says(<<h>>, PW, <<priv, pub>>)
  <1>1. PICK o : o = MarshalTPM2B(priv) \o MarshalTPM2B(pub)
    OBVIOUS
  <1>2. Starts(<<"2b", "2b">>, <<priv, pub>>, o)
    BY <1>1, BufferParameters, StartsTwo, Zenon
  <1>3. IsForm("Load", 1, 1, <<"2b", "2b">>)
    BY FormsOf, Zenon
  <1>4. Reading(Password("Load", h, o)) = Says(<<h>>, PW, <<priv, pub>>)
    BY <1>2, <1>3, PasswordOne
  <1> QED
    BY <1>1, <1>4, Zenon DEF Load

\* An import: no key of encryption, the public area and the two parts of the wrap.
LEMMA ReadsImport ==
  ASSUME NEW h \in Octets, Length(h) = 4, NEW pub, IsBuffer(pub),
         NEW dup, IsBuffer(dup), NEW seed, IsBuffer(seed)
  PROVE  Reading(Import(h, pub, MarshalTPM2B(dup), MarshalTPM2B(seed)))
           = Says(<<h>>, PW, << <<>>, pub, dup, seed, algNull>>)
  <1>1. PICK o : o = Empty \o MarshalTPM2B(pub) \o MarshalTPM2B(dup) \o MarshalTPM2B(seed)
                       \o algNull
    OBVIOUS
  <1>2. /\ Starts(<<"2b">>, <<pub>>, MarshalTPM2B(pub))
        /\ Starts(<<"2b">>, <<dup>>, MarshalTPM2B(dup))
        /\ Starts(<<"2b">>, <<seed>>, MarshalTPM2B(seed))
        /\ Starts(<<"2b">>, << <<>> >>, Empty)
    BY BufferParameters, Zenon
  <1>3. Starts(<<"symmetric">>, <<algNull>>, algNull)
    <2>1. algNull \in Octets /\ Length(algNull) = 2
      BY Algorithms, Zenon
    <2>2. Length(algNull) >= 2
      BY <2>1
    <2> QED
      BY <2>1, <2>2, StartsAlgorithm, Zenon
  <1>4. Starts(<<"2b", "2b", "2b", "2b", "symmetric">>, << <<>>, pub, dup, seed, algNull>>, o)
    BY <1>1, <1>2, <1>3, StartsFive, Zenon
  <1>5. IsForm("Import", 1, 1, <<"2b", "2b", "2b", "2b", "symmetric">>)
    BY FormsOf, Zenon
  <1>6. Reading(Password("Import", h, o)) = Says(<<h>>, PW, << <<>>, pub, dup, seed, algNull>>)
    BY <1>4, <1>5, PasswordOne
  <1> QED
    BY <1>1, <1>6, Zenon DEF Import, marshalSymDefObjectNull

\* An object that is unsealed.
LEMMA ReadsUnseal ==
  ASSUME NEW h \in Octets, Length(h) = 4, NEW s \in Octets, Length(s) = 4
  PROVE  Reading(Unseal(h, s)) = Says(<<h>>, <<s>>, <<>>)
  <1>1. PICK area : area = marshalPolicyAuth(s)
    OBVIOUS
  <1>2. area \in Octets /\ Length(area) \in Sizes
    <2>1. 9 \in Sizes
      BY HandlesOf, Zenon
    <2> QED
      BY <1>1, <2>1, StartsAuth, Zenon DEF Starts
  <1>3. marshalAuthArea(<<area>>) = PutU32(Len(area)) \o area
    BY FlattenFew, Zenon DEF marshalAuthArea
  <1>4. PICK a : a = PutU32(Len(area)) \o area
    OBVIOUS
  <1>5. a \in Octets
    <2>1. Starts(<<"4b">>, <<area>>, PutU32(Len(area)) \o area)
      BY <1>2, StartsArea
    <2> QED
      BY <1>4, <2>1, Zenon DEF Starts
  <1>6. PICK e : e = <<>>
    OBVIOUS
  <1>7. h \o a \o e = h \o a /\ Starts(e, e, e)
    <2>1. h \o a \in Octets
      BY <1>5, ConcatType
    <2> QED
      BY <1>6, <2>1, NoParameters, Zenon
  <1>8. PICK form : form = Forms["Unseal"]
    OBVIOUS
  <1>9. form.handles = 1 /\ form.auths = 1 /\ form.params = e
    BY <1>6, <1>8, FormsOf, Zenon DEF IsForm
  <1>10. PICK command : command = Unseal(h, s)
    OBVIOUS
  <1>11. command.cc = "Unseal" /\ command.sessions = TRUE /\ command.body = h \o a \o e
    <2>1. PICK body : body = h \o a
      OBVIOUS
    <2>2. command = [cc |-> "Unseal", sessions |-> TRUE, body |-> body]
      BY <1>1, <1>3, <1>4, <1>10, <2>1, Zenon DEF Unseal
    <2>3. command.cc = "Unseal" /\ command.sessions = TRUE /\ command.body = body
      BY <2>2
    <2> QED
      BY <1>7, <2>1, <2>3, Zenon
  <1>12. PICK av : av = AuthValues(s)
    OBVIOUS
  <1>13. /\ SessionFields(form, area) = av /\ av # None
         /\ [i \in 1..form.auths |-> av[4 * i - 3]] = <<s>>
    BY <1>1, <1>9, <1>12, AuthsOne, Zenon
  <1>14. Reading(command) = [handles |-> <<h>>,
                             auths   |-> [i \in 1..form.auths |-> av[4 * i - 3]],
                             params  |-> e]
    <2>1. Handles(1, <<h>>, h)
      BY StartsHandles, Zenon
    <2>2. Starts(Times(form.handles, <<"u32">>), <<h>>, h) /\ Len(<<h>>) = form.handles
      BY <1>9, <2>1, Zenon DEF Handles
    <2>3. form.auths > 0 /\ form = Forms[command.cc]
      BY <1>8, <1>9, <1>11
    <2>4. HasSessions(command, form, <<h>>, h, area, av, e, e)
      BY <1>2, <1>4, <1>7, <1>9, <1>11, <1>13, <2>2, <2>3, Zenon DEF HasSessions
    <2> QED
      BY <2>4, ReadAuths
  <1> QED
    BY <1>6, <1>10, <1>13, <1>14, Zenon DEF Says

\* The activation of a credential: two handles, and an authorization of each.
LEMMA ReadsActivateCredential ==
  ASSUME NEW a \in Octets, Length(a) = 4, NEW k \in Octets, Length(k) = 4,
         NEW s \in Octets, Length(s) = 4,
         NEW outer, IsBuffer(outer), NEW secret, IsBuffer(secret)
  PROVE  Reading(ActivateCredential(a, k, s, MarshalTPM2B(outer), MarshalTPM2B(secret)))
           = Says(<<a, k>>, <<TPM_RS_PW, s>>, <<outer, secret>>)
  <1>0. TPM_RS_PW \in Octets /\ Length(TPM_RS_PW) = 4 /\ 18 \in Sizes
    BY HandlesOf, Zenon
  <1>1. PICK one, two, area : /\ one = marshalPolicyAuth(TPM_RS_PW)
                              /\ two = marshalPolicyAuth(s) /\ area = one \o two
    OBVIOUS
  <1>2. area \in Octets /\ Length(area) \in Sizes
    <2>1. one \in Octets /\ two \in Octets /\ Length(one) = 9 /\ Length(two) = 9
      BY <1>0, <1>1, StartsAuth, Zenon DEF Starts
    <2>2. area \in Octets /\ Length(area) = Length(one) + Length(two)
      BY <1>1, <2>1, Longer, Zenon
    <2>3. Length(area) = 18
      BY <2>1, <2>2
    <2> QED
      BY <1>0, <2>2, <2>3, Zenon
  <1>3. marshalAuthArea(<<marshalPasswordAuth, two>>) = PutU32(Len(area)) \o area
    <2>1. marshalPasswordAuth = one
      BY <1>1, Zenon DEF marshalPasswordAuth, marshalPolicyAuth
    <2>2. FlattenSeq(<<one, two>>) = area
      BY <1>1, FlattenFew, Zenon
    <2> QED
      BY <2>1, <2>2, Zenon DEF marshalAuthArea
  <1>4. PICK ao : ao = PutU32(Len(area)) \o area
    OBVIOUS
  <1>5. ao \in Octets
    <2>1. Starts(<<"4b">>, <<area>>, PutU32(Len(area)) \o area)
      BY <1>2, StartsArea
    <2> QED
      BY <1>4, <2>1, Zenon DEF Starts
  <1>6. PICK cb, sec, po : cb = MarshalTPM2B(outer) /\ sec = MarshalTPM2B(secret) /\ po = cb \o sec
    OBVIOUS
  <1>7. /\ Starts(<<"2b", "2b">>, <<outer, secret>>, po) /\ cb \in Octets /\ sec \in Octets
    <2>1. Starts(<<"2b">>, <<outer>>, cb) /\ Starts(<<"2b">>, <<secret>>, sec)
      BY <1>6, BufferParameters, Zenon
    <2>2. Starts(<<"2b", "2b">>, <<outer, secret>>, po)
      BY <1>6, <2>1, StartsTwo, Zenon
    <2>3. cb \in Octets /\ sec \in Octets
      BY <1>6, Buffers, Zenon
    <2> QED
      BY <2>2, <2>3
  <1>8. PICK hs, ho : hs = <<a, k>> /\ ho = a \o k
    OBVIOUS
  <1>9. Handles(2, hs, ho) /\ ho \in Octets
    <2>1. Handles(2, <<a, k>>, a \o k)
      BY StartsHandles, Zenon
    <2> QED
      BY <1>8, <2>1, Zenon DEF Handles, Starts
  <1>10. PICK form : form = Forms["ActivateCredential"]
    OBVIOUS
  <1>11. form.handles = 2 /\ form.auths = 2 /\ form.params = <<"2b", "2b">>
    BY <1>10, FormsOf, Zenon DEF IsForm
  <1>12. PICK command : command = ActivateCredential(a, k, s, MarshalTPM2B(outer), MarshalTPM2B(secret))
    OBVIOUS
  <1>13. /\ command.cc = "ActivateCredential" /\ command.sessions = TRUE
         /\ command.body = ho \o ao \o po
    <2>1. PICK body : body = ho \o ao \o cb \o sec
      OBVIOUS
    <2>2. command = [cc |-> "ActivateCredential", sessions |-> TRUE, body |-> body]
      BY <1>1, <1>3, <1>4, <1>6, <1>8, <1>12, <2>1, Zenon DEF ActivateCredential
    <2>3. command.cc = "ActivateCredential" /\ command.sessions = TRUE /\ command.body = body
      BY <2>2
    <2>4. PICK x : x = ho \o ao
      OBVIOUS
    <2>5. x \in Octets
      BY <1>5, <1>9, <2>4, ConcatType, Zenon
    <2>6. (x \o cb) \o sec = x \o (cb \o sec)
      BY <1>7, <2>5, ConcatTwice, Zenon
    <2>7. body = ho \o ao \o po
      BY <1>6, <2>1, <2>4, <2>6, Zenon
    <2> QED
      BY <2>3, <2>7, Zenon
  <1>14. PICK av : /\ SessionFields(form, one \o two) = av /\ av # None
                   /\ [i \in 1..form.auths |-> av[4 * i - 3]] = <<TPM_RS_PW, s>>
    <2>1. \E av : /\ SessionFields(form, marshalPolicyAuth(TPM_RS_PW) \o marshalPolicyAuth(s)) = av
                  /\ av # None
                  /\ [i \in 1..form.auths |-> av[4 * i - 3]] = <<TPM_RS_PW, s>>
      BY <1>0, <1>11, AuthsTwo
    <2> QED
      BY <1>1, <2>1, Zenon
  <1>15. Reading(command) = [handles |-> hs,
                             auths   |-> [i \in 1..form.auths |-> av[4 * i - 3]],
                             params  |-> <<outer, secret>>]
    <2>1. Starts(Times(form.handles, <<"u32">>), hs, ho) /\ Len(hs) = form.handles
      BY <1>9, <1>11, Zenon DEF Handles
    <2>2. form.auths > 0 /\ form = Forms[command.cc]
      BY <1>10, <1>11, <1>13
    <2>3. SessionFields(form, area) = av
      BY <1>1, <1>14, Zenon
    <2>4. HasSessions(command, form, hs, ho, area, av, <<outer, secret>>, po)
      BY <1>2, <1>4, <1>7, <1>11, <1>13, <1>14, <2>1, <2>2, <2>3, Zenon DEF HasSessions
    <2> QED
      BY <2>4, ReadAuths
  <1> QED
    BY <1>8, <1>12, <1>14, <1>15, Zenon DEF Says

-----------------------------------------------------------------------------
(* Public areas.                                                           *)

\* The fields at the head of every public area, of a key and of a sealed object.
HeadKinds   == <<"u16", "u16", "u32", "2b">>
KeyKinds    == <<"symmetric", "scheme", "u16", "scheme", "2b", "2b">>
SealedKinds == <<"scheme", "2b">>

\* Public areas are read by their kinds of fields.
PublicOf(sealed, f, octets) ==
  IF f = None THEN None
  ELSE [sealed |-> sealed, policy |-> f[4], unique |-> f[Len(f)], octets |-> octets,
        bits |-> {k \in 0..31 : (f[3][4 - (k \div 8)] \div 2^(k % 8)) % 2 = 1},
        symmetric |-> ~sealed /\ f[5] # algNull,
        scheme |-> ~sealed /\ f[6] # algNull]

\* A public area is what is read of its fields.
LEMMA PublicIs ==
  ASSUME NEW octets \in Octets, NEW sealed \in BOOLEAN,
         sealed <=> Length(octets) > 1 /\ Slice(octets, 1, 2) = algKeyedHash,
         NEW kinds, kinds = IF sealed THEN SealedKinds ELSE KeyKinds,
         NEW f, f = Fields(HeadKinds \o kinds, octets), f # None
  PROVE  Public(octets) = PublicOf(sealed, f, octets)
  <1>1. sealed = (Len(octets) > 1 /\ SubSeq(octets, 1, 2) = algKeyedHash)
    BY DEF Length, Slice
  <1>2. PICK is : is = (Len(octets) > 1 /\ SubSeq(octets, 1, 2) = algKeyedHash)
    OBVIOUS
  <1>3. Public(octets) =
          PublicOf(is, Fields(HeadKinds \o (IF is THEN SealedKinds ELSE KeyKinds), octets),
                   octets)
    BY <1>2, Zenon DEF Public, PublicOf, HeadKinds, SealedKinds, KeyKinds
  <1>4. Public(octets) = PublicOf(sealed, f, octets)
    BY <1>1, <1>2, <1>3, Zenon
  <1> QED
    BY <1>4

\* The values of a key's public area.
KeyFields(f, v, w) ==
  v \in Seq(Octets) /\ w \in Seq(Octets) /\ Len(v) = 4 /\ Len(w) = 6 /\ f = v \o w

\* The last of a key's fields, and those that its cipher and scheme are in.
LEMMA KeyValues ==
  ASSUME NEW v, NEW w, NEW f, KeyFields(f, v, w)
  PROVE  /\ f \in Seq(Octets) /\ f # None
         /\ f[3] = v[3] /\ f[4] = v[4] /\ f[5] = w[1] /\ f[6] = w[2] /\ f[Len(f)] = w[6]
  <1>2. Len(v) = 4 /\ Len(w) = 6
    BY DEF KeyFields
  <1>3. v \in Seq(Octets) /\ w \in Seq(Octets) /\ f = v \o w
    BY DEF KeyFields
  <1>4. /\ f \in Seq(Octets) /\ Len(f) = Len(v) + Len(w)
        /\ \A i \in 1..Len(v) : f[i] = v[i]
        /\ \A i \in 1..Len(w) : f[Len(v) + i] = w[i]
    <2>1. PICK g : g = v \o w
      OBVIOUS
    <2>2. /\ g \in Seq(Octets) /\ Len(g) = Len(v) + Len(w)
          /\ \A i \in 1..Len(v) : g[i] = v[i]
          /\ \A i \in 1..Len(w) : g[Len(v) + i] = w[i]
      BY <1>3, <2>1, FieldParts
    <2> QED
      BY <1>3, <2>1, <2>2, Zenon
  <1>5. /\ 3 \in 1..Len(v) /\ 4 \in 1..Len(v)
        /\ 1 \in 1..Len(w) /\ 2 \in 1..Len(w) /\ 6 \in 1..Len(w)
        /\ Len(v) + 1 = 5 /\ Len(v) + 2 = 6 /\ Len(v) + 6 = 10 /\ Len(v) + Len(w) = 10
    BY <1>2
  <1>6. f[3] = v[3] /\ f[4] = v[4] /\ f[5] = w[1] /\ f[6] = w[2] /\ f[10] = w[6]
    BY <1>4, <1>5, Zenon
  <1>7. f # None
    BY <1>4, NoneAssumption, Zenon
  <1>8. f[Len(f)] = w[6]
    BY <1>4, <1>5, <1>6, Zenon
  <1> QED
    BY <1>2, <1>4, <1>6, <1>7, <1>8, Zenon

\* The values of a sealed object's.
SealedFields(f, v, w) ==
  v \in Seq(Octets) /\ w \in Seq(Octets) /\ Len(v) = 4 /\ Len(w) = 2 /\ f = v \o w

\* The last of a sealed object's fields.
LEMMA SealedValues ==
  ASSUME NEW v, NEW w, NEW f, SealedFields(f, v, w)
  PROVE  /\ f \in Seq(Octets) /\ f # None
         /\ f[3] = v[3] /\ f[4] = v[4] /\ f[Len(f)] = w[2]
  <1>2. Len(v) = 4 /\ Len(w) = 2
    BY DEF SealedFields
  <1>3. v \in Seq(Octets) /\ w \in Seq(Octets) /\ f = v \o w
    BY DEF SealedFields
  <1>4. /\ f \in Seq(Octets) /\ Len(f) = Len(v) + Len(w)
        /\ \A i \in 1..Len(v) : f[i] = v[i]
        /\ \A i \in 1..Len(w) : f[Len(v) + i] = w[i]
    <2>1. PICK g : g = v \o w
      OBVIOUS
    <2>2. /\ g \in Seq(Octets) /\ Len(g) = Len(v) + Len(w)
          /\ \A i \in 1..Len(v) : g[i] = v[i]
          /\ \A i \in 1..Len(w) : g[Len(v) + i] = w[i]
      BY <1>3, <2>1, FieldParts
    <2> QED
      BY <1>3, <2>1, <2>2, Zenon
  <1>5. /\ 3 \in 1..Len(v) /\ 4 \in 1..Len(v) /\ 2 \in 1..Len(w)
        /\ Len(v) + 2 = Len(v) + Len(w)
    BY <1>2
  <1>6. f[3] = v[3] /\ f[4] = v[4] /\ f[Len(f)] = w[2]
    BY <1>4, <1>5, Zenon
  <1>7. f # None
    BY <1>4, NoneAssumption, Zenon
  <1> QED
    BY <1>2, <1>4, <1>6, <1>7, Zenon

\* The head of a public area: its type, the algorithm of its Name, its
\* attributes and its policy.
HeadOf(type, bits, policy) ==
  type \o algSHA256 \o Attributes(bits) \o MarshalTPM2B(policy)

\* The octets and the fields of a head.
LEMMA Heads ==
  ASSUME NEW type \in {AlgECC, algKeyedHash}, NEW bits, NEW policy, IsBuffer(policy)
  PROVE  /\ Starts(HeadKinds, <<type, algSHA256, Attributes(bits), policy>>,
                   HeadOf(type, bits, policy))
         /\ HeadOf(type, bits, policy) \in Octets
         /\ Length(HeadOf(type, bits, policy)) = 10 + Length(policy)
         /\ Slice(HeadOf(type, bits, policy), 1, 2) = type
  <1>1. PICK a, m : a = Attributes(bits) /\ m = MarshalTPM2B(policy)
    OBVIOUS
  <1>2. /\ type \in Octets /\ Length(type) = 2 /\ Slice(type, 1, 2) = type
        /\ algSHA256 \in Octets /\ Length(algSHA256) = 2
    BY Algorithms, Zenon
  <1>3. a \in Octets /\ Length(a) = 4
    BY <1>1, MaskBits, Zenon
  <1>4. m \in Octets /\ Length(m) = 2 + Length(policy) /\ Length(policy) \in Nat
    BY <1>1, Buffers, Zenon
  <1>5. PICK h1, h2, h3 : h1 = type \o algSHA256 /\ h2 = h1 \o a /\ h3 = h2 \o m
    OBVIOUS
  <1>6. h1 \in Octets /\ Length(h1) = 4 /\ Slice(h1, 1, 2) = type
    <2>1. Length(type) >= 2
      BY <1>2
    <2>2. h1 \in Octets /\ Length(h1) = Length(type) + Length(algSHA256)
          /\ Slice(h1, 1, 2) = Slice(type, 1, 2)
      BY <1>2, <1>5, <2>1, Longer, Prefix, Zenon
    <2> QED
      BY <1>2, <2>2
  <1>7. h2 \in Octets /\ Length(h2) = 8 /\ Slice(h2, 1, 2) = type
    <2>1. Length(h1) >= 2
      BY <1>6
    <2>2. h2 \in Octets /\ Length(h2) = Length(h1) + Length(a)
          /\ Slice(h2, 1, 2) = Slice(h1, 1, 2)
      BY <1>3, <1>5, <1>6, <2>1, Longer, Prefix, Zenon
    <2> QED
      BY <1>3, <1>6, <2>2
  <1>8. h3 \in Octets /\ Length(h3) = 10 + Length(policy) /\ Slice(h3, 1, 2) = type
    <2>1. Length(h2) >= 2
      BY <1>7
    <2>2. h3 \in Octets /\ Length(h3) = Length(h2) + Length(m)
          /\ Slice(h3, 1, 2) = Slice(h2, 1, 2)
      BY <1>4, <1>5, <1>7, <2>1, Longer, Prefix, Zenon
    <2> QED
      BY <1>4, <1>7, <2>2
  <1>9. HeadOf(type, bits, policy) = h3
    BY <1>1, <1>5, Zenon DEF HeadOf
  <1>10. Starts(HeadKinds, <<type, algSHA256, a, policy>>, h3)
    <2>1. /\ Starts(<<"u16">>, <<type>>, type) /\ Starts(<<"u16">>, <<algSHA256>>, algSHA256)
          /\ Starts(<<"u32">>, <<a>>, a)
      BY <1>2, <1>3, StartsNumber, Zenon
    <2>2. Starts(<<"2b">>, <<policy>>, m)
      BY <1>1, BufferParameters, Zenon
    <2> QED
      BY <1>1, <1>5, <2>1, <2>2, StartsFour, Zenon DEF HeadKinds
  <1> QED
    BY <1>1, <1>8, <1>9, <1>10, Zenon

\* The public area of a key as the device reads it.
KeyArea(bits, policy, s, c, x, y) ==
  HeadOf(AlgECC, bits, policy) \o (s \o c \o NistP256 \o algNull) \o ECCPoint(x, y)
IsKeyArea(p, octets, bits, policy, s, c, y) ==
  /\ p \in PublicAreas /\ p # None
  /\ p.sealed = FALSE /\ p.policy = policy /\ p.unique = y /\ p.octets = octets
  /\ p.bits = bits /\ (p.symmetric <=> s # algNull) /\ (p.scheme <=> c # algNull)
KeyAreaParts(octets, bits, policy, s, c, x, y) ==
  /\ bits \in SUBSET (0..31) /\ IsBuffer(policy)
  /\ Starts(<<"symmetric">>, <<s>>, s) /\ Starts(<<"scheme">>, <<c>>, c)
  /\ IsBuffer(x) /\ IsBuffer(y) /\ octets = KeyArea(bits, policy, s, c, x, y)

\* What the device reads of a key's public area.
LEMMA PublicKey ==
  ASSUME NEW octets, NEW bits, NEW policy, NEW s, NEW c, NEW x, NEW y,
         KeyAreaParts(octets, bits, policy, s, c, x, y)
  PROVE  IsKeyArea(Public(octets), octets, bits, policy, s, c, y)
  <1>0. /\ bits \in SUBSET (0..31) /\ IsBuffer(policy)
        /\ Starts(<<"symmetric">>, <<s>>, s) /\ Starts(<<"scheme">>, <<c>>, c)
        /\ IsBuffer(x) /\ IsBuffer(y) /\ octets = KeyArea(bits, policy, s, c, x, y)
    BY Zenon DEF KeyAreaParts
  <1>1. PICK h, m, q, a, mx, my, all :
          /\ h = HeadOf(AlgECC, bits, policy) /\ m = s \o c \o NistP256 \o algNull
          /\ mx = MarshalTPM2B(x) /\ my = MarshalTPM2B(y)
          /\ q = m \o mx \o my /\ a = Attributes(bits) /\ all = h \o q
    OBVIOUS
  <1>2. AlgECC \in {AlgECC, algKeyedHash}
    OBVIOUS
  <1>3. /\ Starts(HeadKinds, <<AlgECC, algSHA256, a, policy>>, h)
        /\ h \in Octets /\ Length(h) = 10 + Length(policy) /\ Slice(h, 1, 2) = AlgECC
    BY <1>0, <1>1, <1>2, Heads, Zenon
  <1>4. /\ Starts(<<"u16">>, <<NistP256>>, NistP256)
        /\ Starts(<<"scheme">>, <<algNull>>, algNull)
        /\ Starts(<<"2b">>, <<x>>, mx) /\ Starts(<<"2b">>, <<y>>, my)
    <2>1. /\ algNull \in Octets /\ Length(algNull) = 2
          /\ NistP256 \in Octets /\ Length(NistP256) = 2
      BY Algorithms, Zenon
    <2>2. Length(algNull) >= 2
      BY <2>1
    <2>3. Starts(<<"scheme">>, <<algNull>>, algNull)
      BY <2>1, <2>2, StartsAlgorithm, Zenon
    <2> QED
      BY <1>0, <1>1, <2>1, <2>3, BufferParameters, StartsNumber, Zenon
  <1>5. Starts(KeyKinds, <<s, c, NistP256, algNull, x, y>>, q)
    BY <1>0, <1>1, <1>4, StartsSix, Zenon DEF KeyKinds
  <1>6. octets = all /\ all \in Octets /\ Slice(all, 1, 2) = AlgECC
    <2>1. m \in Octets /\ mx \in Octets /\ my \in Octets
      <3>1. Starts(<<"symmetric", "scheme", "u16", "scheme">>, <<s, c, NistP256, algNull>>, m)
        BY <1>0, <1>1, <1>4, StartsFour, Zenon
      <3>2. m \in Octets
        BY <3>1, Zenon DEF Starts
      <3> QED
        BY <1>0, <1>1, <3>2, Buffers, Zenon
    <2>2. PICK e : e = mx \o my
      OBVIOUS
    <2>3. e \in Octets /\ m \o mx \o my = m \o e
      BY <2>1, <2>2, ConcatType, ConcatTwice, ZenonT(40)
    <2>4. h \o m \o e = h \o (m \o e)
      BY <1>3, <2>1, <2>3, ConcatTwice, Zenon
    <2>5. octets = all
      BY <1>0, <1>1, <2>2, <2>3, <2>4, Zenon DEF KeyArea, ECCPoint
    <2>6. Length(h) >= 2 /\ q \in Octets
      <3>1. Length(policy) \in Nat
        BY <1>0, Buffers, Zenon
      <3>2. Length(h) >= 2
        BY <1>3, <3>1
      <3> QED
        BY <1>5, <3>2 DEF Starts
    <2>7. all \in Octets /\ Slice(all, 1, 2) = Slice(h, 1, 2)
      BY <1>1, <1>3, <2>6, ConcatType, Prefix, Zenon
    <2> QED
      BY <1>3, <2>5, <2>7, Zenon
  <1>7. PICK v, w, f : /\ v = <<AlgECC, algSHA256, a, policy>>
                       /\ w = <<s, c, NistP256, algNull, x, y>> /\ f = v \o w
    OBVIOUS
  <1>8. Fields(HeadKinds \o KeyKinds, octets) = f
    <2>1. Starts(HeadKinds, v, h) /\ Starts(KeyKinds, w, q)
      BY <1>3, <1>5, <1>7, Zenon
    <2>2. Fields(HeadKinds \o KeyKinds, h \o q) = v \o w
      BY <2>1, FieldsTwice
    <2> QED
      BY <1>1, <1>6, <1>7, <2>2, Zenon
  <1>9. /\ f \in Seq(Octets) /\ f # None
        /\ f[3] = a /\ f[4] = policy /\ f[5] = s /\ f[6] = c /\ f[Len(f)] = y
    <2>1. v \in Seq(Octets) /\ w \in Seq(Octets)
      BY <1>3, <1>5, <1>7 DEF Starts
    <2>2. /\ Len(v) = 4 /\ Len(w) = 6
          /\ v[3] = a /\ v[4] = policy /\ w[1] = s /\ w[2] = c /\ w[6] = y
      BY <1>7
    <2>3. KeyFields(f, v, w)
      BY <1>7, <2>1, <2>2, Zenon DEF KeyFields
    <2>4. /\ f \in Seq(Octets) /\ f # None
          /\ f[3] = v[3] /\ f[4] = v[4] /\ f[5] = w[1] /\ f[6] = w[2] /\ f[Len(f)] = w[6]
      BY <2>3, KeyValues
    <2> QED
      BY <2>2, <2>4
  <1>10. PICK p : p = Public(octets)
    OBVIOUS
  <1>11. p = [sealed |-> FALSE, policy |-> f[4], unique |-> f[Len(f)], octets |-> octets,
              bits |-> {k \in 0..31 : (f[3][4 - (k \div 8)] \div 2^(k % 8)) % 2 = 1},
              symmetric |-> ~FALSE /\ f[5] # algNull,
              scheme |-> ~FALSE /\ f[6] # algNull]
    <2>1. algKeyedHash # AlgECC
      BY Algorithms, Zenon
    <2>2. PICK no \in BOOLEAN : no = FALSE
      OBVIOUS
    <2>3. no <=> Length(octets) > 1 /\ Slice(octets, 1, 2) = algKeyedHash
      BY <1>6, <2>1, <2>2, Zenon
    <2>4. KeyKinds = IF no THEN SealedKinds ELSE KeyKinds
      BY <2>2
    <2>5. octets \in Octets /\ f = Fields(HeadKinds \o KeyKinds, octets) /\ f # None
      BY <1>6, <1>8, <1>9, Zenon
    <2>6. Public(octets) = PublicOf(no, f, octets)
      BY <2>3, <2>4, <2>5, PublicIs
    <2>7. p = PublicOf(FALSE, f, octets)
      BY <1>10, <2>2, <2>6, Zenon
    <2> QED
      BY <1>9, <2>7, Zenon DEF PublicOf
  <1>12. {k \in 0..31 : (f[3][4 - (k \div 8)] \div 2^(k % 8)) % 2 = 1} = bits
    <2>1. {k \in 0..31 : (At(a, 4 - (k \div 8)) \div 2^(k % 8)) % 2 = 1} = bits \cap (0..31)
      BY <1>0, <1>1, MaskBits
    <2>2. bits \cap (0..31) = bits
      BY <1>0, Zenon
    <2>3. {k \in 0..31 : (a[4 - (k \div 8)] \div 2^(k % 8)) % 2 = 1} = bits
      BY <2>1, <2>2, Zenon DEF At
    <2> QED
      BY <1>9, <2>3, Zenon
  <1>13. p = [sealed |-> FALSE, policy |-> policy, unique |-> y, octets |-> octets,
              bits |-> bits, symmetric |-> s # algNull, scheme |-> c # algNull]
    <2>1. PICK b : b = {k \in 0..31 : (f[3][4 - (k \div 8)] \div 2^(k % 8)) % 2 = 1}
      OBVIOUS
    <2>2. p = [sealed |-> FALSE, policy |-> f[4], unique |-> f[Len(f)], octets |-> octets,
               bits |-> b, symmetric |-> ~FALSE /\ f[5] # algNull,
               scheme |-> ~FALSE /\ f[6] # algNull]
      BY <1>11, <2>1, Zenon
    <2>3. b = bits
      BY <1>12, <2>1, Zenon
    <2> QED
      BY <1>9, <2>2, <2>3
  <1>14. p \in PublicAreas /\ p # None
    <2>1. policy \in Octets /\ y \in Octets /\ octets \in Octets
      BY <1>0, <1>6, Buffers, Zenon
    <2>2. p \in PublicAreas
      BY <1>0, <1>13, <2>1 DEF PublicAreas
    <2> QED
      BY <2>2, AnswersAssumption, Zenon
  <1>15. /\ p.sealed = FALSE /\ p.policy = policy /\ p.unique = y /\ p.octets = octets
         /\ p.bits = bits /\ (p.symmetric <=> s # algNull) /\ (p.scheme <=> c # algNull)
    BY <1>13
  <1> QED
    BY <1>10, <1>14, <1>15, Zenon DEF IsKeyArea

\* The public area of a sealed object as the device reads it.
IsSealedArea(p, octets, bits, policy, unique) ==
  /\ p \in PublicAreas /\ p # None
  /\ p.sealed = TRUE /\ p.policy = policy /\ p.unique = unique /\ p.octets = octets
  /\ p.bits = bits /\ p.symmetric = FALSE /\ p.scheme = FALSE

\* What the device reads of a sealed object's public area.
LEMMA PublicSealed ==
  ASSUME NEW bits \in SUBSET (0..31), NEW policy, IsBuffer(policy),
         NEW unique, IsBuffer(unique),
         NEW octets, octets = SealPublic(bits, policy, unique)
  PROVE  /\ IsSealedArea(Public(octets), octets, bits, policy, unique)
         /\ octets \in Octets /\ Length(octets) = 14 + Length(policy) + Length(unique)
  <1>1. PICK h, m, q, a, all :
          /\ h = HeadOf(algKeyedHash, bits, policy) /\ m = MarshalTPM2B(unique)
          /\ q = algNull \o m /\ a = Attributes(bits) /\ all = h \o q
    OBVIOUS
  <1>2. algKeyedHash \in {AlgECC, algKeyedHash}
    OBVIOUS
  <1>3. /\ Starts(HeadKinds, <<algKeyedHash, algSHA256, a, policy>>, h)
        /\ h \in Octets /\ Length(h) = 10 + Length(policy) /\ Slice(h, 1, 2) = algKeyedHash
    BY <1>1, <1>2, Heads, Zenon
  <1>4. /\ Starts(<<"scheme">>, <<algNull>>, algNull) /\ Starts(<<"2b">>, <<unique>>, m)
        /\ algNull \in Octets /\ Length(algNull) = 2
    <2>1. algNull \in Octets /\ Length(algNull) = 2
      BY Algorithms, Zenon
    <2>2. Length(algNull) >= 2
      BY <2>1
    <2>3. Starts(<<"scheme">>, <<algNull>>, algNull)
      BY <2>1, <2>2, StartsAlgorithm, Zenon
    <2> QED
      BY <1>1, <2>1, <2>3, BufferParameters, Zenon
  <1>5. Starts(SealedKinds, <<algNull, unique>>, q)
    BY <1>1, <1>4, StartsTwo, Zenon DEF SealedKinds
  <1>6. /\ octets = all /\ all \in Octets /\ Slice(all, 1, 2) = algKeyedHash
        /\ Length(all) = 14 + Length(policy) + Length(unique) /\ Length(all) > 1
    <2>1. /\ m \in Octets /\ Length(m) = 2 + Length(unique)
          /\ Length(unique) \in Nat /\ Length(policy) \in Nat
      BY <1>1, Buffers, Zenon
    <2>2. q \in Octets /\ Length(q) = Length(algNull) + Length(m)
      BY <1>1, <1>4, <2>1, Longer, Zenon
    <2>3. h \o algNull \o m = h \o (algNull \o m)
      BY <1>3, <1>4, <2>1, ConcatTwice, Zenon
    <2>4. octets = all
      BY <1>1, <2>3, Zenon DEF SealPublic, HeadOf
    <2>5. Length(h) >= 2
      BY <1>3, <2>1
    <2>6. /\ all \in Octets /\ Slice(all, 1, 2) = Slice(h, 1, 2)
          /\ Length(all) = Length(h) + Length(q)
      BY <1>1, <1>3, <2>2, <2>5, Longer, Prefix, Zenon
    <2>7. Length(all) = 14 + Length(policy) + Length(unique) /\ Length(all) > 1
      BY <1>3, <1>4, <2>1, <2>2, <2>6
    <2> QED
      BY <1>3, <2>4, <2>6, <2>7, Zenon
  <1>7. PICK v, w, f : /\ v = <<algKeyedHash, algSHA256, a, policy>>
                       /\ w = <<algNull, unique>> /\ f = v \o w
    OBVIOUS
  <1>8. Fields(HeadKinds \o SealedKinds, octets) = f
    <2>1. Starts(HeadKinds, v, h) /\ Starts(SealedKinds, w, q)
      BY <1>3, <1>5, <1>7, Zenon
    <2>2. Fields(HeadKinds \o SealedKinds, h \o q) = v \o w
      BY <2>1, FieldsTwice
    <2> QED
      BY <1>1, <1>6, <1>7, <2>2, Zenon
  <1>9. /\ f \in Seq(Octets) /\ f # None
        /\ f[3] = a /\ f[4] = policy /\ f[Len(f)] = unique
    <2>1. v \in Seq(Octets) /\ w \in Seq(Octets)
      BY <1>3, <1>5, <1>7 DEF Starts
    <2>2. Len(v) = 4 /\ Len(w) = 2 /\ v[3] = a /\ v[4] = policy /\ w[2] = unique
      BY <1>7
    <2>3. SealedFields(f, v, w)
      BY <1>7, <2>1, <2>2, Zenon DEF SealedFields
    <2>4. /\ f \in Seq(Octets) /\ f # None
          /\ f[3] = v[3] /\ f[4] = v[4] /\ f[Len(f)] = w[2]
      BY <2>3, SealedValues
    <2> QED
      BY <2>2, <2>4
  <1>10. PICK p : p = Public(octets)
    OBVIOUS
  <1>11. p = [sealed |-> TRUE, policy |-> f[4], unique |-> f[Len(f)], octets |-> octets,
              bits |-> {k \in 0..31 : (f[3][4 - (k \div 8)] \div 2^(k % 8)) % 2 = 1},
              symmetric |-> ~TRUE /\ f[5] # algNull,
              scheme |-> ~TRUE /\ f[6] # algNull]
    <2>1. PICK yes \in BOOLEAN : yes = TRUE
      OBVIOUS
    <2>2. yes <=> Length(octets) > 1 /\ Slice(octets, 1, 2) = algKeyedHash
      BY <1>6, <2>1, Zenon
    <2>3. SealedKinds = IF yes THEN SealedKinds ELSE KeyKinds
      BY <2>1
    <2>4. octets \in Octets /\ f = Fields(HeadKinds \o SealedKinds, octets) /\ f # None
      BY <1>6, <1>8, <1>9, Zenon
    <2>5. Public(octets) = PublicOf(yes, f, octets)
      BY <2>2, <2>3, <2>4, PublicIs
    <2>6. p = PublicOf(TRUE, f, octets)
      BY <1>10, <2>1, <2>5, Zenon
    <2> QED
      BY <1>9, <2>6, Zenon DEF PublicOf
  <1>12. {k \in 0..31 : (f[3][4 - (k \div 8)] \div 2^(k % 8)) % 2 = 1} = bits
    <2>1. {k \in 0..31 : (At(a, 4 - (k \div 8)) \div 2^(k % 8)) % 2 = 1} = bits \cap (0..31)
      BY <1>1, MaskBits
    <2>2. bits \cap (0..31) = bits
      BY Zenon
    <2>3. {k \in 0..31 : (a[4 - (k \div 8)] \div 2^(k % 8)) % 2 = 1} = bits
      BY <2>1, <2>2, Zenon DEF At
    <2> QED
      BY <1>9, <2>3, Zenon
  <1>13. p = [sealed |-> TRUE, policy |-> policy, unique |-> unique, octets |-> octets,
              bits |-> bits, symmetric |-> FALSE, scheme |-> FALSE]
    <2>1. PICK b : b = {k \in 0..31 : (f[3][4 - (k \div 8)] \div 2^(k % 8)) % 2 = 1}
      OBVIOUS
    <2>2. p = [sealed |-> TRUE, policy |-> f[4], unique |-> f[Len(f)], octets |-> octets,
               bits |-> b, symmetric |-> ~TRUE /\ f[5] # algNull,
               scheme |-> ~TRUE /\ f[6] # algNull]
      BY <1>11, <2>1, Zenon
    <2>3. b = bits
      BY <1>12, <2>1, Zenon
    <2> QED
      BY <1>9, <2>2, <2>3
  <1>14. p \in PublicAreas /\ p # None
    <2>1. policy \in Octets /\ unique \in Octets /\ octets \in Octets
      BY <1>6, Buffers, Zenon
    <2>2. p \in PublicAreas
      BY <1>13, <2>1 DEF PublicAreas
    <2> QED
      BY <2>2, AnswersAssumption, Zenon
  <1>15. /\ p.sealed = TRUE /\ p.policy = policy /\ p.unique = unique /\ p.octets = octets
         /\ p.bits = bits /\ p.symmetric = FALSE /\ p.scheme = FALSE
    BY <1>13
  <1> QED
    BY <1>6, <1>10, <1>14, <1>15, Zenon DEF IsSealedArea

-----------------------------------------------------------------------------
(* The keys of the device.                                                 *)

\* AES-128 in CFB mode, and ECDSA with SHA-256.
CipherAES   == algAES \o PutU16(128) \o algCFB
SchemeECDSA == AlgECDSA \o algSHA256

\* The algorithms of keys are fields of their kinds.
LEMMA KeyAlgorithms ==
  /\ CipherAES \in Octets /\ Length(CipherAES) = 6
  /\ Starts(<<"symmetric">>, <<CipherAES>>, CipherAES) /\ CipherAES # algNull
  /\ SchemeECDSA \in Octets /\ Length(SchemeECDSA) = 4
  /\ Starts(<<"scheme">>, <<SchemeECDSA>>, SchemeECDSA) /\ SchemeECDSA # algNull
  /\ algNull \in Octets /\ Length(algNull) = 2
  /\ Starts(<<"symmetric">>, <<algNull>>, algNull) /\ Starts(<<"scheme">>, <<algNull>>, algNull)
  <1>1. /\ \A a \in {algNull, algSHA256, algAES, algCFB, AlgECDSA} :
             a \in Octets /\ Length(a) = 2 /\ Slice(a, 1, 2) = a
        /\ algAES # algNull /\ AlgECDSA # algNull
    BY Algorithms, Zenon
  <1>2. PICK size : size = PutU16(128)
    OBVIOUS
  <1>3. size \in Octets /\ Length(size) = 2
    BY <1>2, U16s
  <1>4. PICK x : x = algAES \o size
    OBVIOUS
  <1>5. x \in Octets /\ Length(x) = 4 /\ Slice(x, 1, 2) = algAES
    <2>1. Length(algAES) >= 2
      BY <1>1
    <2>2. x \in Octets /\ Length(x) = Length(algAES) + Length(size)
          /\ Slice(x, 1, 2) = Slice(algAES, 1, 2)
      BY <1>1, <1>3, <1>4, <2>1, Longer, Prefix
    <2> QED
      BY <1>1, <1>3, <2>2
  <1>6. PICK s : s = x \o algCFB
    OBVIOUS
  <1>7. s \in Octets /\ Length(s) = 6 /\ Slice(s, 1, 2) = algAES
    <2>1. Length(x) >= 2
      BY <1>5
    <2>2. s \in Octets /\ Length(s) = Length(x) + Length(algCFB)
          /\ Slice(s, 1, 2) = Slice(x, 1, 2)
      BY <1>1, <1>5, <1>6, <2>1, Longer, Prefix
    <2> QED
      BY <1>1, <1>5, <2>2
  <1>8. PICK c : c = AlgECDSA \o algSHA256
    OBVIOUS
  <1>9. c \in Octets /\ Length(c) = 4 /\ Slice(c, 1, 2) = AlgECDSA
    <2>1. Length(AlgECDSA) >= 2
      BY <1>1
    <2>2. c \in Octets /\ Length(c) = Length(AlgECDSA) + Length(algSHA256)
          /\ Slice(c, 1, 2) = Slice(AlgECDSA, 1, 2)
      BY <1>1, <1>8, <2>1, Longer, Prefix
    <2> QED
      BY <1>1, <2>2
  <1>10. CipherAES = s /\ SchemeECDSA = c
    BY <1>2, <1>4, <1>6, <1>8, Zenon DEF CipherAES, SchemeECDSA
  <1>11. s # algNull /\ c # algNull
    BY <1>1, <1>7, <1>9
  <1>12. Starts(<<"symmetric">>, <<s>>, s)
    <2>1. Length(s) >= 2 /\ Slice(s, 1, 2) # algNull
      BY <1>1, <1>7
    <2> QED
      BY <1>7, <2>1, StartsAlgorithm, Zenon
  <1>13. Starts(<<"scheme">>, <<c>>, c)
    <2>1. Length(c) >= 2 /\ Slice(c, 1, 2) # algNull
      BY <1>1, <1>9
    <2> QED
      BY <1>9, <2>1, StartsAlgorithm, Zenon
  <1>14. Starts(<<"symmetric">>, <<algNull>>, algNull) /\ Starts(<<"scheme">>, <<algNull>>, algNull)
    <2>1. Length(algNull) >= 2
      BY <1>1
    <2> QED
      BY <1>1, <2>1, StartsAlgorithm, Zenon
  <1> QED
    BY <1>1, <1>7, <1>9, <1>10, <1>11, <1>12, <1>13, <1>14, Zenon

\* The octets of a key's public area.
SmallKey(bits, policy, s, c, x, y) ==
  /\ IsBuffer(policy) /\ s \in Octets /\ c \in Octets /\ IsBuffer(x) /\ IsBuffer(y)
  /\ Length(policy) <= 64 /\ Length(s) <= 6 /\ Length(c) <= 4
  /\ Length(x) <= 2 /\ Length(y) <= 2

\* A key's public area fits a TPM2B.
LEMMA KeyAreaLength ==
  ASSUME NEW bits, NEW policy, NEW s, NEW c, NEW x, NEW y,
         SmallKey(bits, policy, s, c, x, y)
  PROVE  /\ HeadOf(AlgECC, bits, policy) \o (s \o c \o NistP256 \o algNull) \in Octets
         /\ ECCPoint(x, y) \in Octets /\ Length(ECCPoint(x, y)) = 4 + Length(x) + Length(y)
         /\ IsBuffer(KeyArea(bits, policy, s, c, x, y))
  <1>0. /\ IsBuffer(policy) /\ s \in Octets /\ c \in Octets /\ IsBuffer(x) /\ IsBuffer(y)
        /\ Length(policy) <= 64 /\ Length(s) <= 6 /\ Length(c) <= 4
        /\ Length(x) <= 2 /\ Length(y) <= 2
    BY Zenon DEF SmallKey
  <1>1. PICK h, m1, m2, m, mx, my, e, q, all :
          /\ h = HeadOf(AlgECC, bits, policy) /\ m1 = s \o c /\ m2 = m1 \o NistP256
          /\ m = m2 \o algNull /\ mx = MarshalTPM2B(x) /\ my = MarshalTPM2B(y)
          /\ e = mx \o my /\ q = h \o m /\ all = q \o e
    OBVIOUS
  <1>2. h \in Octets /\ Length(h) = 10 + Length(policy)
    <2>1. AlgECC \in {AlgECC, algKeyedHash}
      OBVIOUS
    <2> QED
      BY <1>0, <1>1, <2>1, Heads, Zenon
  <1>3. /\ algNull \in Octets /\ Length(algNull) = 2
        /\ NistP256 \in Octets /\ Length(NistP256) = 2
    BY Algorithms, Zenon
  <1>4. /\ mx \in Octets /\ Length(mx) = 2 + Length(x)
        /\ my \in Octets /\ Length(my) = 2 + Length(y)
        /\ Length(x) \in Nat /\ Length(y) \in Nat /\ Length(policy) \in Nat
    BY <1>0, <1>1, Buffers, Zenon
  <1>5. /\ m1 \in Octets /\ Length(m1) = Length(s) + Length(c)
        /\ Length(s) \in Nat /\ Length(c) \in Nat
    BY <1>0, <1>1, Longer, Lengths, Zenon
  <1>6. m2 \in Octets /\ Length(m2) = Length(m1) + Length(NistP256)
    BY <1>1, <1>3, <1>5, Longer, Zenon
  <1>7. m \in Octets /\ Length(m) = Length(m2) + Length(algNull)
    BY <1>1, <1>3, <1>6, Longer, Zenon
  <1>8. e \in Octets /\ Length(e) = Length(mx) + Length(my)
    BY <1>1, <1>4, Longer, Zenon
  <1>9. q \in Octets /\ Length(q) = Length(h) + Length(m)
    BY <1>1, <1>2, <1>7, Longer, Zenon
  <1>10. all \in Octets /\ Length(all) = Length(q) + Length(e)
    BY <1>1, <1>8, <1>9, Longer, Zenon
  <1>11. Length(e) = 4 + Length(x) + Length(y) /\ Length(all) <= Most
    BY <1>0, <1>2, <1>3, <1>4, <1>5, <1>6, <1>7, <1>8, <1>9, <1>10, Limits, SMT
  <1>13. IsBuffer(all)
    BY <1>10, <1>11, Buffers, Zenon
  <1>12. /\ HeadOf(AlgECC, bits, policy) \o (s \o c \o NistP256 \o algNull) = q
         /\ ECCPoint(x, y) = e /\ KeyArea(bits, policy, s, c, x, y) = all
    BY <1>1, Zenon DEF KeyArea, ECCPoint
  <1> QED
    BY <1>8, <1>9, <1>11, <1>12, <1>13, Zenon

\* The keys by their handles: their attributes, their policies, their ciphers
\* and their schemes.
Keys == {"ak", "srk", "ek"}
KeyBits(k) == IF k = "ak" THEN akObjectAttributes
              ELSE IF k = "srk" THEN storageObjectAttributes ELSE ekObjectAttributes
KeyPolicy(k) == IF k = "ek" THEN ekAuthPolicy ELSE <<>>
KeyCipher(k) == IF k = "ak" THEN algNull ELSE CipherAES
KeyScheme(k) == IF k = "ak" THEN SchemeECDSA ELSE algNull
AreaOf(k, x, y) == KeyArea(KeyBits(k), KeyPolicy(k), KeyCipher(k), KeyScheme(k), x, y)

\* The templates are those areas without a point.
LEMMA Templates ==
  /\ marshalECCAKPublic(<<>>, <<>>) = MarshalTPM2B(AreaOf("ak", <<>>, <<>>))
  /\ marshalECCStoragePublic(<<>>, <<>>) = MarshalTPM2B(AreaOf("srk", <<>>, <<>>))
  /\ marshalEKPublic(ekAuthPolicy, <<>>, <<>>) = MarshalTPM2B(AreaOf("ek", <<>>, <<>>))
  <1>1. PICK e, n, p : e = <<>> /\ n = Empty /\ p = ECCPoint(e, e)
    OBVIOUS
  <1>2. MarshalTPM2B(e) = n /\ IsBuffer(e)
    BY <1>1, BufferParameters, Zenon
  <1>3. /\ algNull \in Octets /\ algSHA256 \in Octets /\ AlgECDSA \in Octets
        /\ NistP256 \in Octets
    BY Algorithms, Zenon
  <1>4. marshalECCAKPublic(e, e) = MarshalTPM2B(AreaOf("ak", e, e))
    <2>1. PICK h : h = HeadOf(AlgECC, akObjectAttributes, e)
      OBVIOUS
    <2>2. h = AlgECC \o algSHA256 \o Attributes(akObjectAttributes) \o n
      BY <1>2, <2>1, Zenon DEF HeadOf
    <2>3. h \in Octets
      <3>1. AlgECC \in {AlgECC, algKeyedHash}
        OBVIOUS
      <3> QED
        BY <1>2, <2>1, <3>1, Heads, Zenon
    <2>4. Regroups(h, algNull, AlgECDSA, algSHA256, NistP256, algNull)
      BY <1>3, <2>3, Regroup, Zenon
    <2>5. PICK c, m : c = AlgECDSA \o algSHA256 /\ m = algNull \o c \o NistP256 \o algNull
      OBVIOUS
    <2>6. algNull \o AlgECDSA \o algSHA256 = algNull \o c
      BY <1>3, <2>5, ConcatTwice, Zenon
    <2>7. h \o algNull \o AlgECDSA \o algSHA256 \o NistP256 \o algNull = h \o m
      BY <2>4, <2>5, <2>6, Zenon DEF Regroups
    <2>8. marshalECCAKPublic(e, e) = MarshalTPM2B(h \o m \o p)
      BY <1>1, <2>2, <2>7, Zenon DEF marshalECCAKPublic
    <2>9. AreaOf("ak", e, e) = KeyArea(akObjectAttributes, e, algNull, c, e, e)
      BY <1>1, <2>5 DEF AreaOf, KeyBits, KeyPolicy, KeyCipher, KeyScheme, SchemeECDSA
    <2>10. AreaOf("ak", e, e) = h \o m \o p
      BY <1>1, <2>1, <2>5, <2>9, Zenon DEF KeyArea
    <2> QED
      BY <2>8, <2>10, Zenon
  <1>5. PICK s, m : s = CipherAES /\ m = s \o algNull \o NistP256 \o algNull
    OBVIOUS
  <1>6. StorageParms = m
    BY <1>5, Zenon DEF StorageParms, CipherAES
  <1>7. marshalECCStoragePublic(e, e) = MarshalTPM2B(AreaOf("srk", e, e))
    <2>1. PICK h : h = HeadOf(AlgECC, storageObjectAttributes, e)
      OBVIOUS
    <2>2. h = AlgECC \o algSHA256 \o Attributes(storageObjectAttributes) \o n
      BY <1>2, <2>1, Zenon DEF HeadOf
    <2>3. marshalECCStoragePublic(e, e) = MarshalTPM2B(h \o m \o p)
      BY <1>1, <1>6, <2>2, Zenon DEF marshalECCStoragePublic
    <2>4. AreaOf("srk", e, e) = KeyArea(storageObjectAttributes, e, s, algNull, e, e)
      BY <1>1, <1>5 DEF AreaOf, KeyBits, KeyPolicy, KeyCipher, KeyScheme
    <2>5. AreaOf("srk", e, e) = h \o m \o p
      BY <1>1, <1>5, <2>1, <2>4, Zenon DEF KeyArea
    <2> QED
      BY <2>3, <2>5, Zenon
  <1>8. marshalEKPublic(ekAuthPolicy, e, e) = MarshalTPM2B(AreaOf("ek", e, e))
    <2>1. PICK h : h = HeadOf(AlgECC, ekObjectAttributes, ekAuthPolicy)
      OBVIOUS
    <2>2. h = AlgECC \o algSHA256 \o Attributes(ekObjectAttributes) \o MarshalTPM2B(ekAuthPolicy)
      BY <2>1, Zenon DEF HeadOf
    <2>3. marshalEKPublic(ekAuthPolicy, e, e) = MarshalTPM2B(h \o m \o p)
      BY <1>1, <1>6, <2>2, Zenon DEF marshalEKPublic
    <2>4. AreaOf("ek", e, e) = KeyArea(ekObjectAttributes, ekAuthPolicy, s, algNull, e, e)
      BY <1>1, <1>5 DEF AreaOf, KeyBits, KeyPolicy, KeyCipher, KeyScheme
    <2>5. AreaOf("ek", e, e) = h \o m \o p
      BY <1>1, <1>5, <2>1, <2>4, Zenon DEF KeyArea
    <2> QED
      BY <2>3, <2>5, Zenon
  <1> QED
    BY <1>1, <1>4, <1>7, <1>8, Zenon

\* The digest of PolicySecret is a digest.
LEMMA PolicyDigests ==
  ASSUME Hashes
  PROVE  /\ NoPolicy \in Digest /\ ekAuthPolicy \in Digest
         /\ \A d \in Digest : PolicySecretExtended(d) \in Digest
  <1>1. NoPolicy \in Digest
    BY DEF NoPolicy, Digest, Octet
  <1>2. ASSUME NEW d \in Digest
        PROVE  PolicySecretExtended(d) \in Digest
    <2>1. ccPolicySecret \in Octets
      BY U32s DEF ccPolicySecret
    <2>2. RHEndorsement \in Octets
      BY HandlesOf, Zenon
    <2>3. d \in Octets
      BY Digests, Zenon
    <2>4. d \o ccPolicySecret \in Octets
      BY <2>1, <2>3, ConcatType, Zenon
    <2>5. d \o ccPolicySecret \o RHEndorsement \in Octets
      BY <2>2, <2>4, ConcatType, Zenon
    <2>6. Hash(d \o ccPolicySecret \o RHEndorsement) \in Digest
      BY <2>5, Digests, Zenon
    <2>7. Hash(d \o ccPolicySecret \o RHEndorsement) \in Octets
      BY <2>6, Digests, Zenon
    <2>8. Hash(Hash(d \o ccPolicySecret \o RHEndorsement)) \in Digest
      BY <2>7, Digests, Zenon
    <2> QED
      BY <2>8, Zenon DEF PolicySecretExtended
  <1> QED
    BY <1>1, <1>2, Zenon DEF ekAuthPolicy

\* The parts of a key's public area.
LEMMA KeyParts ==
  ASSUME Hashes, NEW k \in Keys
  PROVE  /\ KeyBits(k) \in SUBSET (0..31)
         /\ IsBuffer(KeyPolicy(k)) /\ Length(KeyPolicy(k)) <= 64
         /\ Starts(<<"symmetric">>, <<KeyCipher(k)>>, KeyCipher(k))
         /\ KeyCipher(k) \in Octets /\ Length(KeyCipher(k)) <= 6
         /\ Starts(<<"scheme">>, <<KeyScheme(k)>>, KeyScheme(k))
         /\ KeyScheme(k) \in Octets /\ Length(KeyScheme(k)) <= 4
  <1>1. KeyBits(k) \in SUBSET (0..31)
    BY DEF KeyBits, akObjectAttributes, storageObjectAttributes, ekObjectAttributes, Primary,
           objFixedTPM, objFixedParent, objSensitiveDataOrigin, objUserWithAuth,
           objAdminWithPolicy, objRestricted, objDecrypt, objSign
  <1>2. IsBuffer(KeyPolicy(k)) /\ Length(KeyPolicy(k)) <= 64
    <2>1. IsBuffer(ekAuthPolicy) /\ Length(ekAuthPolicy) <= 64
      BY PolicyDigests, Digests
    <2>2. IsBuffer(<<>>) /\ Length(<<>>) <= 64
      BY BufferParameters, Lengths
    <2> QED
      BY <2>1, <2>2 DEF KeyPolicy
  <1>3. PICK s, c, n : s = CipherAES /\ c = SchemeECDSA /\ n = algNull
    OBVIOUS
  <1>4. /\ Starts(<<"symmetric">>, <<s>>, s) /\ s \in Octets /\ Length(s) = 6
        /\ Starts(<<"scheme">>, <<c>>, c) /\ c \in Octets /\ Length(c) = 4
        /\ Starts(<<"symmetric">>, <<n>>, n) /\ Starts(<<"scheme">>, <<n>>, n)
        /\ n \in Octets /\ Length(n) = 2
    BY <1>3, KeyAlgorithms, Zenon
  <1>5. KeyCipher(k) = (IF k = "ak" THEN n ELSE s) /\ KeyScheme(k) = IF k = "ak" THEN c ELSE n
    BY <1>3, Zenon DEF KeyCipher, KeyScheme
  <1>6. CASE k = "ak"
    BY <1>1, <1>2, <1>4, <1>5, <1>6
  <1>7. CASE k # "ak"
    BY <1>1, <1>2, <1>4, <1>5, <1>7
  <1> QED
    BY <1>6, <1>7

\* What the device reads of them.
LEMMA KeyAreas ==
  ASSUME Hashes, NEW k \in Keys, NEW x, IsBuffer(x), Length(x) <= 2,
         NEW y, IsBuffer(y), Length(y) <= 2
  PROVE  /\ IsKeyArea(Public(AreaOf(k, x, y)), AreaOf(k, x, y), KeyBits(k), KeyPolicy(k),
                      KeyCipher(k), KeyScheme(k), y)
         /\ IsBuffer(AreaOf(k, x, y))
  <1>1. PICK b, p, s, c, a : /\ b = KeyBits(k) /\ p = KeyPolicy(k) /\ s = KeyCipher(k)
                             /\ c = KeyScheme(k) /\ a = KeyArea(b, p, s, c, x, y)
    OBVIOUS
  <1>2. /\ b \in SUBSET (0..31) /\ IsBuffer(p) /\ Length(p) <= 64
        /\ Starts(<<"symmetric">>, <<s>>, s) /\ s \in Octets /\ Length(s) <= 6
        /\ Starts(<<"scheme">>, <<c>>, c) /\ c \in Octets /\ Length(c) <= 4
    BY <1>1, KeyParts, Zenon
  <1>3. IsKeyArea(Public(a), a, b, p, s, c, y)
    <2>1. KeyAreaParts(a, b, p, s, c, x, y)
      BY <1>1, <1>2, Zenon DEF KeyAreaParts
    <2> QED
      BY <2>1, PublicKey
  <1>4. IsBuffer(a)
    <2>1. SmallKey(b, p, s, c, x, y)
      BY <1>2, Zenon DEF SmallKey
    <2>2. IsBuffer(KeyArea(b, p, s, c, x, y))
      BY <2>1, KeyAreaLength
    <2> QED
      BY <1>1, <2>2, Zenon
  <1>7. AreaOf(k, x, y) = a
    BY <1>1, Zenon DEF AreaOf
  <1> QED
    BY <1>1, <1>3, <1>4, <1>7, Zenon

\* The templates are of the form that the device creates, each in its place.
LEMMA KeyRules ==
  ASSUME NEW k \in Keys, NEW p, NEW octets, NEW y,
         IsKeyArea(p, octets, KeyBits(k), KeyPolicy(k), KeyCipher(k), KeyScheme(k), y)
  PROVE  /\ Creatable(p, <<>>) /\ Slot(p) = k
         /\ k = "srk" => {objRestricted, objDecrypt} \subseteq p.bits
         /\ k = "ak" => objAdminWithPolicy \notin p.bits /\ objUserWithAuth \in p.bits
         /\ k = "srk" => objUserWithAuth \in p.bits
  <1>1. /\ p.sealed = FALSE /\ p.bits = KeyBits(k)
        /\ (p.symmetric <=> KeyCipher(k) # algNull) /\ (p.scheme <=> KeyScheme(k) # algNull)
    BY Zenon DEF IsKeyArea
  <1>2. /\ CipherAES # algNull /\ SchemeECDSA # algNull
    BY KeyAlgorithms, Zenon
  <1>3. (p.symmetric <=> k # "ak") /\ (p.scheme <=> k = "ak")
    BY <1>1, <1>2 DEF KeyCipher, KeyScheme
  <1>4. /\ (objFixedTPM \in p.bits /\ objFixedParent \in p.bits)
        /\ objSensitiveDataOrigin \in p.bits
        /\ ({objRestricted, objDecrypt} \subseteq p.bits <=> k # "ak")
        /\ ({objRestricted, objSign} \subseteq p.bits <=> k = "ak")
        /\ (objSign \in p.bits <=> k = "ak") /\ (objAdminWithPolicy \in p.bits <=> k = "ek")
        /\ (objUserWithAuth \in p.bits <=> k # "ek")
    BY <1>1 DEF Keys, KeyBits, akObjectAttributes, storageObjectAttributes, ekObjectAttributes,
           Primary, objFixedTPM, objFixedParent, objSensitiveDataOrigin, objUserWithAuth,
           objAdminWithPolicy, objRestricted, objDecrypt, objSign
  <1>5. Creatable(p, <<>>)
    BY <1>1, <1>3, <1>4 DEF Creatable
  <1>6. Slot(p) = k
    BY <1>4 DEF Slot, Keys
  <1> QED
    BY <1>4, <1>5, <1>6

\* A string without its end.
LEMMA WithoutEnd ==
  ASSUME NEW h \in Octets, NEW e \in Octets, Length(e) = 4
  PROVE  SubSeq(h \o e, 1, Len(h \o e) - 4) = h
  <1>1. /\ Length(h \o e) = Length(h) + Length(e) /\ Length(h) \in Nat
        /\ Slice(h \o e, 1, Length(h)) = h
    BY Beginning, Ending, Zenon
  <1>2. PICK n : n = Length(h \o e) - 4
    OBVIOUS
  <1>3. n = Length(h)
    BY <1>1, <1>2
  <1>4. SubSeq(h \o e, 1, n) = h
    BY <1>1, <1>3, Zenon DEF Slice
  <1>5. n = Len(h \o e) - 4
    BY <1>2, Zenon DEF Length
  <1> QED
    BY <1>4, <1>5, Zenon

\* The keys of the device, as it keeps them once they are created.
KeyPublic(k) ==
  AreaOf(k, PutU16(PointX(Numbers[k])), PutU16(PointY(Numbers[k])))
KeyObject(k) == [public |-> Public(KeyPublic(k)), data |-> <<>>]

\* The device puts the point of its key where the template has none.
LEMMA GeneratedKey ==
  ASSUME Hashes, NEW k \in Keys, NEW p, p.octets = AreaOf(k, <<>>, <<>>), Slot(p) = k
  PROVE  Generated(p) = KeyPublic(k)
  <1>1. PICK b, pol, s, c, h : /\ b = KeyBits(k) /\ pol = KeyPolicy(k) /\ s = KeyCipher(k)
                               /\ c = KeyScheme(k)
                               /\ h = HeadOf(AlgECC, b, pol) \o (s \o c \o NistP256 \o algNull)
    OBVIOUS
  <1>2. PICK n, e : n = <<>> /\ e = ECCPoint(n, n)
    OBVIOUS
  <1>3. h \in Octets /\ e \in Octets /\ Length(e) = 4
    <2>1. IsBuffer(n) /\ Length(n) = 0 /\ Length(n) <= 2
      BY <1>2, BufferParameters, Lengths
    <2>2. /\ IsBuffer(pol) /\ Length(pol) <= 64 /\ s \in Octets /\ Length(s) <= 6
          /\ c \in Octets /\ Length(c) <= 4
      BY <1>1, KeyParts, Zenon
    <2>3. SmallKey(b, pol, s, c, n, n)
      BY <2>1, <2>2, Zenon DEF SmallKey
    <2>4. /\ HeadOf(AlgECC, b, pol) \o (s \o c \o NistP256 \o algNull) \in Octets
          /\ ECCPoint(n, n) \in Octets /\ Length(ECCPoint(n, n)) = 4 + Length(n) + Length(n)
      BY <2>3, KeyAreaLength
    <2>5. h \in Octets /\ e \in Octets /\ Length(e) = 4 + Length(n) + Length(n)
      BY <1>1, <1>2, <2>4, Zenon
    <2> QED
      BY <2>1, <2>5
  <1>4. AreaOf(k, n, n) = h \o e
    BY <1>1, <1>2, Zenon DEF AreaOf, KeyArea
  <1>5. SubSeq(p.octets, 1, Len(p.octets) - 4) = h
    <2>1. p.octets = h \o e
      BY <1>2, <1>4, Zenon
    <2>2. SubSeq(h \o e, 1, Len(h \o e) - 4) = h
      BY <1>3, WithoutEnd, Zenon
    <2> QED
      BY <2>1, <2>2, Zenon
  <1>6. PICK x, y : x = PutU16(PointX(Numbers[k])) /\ y = PutU16(PointY(Numbers[k]))
    OBVIOUS
  <1>7. AreaOf(k, x, y) = h \o ECCPoint(x, y)
    BY <1>1, Zenon DEF AreaOf, KeyArea
  <1>8. Generated(p) = h \o ECCPoint(x, y)
    BY <1>5, <1>6, Zenon DEF Generated
  <1> QED
    BY <1>6, <1>7, <1>8, Zenon DEF KeyPublic

\* What the device reads of the keys it keeps.
LEMMA KeyObjects ==
  ASSUME Hashes, NEW k \in Keys
  PROVE  \E y : IsKeyArea(KeyObject(k).public, KeyPublic(k), KeyBits(k), KeyPolicy(k),
                          KeyCipher(k), KeyScheme(k), y)
  <1>1. Numbers[k] \in Nat
    BY CommandsAssumption DEF Keys
  <1>2. PICK x, y : x = PutU16(PointX(Numbers[k])) /\ y = PutU16(PointY(Numbers[k]))
    OBVIOUS
  <1>3. IsBuffer(x) /\ Length(x) = 2 /\ IsBuffer(y) /\ Length(y) = 2
    BY <1>1, <1>2, PointsOfKeys, Coordinates, Zenon
  <1>4. Length(x) <= 2 /\ Length(y) <= 2
    BY <1>3
  <1>5. IsKeyArea(Public(AreaOf(k, x, y)), AreaOf(k, x, y), KeyBits(k), KeyPolicy(k),
                  KeyCipher(k), KeyScheme(k), y)
    BY <1>3, <1>4, KeyAreas, Zenon
  <1>6. KeyObject(k).public = Public(KeyPublic(k)) /\ KeyPublic(k) = AreaOf(k, x, y)
    BY <1>2 DEF KeyObject, KeyPublic
  <1> QED
    BY <1>5, <1>6, Zenon

-----------------------------------------------------------------------------
(* The cipher, the keys derived for it, and wraps.                         *)

\* A sealed object that the program keeps: its parts, made of its secret.
SealedBits == {sealObjectAttributes, importSealAttributes}
SealedPolicy == PolicyPCRDigest(Selection, PCRValues)
SealedArea(bits, secret) == SealPublic(bits, SealedPolicy, Hash(Obfuscation \o secret))
SealedBlob(bits, secret) ==
  [priv |-> Private(marshalSealSensitive(Obfuscation, secret), SealedArea(bits, secret)),
   pub |-> SealedArea(bits, secret), secret |-> secret]
IsSealedBlob(b) == \E bits \in SealedBits, secret \in Secrets : b = SealedBlob(bits, secret)

\* The object that it is once it is loaded.
ItemObject(i) == [public |-> Public(i.pub), data |-> i.secret]

\* What the session satisfies, by what the program knows of it.
Openings == {"nothing", "no policy", "PCR", "secret"}
SessionOf(o) == IF o = "nothing" THEN None
                ELSE IF o = "no policy" THEN NoPolicy
                ELSE IF o = "PCR" THEN SealedPolicy ELSE ekAuthPolicy

\* The device has the keys, the object and the session that the program believes
\* it has.
World(objs, sess, b, i, o) ==
  /\ objs = [k \in DOMAIN Handle |-> objs[k]]
  /\ \A k \in Keys : objs[k] \in {None, KeyObject(k)}
  /\ objs.item = (IF i = None THEN None ELSE ItemObject(i))
  /\ o \in Openings /\ sess = SessionOf(o)
  /\ b = None \/ IsSealedBlob(b)
  /\ i \in {None, b}

\* What the program will keep of an answer.
KeptBlob(x, out) ==
  CASE x.command.cc = "Create" -> [priv |-> out.priv, pub |-> out.pub, secret |-> x.about]
    [] x.command.cc = "Import" -> [priv |-> out, pub |-> x.about.pub,
                                   secret |-> x.about.secret]
    [] OTHER -> blob
KeptItem(x) == IF x.command.cc = "Load" THEN x.about ELSE item
KeptOpened(x) ==
  CASE x.command.cc \in {"StartAuthSession", "PolicyPCR", "PolicySecret"} -> x.about
    [] x.command.cc \in {"Unseal", "ActivateCredential"} -> "no policy"
    [] OTHER -> opened

\* An answer that the program can count on: the output and the effect of a
\* request that is acceptable, and a refusal of any other, which changes nothing.
Outputs == Octets \cup [priv : Octets, pub : Octets] \cup {None}
Succeeds(x, out, objs, sess) ==
  /\ Acceptable(x)
  /\ x.command.cc \in {"Unseal", "ActivateCredential", "PolicyGetDigest"} => out = x.about
  /\ World(objs, sess, KeptBlob(x, out), KeptItem(x), KeptOpened(x))
Fails(x, objs, sess) == ~Acceptable(x) /\ World(objs, sess, blob, item, opened)
Answered(x, rc, out, objs, sess) ==
  \/ rc = "success" /\ Succeeds(x, out, objs, sess)
  \/ rc = "refused" /\ Fails(x, objs, sess)

\* The device does with a request what the program counts on.
Accepts(cc, r) == r # None /\ Authorized(cc, r) /\ Valid(cc, r)
Served(x, cc, r) ==
  IF Accepts(cc, r)
  THEN /\ Answered(x, "success", Output(cc, r), ObjectsAfter(cc, r), SessionAfter(cc, r))
       /\ Output(cc, r) \in Outputs
  ELSE Answered(x, "refused", None, objects, session)

\* The device reads of a request what it is to say.
Matches(x) ==
  Readable(x) =>
    LET r == Reading(x.command)
        m == x.meant
    IN /\ r # None
       /\ r.handles = m.handles /\ r.auths = m.auths
       /\ Len(r.params) = Len(m.params)
       /\ \A i \in DOMAIN m.params : m.params[i] \in {None, r.params[i]}

\* The inductive invariant.
Consistent ==
  /\ request = None => reply = None
  /\ reply = None => World(objects, session, blob, item, opened)
  /\ request # None => Matches(request)
  /\ (request # None /\ reply = None) =>
       Served(request, request.command.cc, Reading(request.command))
  /\ reply # None => Answered(request, reply.rc, reply.out, objects, session)

\* Nothing that the device does with a request depends on more than its own
\* objects and its session.
LEMMA ObjectStays ==
  ASSUME UNCHANGED objects, NEW handle
  PROVE  Object(handle)' = Object(handle)
  BY SMTT(20) DEF Object

\* What an object permits stays while the session does.
LEMMA PermitsStays ==
  ASSUME UNCHANGED session, NEW p, NEW role, NEW auth
  PROVE  Permits(p, role, auth)' <=> Permits(p, role, auth)
  BY Zenon DEF Permits

\* What is authorized stays.
LEMMA AuthorizedStays ==
  ASSUME UNCHANGED <<objects, session>>, NEW cc, NEW r
  PROVE  Authorized(cc, r)' <=> Authorized(cc, r)
  BY ZenonT(40) DEF Authorized, Object, Permits

\* What is valid stays.
LEMMA ValidStays ==
  ASSUME UNCHANGED <<objects, session>>, NEW cc, NEW r
  PROVE  Valid(cc, r)' <=> Valid(cc, r)
  BY Zenon DEF Valid, Object, IsParent, CertInfo

\* What is answered stays.
LEMMA OutputStays ==
  ASSUME UNCHANGED <<objects, session>>, NEW cc, NEW r
  PROVE  Output(cc, r)' = Output(cc, r)
  BY DEF Output, Object, CertInfo

\* What is done stays.
LEMMA EffectsStay ==
  ASSUME UNCHANGED <<objects, session>>, NEW cc, NEW r
  PROVE  /\ ObjectsAfter(cc, r)' = ObjectsAfter(cc, r)
         /\ SessionAfter(cc, r)' = SessionAfter(cc, r)
  BY Zenon DEF ObjectsAfter, SessionAfter

\* What the program will keep stays while it keeps what it has.
LEMMA KeptStays ==
  ASSUME UNCHANGED <<blob, item, opened>>, NEW x, NEW out
  PROVE  /\ KeptBlob(x, out)' = KeptBlob(x, out)
         /\ KeptItem(x)' = KeptItem(x) /\ KeptOpened(x)' = KeptOpened(x)
  BY Zenon DEF KeptBlob, KeptItem, KeptOpened

\* An answer that can be counted on stays one.
LEMMA AnsweredStays ==
  ASSUME UNCHANGED <<blob, item, opened>>,
         NEW x, NEW rc, NEW out, NEW objs, NEW sess, Answered(x, rc, out, objs, sess)
  PROVE  Answered(x, rc, out, objs, sess)'
  <1>1. Acceptable(x)' <=> Acceptable(x)
    BY Zenon DEF Acceptable, Readable
  <1> QED
    BY <1>1, KeptStays, Zenon DEF Answered, Succeeds, Fails, World

\* What the device will do with a request stays so until it does it.
LEMMA ServedStays ==
  ASSUME UNCHANGED <<objects, session>>, UNCHANGED <<blob, item, opened>>,
         NEW x, NEW cc, NEW r, Served(x, cc, r)
  PROVE  Served(x, cc, r)'
  <1>1. PICK out, objs, sess, held, satisfied :
          /\ out = Output(cc, r) /\ objs = ObjectsAfter(cc, r) /\ sess = SessionAfter(cc, r)
          /\ held = objects /\ satisfied = session
    OBVIOUS
  <1>2. /\ Output(cc, r)' = out /\ ObjectsAfter(cc, r)' = objs /\ SessionAfter(cc, r)' = sess
        /\ objects' = held /\ session' = satisfied
    BY <1>1, OutputStays, EffectsStay, Zenon
  <1>3. Accepts(cc, r)' <=> Accepts(cc, r)
    BY AuthorizedStays, ValidStays, Zenon DEF Accepts
  <1>4. CASE Accepts(cc, r)
    <2>1. Answered(x, "success", out, objs, sess) /\ out \in Outputs
      BY <1>1, <1>4, Zenon DEF Served
    <2>2. Answered(x, "success", out, objs, sess)'
      BY <2>1, AnsweredStays, Zenon
    <2> QED
      BY <1>2, <1>3, <1>4, <2>1, <2>2, Zenon DEF Served
  <1>5. CASE ~Accepts(cc, r)
    <2>1. Answered(x, "refused", None, held, satisfied)
      BY <1>1, <1>5, Zenon DEF Served
    <2>2. Answered(x, "refused", None, held, satisfied)'
      BY <2>1, AnsweredStays, Zenon
    <2> QED
      BY <1>2, <1>3, <1>5, <2>2, Zenon DEF Served
  <1> QED
    BY <1>4, <1>5, Zenon

\* The request of a step is read as it is meant, and served.
LEMMA Sends ==
  ASSUME Consistent, NEW command, NEW meant, NEW about, Send(command, meant, about),
         NEW x, x = [command |-> command, meant |-> meant, about |-> about],
         Matches(x), Served(x, x.command.cc, Reading(x.command))
  PROVE  Consistent'
  <1>1. /\ request = None /\ request' = x /\ UNCHANGED <<objects, session>>
        /\ UNCHANGED <<blob, item, opened>> /\ reply' = reply
    BY Zenon DEF Send, device, program
  <1>2. reply = None /\ World(objects, session, blob, item, opened)
    BY <1>1, Zenon DEF Consistent
  <1>3. PICK cc, r : cc = x.command.cc /\ r = Reading(x.command)
    OBVIOUS
  <1>4. Served(x, cc, r)'
    BY <1>1, <1>3, ServedStays, Zenon
  <1>5. World(objects', session', blob', item', opened')
    BY <1>1, <1>2, Zenon
  <1>6. reply' = None
    BY <1>1, <1>2, Zenon
  <1>7. Served(request, request.command.cc, Reading(request.command))'
    BY <1>1, <1>3, <1>4, Zenon DEF Served, Accepts
  <1> QED
    BY <1>1, <1>5, <1>6, <1>7, Zenon DEF Consistent, Matches

\* The device does what the program counts on.
LEMMA Serves ==
  ASSUME Consistent, Device
  PROVE  Consistent'
  <1>1. /\ request # None /\ reply = None /\ request' = request
        /\ UNCHANGED <<blob, item, opened>>
    BY Zenon DEF Device, program
  <1>2. PICK x, cc, r : x = request /\ cc = request.command.cc /\ r = Reading(request.command)
    OBVIOUS
  <1>3. Matches(x) /\ Served(x, cc, r)
    BY <1>1, <1>2, Zenon DEF Consistent
  <1>4. PICK rc, out, objs, sess :
          /\ rc \in {"success", "refused"} /\ out \in Outputs
          /\ reply' = [rc |-> rc, out |-> out] /\ objects' = objs /\ session' = sess
          /\ Answered(x, rc, out, objs, sess)
    <2>1. CASE Accepts(cc, r)
      BY <1>2, <1>3, <2>1, Zenon DEF Device, Accepts, Served
    <2>2. CASE ~Accepts(cc, r)
      BY <1>2, <1>3, <2>2, Zenon DEF Device, device, Accepts, Served, Outputs
    <2> QED
      BY <2>1, <2>2, Zenon
  <1>5. Answered(x, rc, out, objs, sess)'
    BY <1>1, <1>4, AnsweredStays, Zenon
  <1>6. reply'.rc = rc /\ reply'.out = out
    BY <1>4, Zenon
  <1>7. reply' # None
    <2>1. [rc |-> rc, out |-> out] \in Answers
      BY <1>4, Zenon DEF Answers, Outputs
    <2> QED
      BY <1>4, <2>1, AnswersAssumption, Zenon
  <1>8. Matches(request)' /\ request' # None
    BY <1>1, <1>2, <1>3, Zenon DEF Matches
  <1>9. Answered(request, reply.rc, reply.out, objects, session)'
    BY <1>1, <1>2, <1>4, <1>5, <1>6, Zenon DEF Answered
  <1> QED
    BY <1>7, <1>8, <1>9, Zenon DEF Consistent

\* The program keeps what the answer is counted on to be.
LEMMA Returns ==
  ASSUME Consistent, Return
  PROVE  Consistent'
  <1>1. /\ reply # None /\ request' = None /\ reply' = None
        /\ objects' = objects /\ session' = session
    BY Zenon DEF Return, device
  <1>2. Answered(request, reply.rc, reply.out, objects, session)
    BY <1>1, Zenon DEF Consistent
  <1>3. World(objects', session', blob', item', opened')
    <2>1. CASE reply.rc = "refused"
      <3>1. blob' = blob /\ item' = item /\ opened' = opened
        BY <2>1, Zenon DEF Return, program
      <3>2. World(objects, session, blob, item, opened)
        BY <1>2, <2>1 DEF Answered, Fails
      <3> QED
        BY <1>1, <3>1, <3>2, Zenon
    <2>2. CASE reply.rc = "success"
      <3>1. reply.rc # "refused"
        BY <2>2
      <3>2. /\ blob' = KeptBlob(request, reply.out)
            /\ item' = KeptItem(request) /\ opened' = KeptOpened(request)
        BY <3>1, Zenon DEF Return, KeptBlob, KeptItem, KeptOpened
      <3>3. World(objects, session, KeptBlob(request, reply.out), KeptItem(request),
                  KeptOpened(request))
        BY <1>2, <2>2 DEF Answered, Succeeds
      <3> QED
        BY <1>1, <3>2, <3>3, Zenon
    <2> QED
      BY <1>2, <2>1, <2>2, Zenon DEF Answered
  <1> QED
    BY <1>1, <1>3, Zenon DEF Consistent

\* The handles, apart.
ReservedHandles == {RHOwner, RHEndorsement, NVIndex, PutU32(16)}

\* Every object has its handle, and a reserved handle is no object's.
LEMMA HandleFacts ==
  /\ \A k \in DOMAIN Handle : Object(Handle[k]) = objects[k]
  /\ \A h \in ReservedHandles : Object(h) = None /\ Head(h) # 128
  /\ TPM_RS_PW # SessionHandle /\ rhNull # SessionHandle
  /\ DOMAIN Handle = {"ak", "srk", "ek", "item"}
  <1>1. DOMAIN Handle = {"ak", "srk", "ek", "item"}
    BY DEF Handle
  <1>2. \A k, j \in DOMAIN Handle : Handle[k] = Handle[j] => k = j
    BY DEF Handle
  <1>3. ASSUME NEW k \in DOMAIN Handle
        PROVE  Object(Handle[k]) = objects[k]
    <2>1. PICK at : at = {j \in DOMAIN Handle : Handle[j] = Handle[k]}
      OBVIOUS
    <2>2. at = {k}
      <3>1. k \in at
        BY <1>3, <2>1, Zenon
      <3>2. \A j \in at : j = k
        BY <1>2, <1>3, <2>1, Zenon
      <3> QED
        BY <3>1, <3>2, Zenon
    <2>3. (CHOOSE j \in at : TRUE) = k /\ at # {}
      <3>1. \E j : j \in at
        BY <2>2, Zenon
      <3>2. (CHOOSE j \in at : TRUE) \in at
        BY <3>1, Zenon
      <3>3. PICK c : c = (CHOOSE j \in at : TRUE)
        OBVIOUS
      <3>4. c \in at
        BY <3>2, <3>3, Zenon
      <3>5. c = k
        BY <2>2, <3>4, Zenon
      <3> QED
        BY <3>1, <3>3, <3>5, Zenon
    <2>4. Object(Handle[k]) = (IF at = {} THEN None ELSE objects[CHOOSE j \in at : TRUE])
      BY <2>1 DEF Object
    <2> QED
      BY <2>3, <2>4
  <1>4. ASSUME NEW h \in ReservedHandles
        PROVE  Object(h) = None /\ Head(h) # 128
    <2>1. h \in {<<64, 0, 0, 1>>, <<64, 0, 0, 11>>, <<1, 80, 0, 1>>, <<0, 0, 0, 16>>}
      BY DEF ReservedHandles, RHOwner, RHEndorsement, NVIndex, PutU32, PutU16
    <2>2. Head(h) # 128
      BY <2>1
    <2>3. \A k \in DOMAIN Handle : Handle[k][1] = 128
      BY DEF Handle
    <2>4. h[1] # 128
      BY <2>1
    <2>5. \A k \in DOMAIN Handle : Handle[k] # h
      <3>1. SUFFICES ASSUME NEW k \in DOMAIN Handle, Handle[k] = h
                     PROVE  FALSE
        BY Zenon
      <3>2. Handle[k][1] = h[1]
        BY <3>1, Zenon
      <3> QED
        BY <2>3, <2>4, <3>2
    <2>6. {k \in DOMAIN Handle : Handle[k] = h} = {}
      BY <2>5, Zenon
    <2> QED
      BY <2>2, <2>6, Zenon DEF Object
  <1>5. TPM_RS_PW # SessionHandle /\ rhNull # SessionHandle
    BY DEF TPM_RS_PW, SessionHandle, rhNull
  <1> QED
    BY <1>1, <1>3, <1>4, <1>5, Zenon

\* There is no object under a reserved handle.
LEMMA ReservedFacts == \A h \in ReservedHandles : Object(h) = None /\ Head(h) # 128
  BY HandleFacts, Zenon

\* The objects under their handles.
LEMMA ObjectsOfHandles ==
  /\ Object(Handle.ak) = objects.ak /\ Object(Handle.srk) = objects.srk
  /\ Object(Handle.ek) = objects.ek /\ Object(Handle.item) = objects.item
  <1>1. /\ "ak" \in DOMAIN Handle /\ "srk" \in DOMAIN Handle
        /\ "ek" \in DOMAIN Handle /\ "item" \in DOMAIN Handle
    BY HandleFacts
  <1> QED
    BY <1>1, HandleFacts, Zenon

\* Most commands are acceptable whatever they say.
Conditional == {"PCR_Extend", "Create", "ActivateCredential"}
LEMMA Unconditional ==
  ASSUME NEW x, x.command.cc \notin Conditional
  PROVE  Acceptable(x)
  BY Zenon DEF Conditional, Acceptable, Readable

\* Commands that change nothing that the device keeps, and give nothing that
\* the program keeps.
QuietCommands ==
  {"Startup", "Shutdown", "SelfTest", "GetRandom", "GetCapability", "PCR_Read", "PCR_Extend",
   "Quote", "NV_DefineSpace", "NV_UndefineSpace", "NV_Write", "NV_Read", "NV_ReadPublic"}

\* Commands whose answer the program does not look into.
LEMMA Quiet ==
  ASSUME World(objects, session, blob, item, opened),
         NEW x, x.command.cc \in QuietCommands,
         Readable(x), NEW r, \A i \in DOMAIN r.auths : r.auths[i] # SessionHandle,
         Accepts(x.command.cc, r)
  PROVE  Served(x, x.command.cc, r)
  <1>1. PICK cc : cc = x.command.cc
    OBVIOUS
  <1>2. cc \in QuietCommands
    BY <1>1, Zenon
  <1>3. /\ KeptBlob(x, <<>>) = blob /\ KeptItem(x) = item /\ KeptOpened(x) = opened
    BY <1>1, <1>2 DEF QuietCommands, KeptBlob, KeptItem, KeptOpened
  <1>4. ObjectsAfter(cc, r) = objects /\ Output(cc, r) = <<>>
    BY <1>2 DEF QuietCommands, ObjectsAfter, Output
  <1>5. SessionAfter(cc, r) = session
    BY <1>2 DEF QuietCommands, SessionAfter
  <1>6. <<>> \in Outputs
    BY DEF Outputs, Octets
  <1>7. cc \notin {"Unseal", "ActivateCredential", "PolicyGetDigest", "Create"}
    BY <1>2 DEF QuietCommands
  <1>8. Acceptable(x)
    BY <1>1, <1>7, Zenon DEF Acceptable
  <1> QED
    BY <1>1, <1>3, <1>4, <1>5, <1>6, <1>7, <1>8, Zenon DEF Served, Answered, Succeeds

\* A request that the device reads as it is meant, and does what it is for.
Fits(x) == Matches(x) /\ Served(x, x.command.cc, Reading(x.command))
Request(command, meant, about) == [command |-> command, meant |-> meant, about |-> about]
Here == World(objects, session, blob, item, opened)

\* A request that is not acceptable fits when the device refuses it.
LEMMA RefusedFits ==
  ASSUME Here, NEW x, Matches(x), ~Acceptable(x),
         ~Accepts(x.command.cc, Reading(x.command))
  PROVE  Fits(x)
  <1>1. Answered(x, "refused", None, objects, session)
    BY Zenon DEF Answered, Fails, Here
  <1> QED
    BY <1>1, Zenon DEF Served, Fits

\* What a command says, in its parts, which is not None.
IsSaid(r, hs, as, ps) ==
  r # None /\ r.handles = hs /\ r.auths = as /\ r.params = ps

\* What a command says has its parts.
LEMMA SaysSomething ==
  ASSUME NEW hs \in Seq(Octets), NEW as \in Seq(Octets), NEW ps \in Seq(Octets)
  PROVE  IsSaid(Says(hs, as, ps), hs, as, ps)
  <1>1. Says(hs, as, ps) \in Readings
    BY Zenon DEF Says, Readings
  <1> QED
    BY <1>1, AnswersAssumption, Zenon DEF Says, IsSaid

\* A command is read as it is meant when it says just what it is to say.
LEMMA MatchesSaid ==
  ASSUME NEW x, Reading(x.command) = x.meant, x.meant # None
  PROVE  Matches(x)
  <1>1. PICK r, m : r = Reading(x.command) /\ m = x.meant
    OBVIOUS
  <1>2. r # None /\ r = m /\ \A i \in DOMAIN m.params : m.params[i] \in {None, r.params[i]}
    BY <1>1, Zenon
  <1> QED
    BY <1>1, <1>2, Zenon DEF Matches

\* Authorizations: none, and an empty password for what is no object.
LEMMA Authorizations ==
  ASSUME NEW cc, NEW r
  PROVE  /\ r.auths = <<>> => Authorized(cc, r)
         /\ r.auths = PW /\ r.handles[1] \in ReservedHandles => Authorized(cc, r)
         /\ r.auths = PW => \A i \in DOMAIN r.auths : r.auths[i] # SessionHandle
         /\ r.auths = <<>> => \A i \in DOMAIN r.auths : r.auths[i] # SessionHandle
  <1>1. PICK t, p : t = TPM_RS_PW /\ p = PW
    OBVIOUS
  <1>2. DOMAIN p = {1} /\ p[1] = t
    BY <1>1 DEF PW
  <1>3. DOMAIN <<>> = {}
    OBVIOUS
  <1>4. ASSUME r.auths = PW, r.handles[1] \in ReservedHandles
        PROVE  Authorized(cc, r)
    <2>1. DOMAIN r.auths = {1} /\ r.auths[1] = TPM_RS_PW
      <3>1. r.auths = p
        BY <1>1, <1>4, Zenon
      <3> QED
        BY <1>1, <1>2, <3>1, Zenon
    <2>2. Object(r.handles[1]) = None
      BY <1>4, ReservedFacts, Zenon
    <2>3. Head(r.handles[1]) # 128
      <3>1. r.handles[1] \in ReservedHandles
        BY <1>4, Zenon
      <3> QED
        BY <3>1, ReservedFacts, ZenonT(40)
    <2> QED
      BY <2>1, <2>2, <2>3, ZenonT(40) DEF Authorized
  <1>5. r.auths = <<>> => Authorized(cc, r)
    BY <1>3, ZenonT(40) DEF Authorized
  <1>6. r.auths = PW => \A i \in DOMAIN r.auths : r.auths[i] # SessionHandle
    BY <1>1, <1>2, HandleFacts, Zenon
  <1>7. r.auths = <<>> => \A i \in DOMAIN r.auths : r.auths[i] # SessionHandle
    BY <1>3, Zenon
  <1> QED
    BY <1>4, <1>5, <1>6, <1>7, Zenon

\* The rules of most quiet commands are those of their form.
LEMMA QuietRules ==
  ASSUME NEW cc \in QuietCommands, cc # "Quote", NEW r
  PROVE  Valid(cc, r)
  BY DEF QuietCommands, Valid

\* Quiet commands without an authorization, and with a password of what is no
\* object.
IsQuiet(x, hs, as, ps) ==
  /\ x.command.cc \in QuietCommands /\ x.command.cc # "Quote"
  /\ Readable(x)
  /\ hs \in Seq(Octets) /\ ps \in Seq(Octets)
  /\ as = <<>> \/ (as = PW /\ hs[1] \in ReservedHandles)
  /\ x.meant = Says(hs, as, ps) /\ Reading(x.command) = Says(hs, as, ps)

\* A quiet command is read as it is meant, and changes nothing.
LEMMA QuietFits ==
  ASSUME Here, NEW x, NEW hs, NEW as, NEW ps, IsQuiet(x, hs, as, ps)
  PROVE  Fits(x)
  <1>1. as \in Seq(Octets)
    <2>1. <<>> \in Seq(Octets)
      OBVIOUS
    <2>2. TPM_RS_PW \in Octets
      BY DEF TPM_RS_PW, Octets, Octet
    <2>3. PW \in Seq(Octets)
      BY <2>2 DEF PW
    <2> QED
      BY <2>1, <2>3, Zenon DEF IsQuiet
  <1>2. PICK r : r = Says(hs, as, ps)
    OBVIOUS
  <1>3. r # None /\ r.handles = hs /\ r.auths = as
    <2>1. hs \in Seq(Octets) /\ ps \in Seq(Octets)
      BY Zenon DEF IsQuiet
    <2>2. IsSaid(Says(hs, as, ps), hs, as, ps)
      BY <1>1, <2>1, SaysSomething, Zenon
    <2> QED
      BY <1>2, <2>2, Zenon DEF IsSaid
  <1>4. Matches(x)
    BY <1>2, <1>3, MatchesSaid, Zenon DEF IsQuiet
  <1>5. /\ Authorized(x.command.cc, r)
        /\ \A i \in DOMAIN r.auths : r.auths[i] # SessionHandle
    BY <1>3, Authorizations, Zenon DEF IsQuiet
  <1>6. Valid(x.command.cc, r)
    BY QuietRules, Zenon DEF IsQuiet
  <1>7. Served(x, x.command.cc, r)
    <2>1. Accepts(x.command.cc, r)
      BY <1>3, <1>5, <1>6, Zenon DEF Accepts
    <2> QED
      BY <1>5, <2>1, Quiet, Zenon DEF IsQuiet, Here
  <1> QED
    BY <1>2, <1>4, <1>7, Zenon DEF Fits, IsQuiet

\* A request that fits is sent, from a state that is consistent to another.
LEMMA SendsFit ==
  ASSUME Consistent, NEW command, NEW meant, NEW about, Send(command, meant, about),
         Fits(Request(command, meant, about))
  PROVE  Consistent'
  <1>1. PICK x : x = Request(command, meant, about)
    OBVIOUS
  <1>2. Matches(x) /\ Served(x, x.command.cc, Reading(x.command))
    BY <1>1, Zenon DEF Fits
  <1> QED
    BY <1>1, <1>2, Sends, Zenon DEF Request

\* Device and program agree when a command is sent.
LEMMA Idle ==
  ASSUME Consistent, NEW command, NEW meant, NEW about, Send(command, meant, about)
  PROVE  Here
  BY Zenon DEF Consistent, Send, Here

\* A quiet command.
Quietly(command, hs, as, ps) ==
  /\ command.cc \in QuietCommands /\ command.cc # "Quote"
  /\ command.cc # "PCR_Extend" \/ Len(ps[1]) = 2 + DigestSize
  /\ hs \in Seq(Octets) /\ ps \in Seq(Octets)
  /\ as = <<>> \/ (as = PW /\ hs[1] \in ReservedHandles)
  /\ Reading(command) = Says(hs, as, ps)

\* A quiet command is sent, from a state that is consistent to another.
LEMMA SendsQuietly ==
  ASSUME Consistent, NEW command, NEW hs, NEW as, NEW ps, NEW about,
         Quietly(command, hs, as, ps), Send(command, Says(hs, as, ps), about)
  PROVE  Consistent'
  <1>1. PICK x : x = Request(command, Says(hs, as, ps), about)
    OBVIOUS
  <1>2. x.command = command /\ x.meant = Says(hs, as, ps) /\ x.meant.params = ps
    BY <1>1, Zenon DEF Request, Says
  <1>3. IsQuiet(x, hs, as, ps)
    BY <1>2, Zenon DEF IsQuiet, Quietly, Readable
  <1>4. Here
    BY Idle, Zenon
  <1>5. Fits(x)
    BY <1>3, <1>4, QuietFits, Zenon
  <1> QED
    BY <1>1, <1>5, SendsFit, Zenon

\* Commands that need no object and no session.
LEMMA HousekeepingStep ==
  ASSUME Consistent, Housekeeping
  PROVE  Consistent'
  <1>1. \A n \in Nat : PutU16(n) \in Octets /\ PutU32(n) \in Octets
    BY U16s, U32s, Zenon
  <1>2. \A a, b, c \in Octets : <<a>> \in Seq(Octets) /\ <<a, b, c>> \in Seq(Octets)
    OBVIOUS
  <1>3. <<>> \in Seq(Octets)
    OBVIOUS
  <1>4. ASSUME NEW su \in {0, 1},
               \/ Send(Startup(su), Says(<<>>, <<>>, <<PutU16(su)>>), None)
               \/ Send(Shutdown(su), Says(<<>>, <<>>, <<PutU16(su)>>), None)
        PROVE  Consistent'
    <2>1. su \in Nat
      OBVIOUS
    <2>2. /\ Reading(Startup(su)) = Says(<<>>, <<>>, <<PutU16(su)>>)
          /\ Reading(Shutdown(su)) = Says(<<>>, <<>>, <<PutU16(su)>>)
      BY <2>1, ReadsNumber
    <2>3. <<PutU16(su)>> \in Seq(Octets)
      BY <1>1, <1>2, <2>1, Zenon
    <2>4. Startup(su).cc = "Startup" /\ Shutdown(su).cc = "Shutdown"
      BY Zenon DEF Startup, Shutdown, Plain
    <2>5. Quietly(Startup(su), <<>>, <<>>, <<PutU16(su)>>)
      BY <1>3, <2>2, <2>3, <2>4, Zenon DEF Quietly, QuietCommands
    <2>6. Quietly(Shutdown(su), <<>>, <<>>, <<PutU16(su)>>)
      BY <1>3, <2>2, <2>3, <2>4, Zenon DEF Quietly, QuietCommands
    <2> QED
      BY <1>4, <2>5, <2>6, SendsQuietly, Zenon
  <1>5. ASSUME NEW full \in BOOLEAN,
               Send(SelfTest(full), Says(<<>>, <<>>, <<<<IF full THEN 1 ELSE 0>>>>), None)
        PROVE  Consistent'
    <2>1. PICK o : o = <<yesNo(full)>>
      OBVIOUS
    <2>2. Reading(SelfTest(full)) = Says(<<>>, <<>>, <<o>>)
      BY <2>1, ReadsSelfTest, Zenon
    <2>3. o \in Octets
      BY <2>1 DEF yesNo, Octets, Octet
    <2>4. <<o>> \in Seq(Octets)
      BY <1>2, <2>3, Zenon
    <2>5. Quietly(SelfTest(full), <<>>, <<>>, <<o>>)
      BY <1>3, <2>2, <2>4, Zenon DEF Quietly, QuietCommands, SelfTest, Plain
    <2>6. Send(SelfTest(full), Says(<<>>, <<>>, <<o>>), None)
      BY <1>5, <2>1, Zenon DEF yesNo
    <2> QED
      BY <2>5, <2>6, SendsQuietly, Zenon
  <1>6. ASSUME NEW n \in Nat, Send(GetRandom(n), Says(<<>>, <<>>, <<PutU16(n)>>), None)
        PROVE  Consistent'
    <2>1. Reading(GetRandom(n)) = Says(<<>>, <<>>, <<PutU16(n)>>)
      BY ReadsNumber
    <2>2. <<PutU16(n)>> \in Seq(Octets)
      BY <1>1, <1>2, Zenon
    <2>3. Quietly(GetRandom(n), <<>>, <<>>, <<PutU16(n)>>)
      BY <1>3, <2>1, <2>2, Zenon DEF Quietly, QuietCommands, GetRandom, Plain
    <2> QED
      BY <1>6, <2>3, SendsQuietly, Zenon
  <1>7. ASSUME NEW cap \in Nat, NEW prop \in Nat, NEW count \in Nat,
               Send(GetCapability(cap, prop, count),
                    Says(<<>>, <<>>, <<PutU32(cap), PutU32(prop), PutU32(count)>>), None)
        PROVE  Consistent'
    <2>1. Reading(GetCapability(cap, prop, count))
            = Says(<<>>, <<>>, <<PutU32(cap), PutU32(prop), PutU32(count)>>)
      BY ReadsGetCapability
    <2>2. <<PutU32(cap), PutU32(prop), PutU32(count)>> \in Seq(Octets)
      BY <1>1, <1>2, Zenon
    <2>3. Quietly(GetCapability(cap, prop, count), <<>>, <<>>,
                  <<PutU32(cap), PutU32(prop), PutU32(count)>>)
      BY <1>3, <2>1, <2>2, Zenon DEF Quietly, QuietCommands, GetCapability, Plain
    <2> QED
      BY <1>7, <2>3, SendsQuietly, Zenon
  <1>8. ASSUME NEW sel \in {<<>>, Selection, TwoBanks},
               Send(PCRRead(sel), Says(<<>>, <<>>, <<marshalPCRSelectionList(sel)>>), None)
        PROVE  Consistent'
    <2>1. Reading(PCRRead(sel)) = Says(<<>>, <<>>, <<marshalPCRSelectionList(sel)>>)
      BY ReadsPCRRead
    <2>2. marshalPCRSelectionList(sel) \in Octets
      BY Selections, Zenon
    <2>3. <<marshalPCRSelectionList(sel)>> \in Seq(Octets)
      BY <1>2, <2>2, Zenon
    <2>4. Quietly(PCRRead(sel), <<>>, <<>>, <<marshalPCRSelectionList(sel)>>)
      BY <1>3, <2>1, <2>3, Zenon DEF Quietly, QuietCommands, PCRRead, Plain
    <2> QED
      BY <1>8, <2>4, SendsQuietly, Zenon
  <1>9. CASE \E n \in {0, 300, 65535} : Send(GetRandom(n), Says(<<>>, <<>>, <<PutU16(n)>>), None)
    BY <1>6, <1>9
  <1>10. CASE \E cap \in {0, 6}, count \in {1, 70000} :
                Send(GetCapability(cap, 261, count),
                     Says(<<>>, <<>>, <<PutU32(cap), PutU32(261), PutU32(count)>>), None)
    <2>1. PICK cap \in {0, 6}, count \in {1, 70000} :
            Send(GetCapability(cap, 261, count),
                 Says(<<>>, <<>>, <<PutU32(cap), PutU32(261), PutU32(count)>>), None)
      BY <1>10
    <2>2. PICK prop \in Nat : prop = 261
      OBVIOUS
    <2>3. cap \in Nat /\ count \in Nat
      OBVIOUS
    <2>4. Send(GetCapability(cap, prop, count),
               Says(<<>>, <<>>, <<PutU32(cap), PutU32(prop), PutU32(count)>>), None)
      BY <2>1, <2>2
    <2>5. PICK kind \in Nat, many \in Nat : kind = cap /\ many = count
      BY <2>3
    <2>6. Send(GetCapability(kind, prop, many),
               Says(<<>>, <<>>, <<PutU32(kind), PutU32(prop), PutU32(many)>>), None)
      BY <2>4, <2>5
    <2> QED
      BY <1>7, <2>6
  <1>11. CASE \E su \in {0, 1} :
                \/ Send(Startup(su), Says(<<>>, <<>>, <<PutU16(su)>>), None)
                \/ Send(Shutdown(su), Says(<<>>, <<>>, <<PutU16(su)>>), None)
    BY <1>4, <1>11, Zenon
  <1>12. CASE \E full \in BOOLEAN :
                Send(SelfTest(full), Says(<<>>, <<>>, <<<<IF full THEN 1 ELSE 0>>>>), None)
    BY <1>5, <1>12, Zenon
  <1>13. CASE \E sel \in {<<>>, Selection, TwoBanks} :
                Send(PCRRead(sel), Says(<<>>, <<>>, <<marshalPCRSelectionList(sel)>>), None)
    BY <1>8, <1>13, Zenon
  <1> QED
    BY <1>9, <1>10, <1>11, <1>12, <1>13 DEF Housekeeping

\* Octets that repeat one of them.
LEMMA Repeated ==
  ASSUME NEW n \in Nat, NEW o \in Octet
  PROVE  [i \in 1..n |-> o] \in Octets /\ Length([i \in 1..n |-> o]) = n
  BY DEF Octets, Length

\* A digest for a PCR: one of the length of its algorithm's extends it, and the
\* device refuses every other.
LEMMA ExtendStep ==
  ASSUME Consistent, Extend
  PROVE  Consistent'
  <1>0. PICK n \in {0, DigestSize - 1, DigestSize, DigestSize + 1} :
          LET digest == [i \in 1..n |-> 170]
          IN Send(PCRExtend(16, algSHA256, digest),
                  Says(<<PutU32(16)>>, PW, <<algSHA256 \o digest>>), None)
    BY Zenon DEF Extend
  <1>1. PICK digest :
          /\ digest = [i \in 1..n |-> 170]
          /\ Send(PCRExtend(16, algSHA256, digest),
                  Says(<<PutU32(16)>>, PW, <<algSHA256 \o digest>>), None)
    BY <1>0, Zenon
  <1>2. digest \in Octets /\ Length(digest) \in Nat
    <2>1. n \in Nat
      BY Digests, DigestSizeAssumption
    <2>2. 170 \in Octet
      BY DEF Octet
    <2>3. [i \in 1..n |-> 170] \in Octets
      BY <2>1, <2>2, Repeated
    <2> QED
      BY <1>1, <2>3, Lengths, Zenon
  <1>3. PICK value, h : value = algSHA256 \o digest /\ h = PutU32(16)
    OBVIOUS
  <1>4. value \in Octets /\ Length(value) = 2 + Length(digest)
    <2>1. algSHA256 \in Octets /\ Length(algSHA256) = 2
      BY Algorithms, Zenon
    <2> QED
      BY <1>2, <1>3, <2>1, Longer, Zenon
  <1>5. h \in Octets
    BY <1>3, U32s
  <1>6. <<h>> \in Seq(Octets) /\ <<value>> \in Seq(Octets) /\ <<h>>[1] = h /\ <<value>>[1] = value
    BY <1>4, <1>5
  <1>7. PCRExtend(16, algSHA256, digest).cc = "PCR_Extend"
    BY Zenon DEF PCRExtend, Password
  <1>8. CASE Length(digest) = DigestSize
    <2>1. Reading(PCRExtend(16, algSHA256, digest)) = Says(<<h>>, PW, <<value>>)
      BY <1>2, <1>3, <1>8, ReadsPCRExtend, Zenon
    <2>2. Len(<<value>>[1]) = 2 + DigestSize
      BY <1>4, <1>6, <1>8, Zenon DEF Length
    <2>3. <<h>>[1] \in ReservedHandles
      BY <1>3, <1>6, Zenon DEF ReservedHandles
    <2>4. Quietly(PCRExtend(16, algSHA256, digest), <<h>>, PW, <<value>>)
      BY <1>6, <1>7, <2>1, <2>2, <2>3, Zenon DEF Quietly, QuietCommands
    <2> QED
      BY <1>1, <1>3, <2>4, SendsQuietly, Zenon
  <1>9. CASE Length(digest) # DigestSize
    <2>1. PICK command, meant, x :
            /\ command = PCRExtend(16, algSHA256, digest) /\ meant = Says(<<h>>, PW, <<value>>)
            /\ x = Request(command, meant, None)
      OBVIOUS
    <2>2. Reading(command) = None
      BY <1>2, <1>9, <2>1, ReadsPCRExtend, Zenon
    <2>3. x.command = command /\ x.command.cc = "PCR_Extend" /\ x.meant.params = <<value>>
      BY <1>7, <2>1, Zenon DEF Request, Says
    <2>4. Len(x.meant.params[1]) # 2 + DigestSize
      <3>1. Length(value) # 2 + DigestSize
        BY <1>2, <1>4, <1>9, Digests
      <3> QED
        BY <1>6, <2>3, <3>1, Zenon DEF Length
    <2>5. Matches(x) /\ ~Acceptable(x)
      BY <2>3, <2>4, Zenon DEF Matches, Readable, Acceptable
    <2>6. ~Accepts(x.command.cc, Reading(x.command))
      BY <2>2, <2>3, Zenon DEF Accepts
    <2>7. Here
      BY <1>1, Idle, Zenon
    <2>8. Fits(x)
      BY <2>5, <2>6, <2>7, RefusedFits, Zenon
    <2> QED
      BY <1>1, <1>3, <2>1, <2>8, SendsFit, Zenon
  <1> QED
    BY <1>8, <1>9, Zenon

\* The public area of the NV index, in its octets.
NVArea(policy) ==
  NVIndex \o algSHA256 \o <<0, 6, 0, 6>> \o MarshalTPM2B(policy) \o <<1, 44>>

\* The octets of the attributes of the NV index.
LEMMA NVAttributes == Attributes({1, 2, 17, 18}) = <<0, 6, 0, 6>>
  <1>1. OctetOf({}) = 0
    BY DEF OctetOf
  <1>2. OctetOf({1, 2}) = 6
    BY Powers DEF OctetOf
  <1>3. /\ {k \in 0..7 : 8 * (4 - 1) + k \in {1, 2, 17, 18}} = {}
        /\ {k \in 0..7 : 8 * (4 - 2) + k \in {1, 2, 17, 18}} = {1, 2}
        /\ {k \in 0..7 : 8 * (4 - 3) + k \in {1, 2, 17, 18}} = {}
        /\ {k \in 0..7 : 8 * (4 - 4) + k \in {1, 2, 17, 18}} = {1, 2}
    OBVIOUS
  <1>4. PICK o : o = [i \in 1..4 |-> OctetOf({k \in 0..7 : 8 * (4 - i) + k \in {1, 2, 17, 18}})]
    OBVIOUS
  <1>5. o[1] = 0 /\ o[2] = 6 /\ o[3] = 0 /\ o[4] = 6 /\ DOMAIN o = 1..4
    BY <1>1, <1>2, <1>3, <1>4
  <1>6. o = [i \in 1..4 |-> o[i]]
    BY <1>4
  <1>7. o = <<0, 6, 0, 6>>
    BY <1>5, <1>6
  <1> QED
    BY <1>4, <1>7, Zenon DEF Attributes

\* The public area of the NV index, as it is written and as it is to be read.
LEMMA NVAreas ==
  ASSUME NEW policy, IsBuffer(policy), Length(policy) <= 64, NEW pub,
         pub = [index |-> NVIndex, nameAlg |-> algSHA256,
                attributes |-> Attributes({1, 2, 17, 18}),
                authPolicy |-> policy, dataSize |-> PutU16(300)]
  PROVE  marshalNVPublic(pub) = MarshalTPM2B(NVArea(policy)) /\ IsBuffer(NVArea(policy))
  <1>1. PutU16(300) = <<1, 44>>
    BY DEF PutU16
  <1>2. /\ pub.index = NVIndex /\ pub.nameAlg = algSHA256
        /\ pub.attributes = <<0, 6, 0, 6>> /\ pub.authPolicy = policy
        /\ pub.dataSize = <<1, 44>>
    BY <1>1, NVAttributes, Zenon
  <1>3. marshalNVPublic(pub) = MarshalTPM2B(NVArea(policy))
    BY <1>2, Zenon DEF marshalNVPublic, NVArea
  <1>4. PICK a, b, c, d, e :
          /\ a = NVIndex /\ b = algSHA256 /\ c = <<0, 6, 0, 6>> /\ d = MarshalTPM2B(policy)
          /\ e = <<1, 44>>
    OBVIOUS
  <1>5. /\ a \in Octets /\ Length(a) = 4 /\ b \in Octets /\ Length(b) = 2
        /\ c \in Octets /\ Length(c) = 4 /\ d \in Octets /\ Length(d) = 2 + Length(policy)
        /\ e \in Octets /\ Length(e) = 2
    <2>1. 0 \in Octet /\ 6 \in Octet /\ 1 \in Octet /\ 44 \in Octet
      BY DEF Octet
    <2>2. a \in Octets /\ Length(a) = 4
      BY <1>4, HandlesOf, Zenon
    <2>3. b \in Octets /\ Length(b) = 2
      BY <1>4, Algorithms, Zenon
    <2>4. c \in Octets /\ Length(c) = 4 /\ e \in Octets /\ Length(e) = 2
      <3>1. c \in Octets /\ Length(c) = 4
        <4>1. <<0, 6, 0, 6>> \in Octets /\ Len(<<0, 6, 0, 6>>) = 4
          BY <2>1 DEF Octets
        <4> QED
          BY <1>4, <4>1, Zenon DEF Length
      <3>2. e \in Octets /\ Length(e) = 2
        BY <1>4, <2>1, FewOctets, Zenon
      <3> QED
        BY <3>1, <3>2
    <2>5. d \in Octets /\ Length(d) = 2 + Length(policy)
      BY <1>4, Buffers, Zenon
    <2> QED
      BY <2>2, <2>3, <2>4, <2>5, Zenon
  <1>6. PICK ab, abc, abcd, abcde :
          ab = a \o b /\ abc = ab \o c /\ abcd = abc \o d /\ abcde = abcd \o e
    OBVIOUS
  <1>7. ab \in Octets /\ Length(ab) = Length(a) + Length(b)
    BY <1>5, <1>6, Longer, Zenon
  <1>8. abc \in Octets /\ Length(abc) = Length(ab) + Length(c)
    BY <1>5, <1>6, <1>7, Longer, Zenon
  <1>9. abcd \in Octets /\ Length(abcd) = Length(abc) + Length(d)
    BY <1>5, <1>6, <1>8, Longer, Zenon
  <1>10. abcde \in Octets /\ Length(abcde) = Length(abcd) + Length(e)
    BY <1>5, <1>6, <1>9, Longer, Zenon
  <1>11. Length(policy) \in Nat
    BY Buffers, Zenon
  <1>12. Length(abcde) <= Most
    BY <1>5, <1>7, <1>8, <1>9, <1>10, <1>11, SMT DEF Most
  <1>13. IsBuffer(abcde)
    BY <1>10, <1>12, Buffers, Zenon
  <1>14. abcde = NVArea(policy)
    BY <1>4, <1>6, Zenon DEF NVArea
  <1> QED
    BY <1>3, <1>13, <1>14, Zenon

\* Strings of values.
LEMMA Values1to2 ==
  /\ <<>> \in Seq(Octets)
  /\ \A a \in Octets : <<a>> \in Seq(Octets) /\ <<a>>[1] = a
  /\ \A a, b \in Octets : <<a, b>> \in Seq(Octets) /\ <<a, b>>[1] = a /\ <<a, b>>[2] = b
  OBVIOUS

\* The commands of the NV index.
LEMMA NVStep ==
  ASSUME Hashes, Consistent, NVCommands
  PROVE  Consistent'
  <1>1. PICK o, n : o = RHOwner /\ n = NVIndex
    OBVIOUS
  <1>2. o \in Octets /\ Length(o) = 4 /\ n \in Octets /\ Length(n) = 4 /\ o \in ReservedHandles
    BY <1>1, HandlesOf, Zenon DEF ReservedHandles
  <1>3. /\ <<o>> \in Seq(Octets) /\ <<o>>[1] = o /\ <<n>> \in Seq(Octets)
        /\ <<o, n>> \in Seq(Octets) /\ <<o, n>>[1] = o /\ <<>> \in Seq(Octets)
    BY <1>2, Values1to2, Zenon
  <1>4. \A k \in Nat : PutU16(k) \in Octets
    BY U16s, Zenon
  <1>5. CASE \E policy \in {<<>>, ekAuthPolicy} :
               LET pub == [index |-> NVIndex, nameAlg |-> algSHA256,
                           attributes |-> Attributes({1, 2, 17, 18}),
                           authPolicy |-> policy, dataSize |-> PutU16(300)]
               IN Send(NVDefineSpace(pub),
                       Says(<<RHOwner>>, PW,
                            <<NoData, NVIndex \o algSHA256 \o <<0, 6, 0, 6>>
                                        \o MarshalTPM2B(policy) \o <<1, 44>>>>), None)
    <2>1. PICK policy \in {<<>>, ekAuthPolicy} :
            LET pub == [index |-> NVIndex, nameAlg |-> algSHA256,
                        attributes |-> Attributes({1, 2, 17, 18}),
                        authPolicy |-> policy, dataSize |-> PutU16(300)]
            IN Send(NVDefineSpace(pub),
                    Says(<<RHOwner>>, PW,
                         <<NoData, NVIndex \o algSHA256 \o <<0, 6, 0, 6>>
                                     \o MarshalTPM2B(policy) \o <<1, 44>>>>), None)
      BY <1>5, Zenon
    <2>2. PICK pub, area, nothing :
            /\ pub = [index |-> NVIndex, nameAlg |-> algSHA256,
                      attributes |-> Attributes({1, 2, 17, 18}),
                      authPolicy |-> policy, dataSize |-> PutU16(300)]
            /\ area = NVArea(policy) /\ nothing = <<>>
      OBVIOUS
    <2>3. Send(NVDefineSpace(pub), Says(<<o>>, PW, <<nothing, area>>), None)
      BY <1>1, <2>1, <2>2, Zenon DEF NVArea, NoData
    <2>4. IsBuffer(policy) /\ Length(policy) <= 64
      <3>1. CASE policy = <<>>
        BY <3>1, BufferParameters, Lengths
      <3>2. CASE policy = ekAuthPolicy
        BY <3>2, PolicyDigests, Digests
      <3> QED
        BY <3>1, <3>2, Zenon
    <2>5. marshalNVPublic(pub) = MarshalTPM2B(area) /\ IsBuffer(area)
      BY <2>2, <2>4, NVAreas, Zenon
    <2>6. Reading(NVDefineSpace(pub)) = Says(<<o>>, PW, <<nothing, area>>)
      BY <1>1, <2>2, <2>5, ReadsNVDefineSpace, Zenon
    <2>7. nothing \in Octets /\ area \in Octets
      BY <2>2, <2>5, Lengths, Buffers, Zenon
    <2>8. <<nothing, area>> \in Seq(Octets)
      BY <2>7, Values1to2, Zenon
    <2>9. Quietly(NVDefineSpace(pub), <<o>>, PW, <<nothing, area>>)
      BY <1>2, <1>3, <2>6, <2>8, Zenon
         DEF Quietly, QuietCommands, NVDefineSpace, Password
    <2> QED
      BY <2>3, <2>9, SendsQuietly, Zenon
  <1>6. CASE Send(NVUndefineSpace(NVIndex), Says(<<RHOwner, NVIndex>>, PW, <<>>), None)
    <2>1. Reading(NVUndefineSpace(n)) = Says(<<o, n>>, PW, <<>>)
      BY <1>1, <1>2, ReadsNV
    <2>2. Quietly(NVUndefineSpace(n), <<o, n>>, PW, <<>>)
      BY <1>2, <1>3, <2>1, Zenon DEF Quietly, QuietCommands, NVUndefineSpace, Password
    <2> QED
      BY <1>1, <1>6, <2>2, SendsQuietly, Zenon
  <1>7. CASE \E data \in {<<>>, <<7>>, <<1, 2, 3>>}, offset \in {0, 256} :
               Send(NVWrite(NVIndex, data, offset),
                    Says(<<RHOwner, NVIndex>>, PW, <<data, PutU16(offset)>>), None)
    <2>1. PICK data \in {<<>>, <<7>>, <<1, 2, 3>>}, offset \in {0, 256} :
            Send(NVWrite(NVIndex, data, offset),
                 Says(<<RHOwner, NVIndex>>, PW, <<data, PutU16(offset)>>), None)
      BY <1>7
    <2>2. offset \in Nat
      OBVIOUS
    <2>3. IsBuffer(data)
      <3>1. data \in Octets /\ Length(data) \in 0..3
        <4>1. 7 \in Octet /\ 1 \in Octet /\ 2 \in Octet /\ 3 \in Octet
          BY DEF Octet
        <4>2. CASE data = <<>>
          BY <4>2, Lengths
        <4>3. CASE data = <<7>>
          BY <4>1, <4>3 DEF Octets, Length
        <4>4. CASE data = <<1, 2, 3>>
          BY <4>1, <4>4 DEF Octets, Length
        <4> QED
          BY <4>2, <4>3, <4>4, Zenon
      <3> QED
        BY <3>1, Buffers, SMT DEF Most
    <2>4. data \in Octets
      BY <2>3, Buffers, Zenon
    <2>5. <<data, PutU16(offset)>> \in Seq(Octets)
      BY <1>4, <2>2, <2>4, Values1to2
    <2>6. Reading(NVWrite(n, data, offset)) = Says(<<o, n>>, PW, <<data, PutU16(offset)>>)
      BY <1>1, <1>2, <2>2, <2>3, ReadsNV
    <2>7. Quietly(NVWrite(n, data, offset), <<o, n>>, PW, <<data, PutU16(offset)>>)
      BY <1>2, <1>3, <2>5, <2>6, Zenon DEF Quietly, QuietCommands, NVWrite, Password
    <2> QED
      BY <1>1, <2>1, <2>7, SendsQuietly, Zenon
  <1>8. CASE \E size \in {0, 300}, offset \in {0, 256} :
               Send(NVRead(NVIndex, size, offset),
                    Says(<<RHOwner, NVIndex>>, PW, <<PutU16(size), PutU16(offset)>>), None)
    <2>1. PICK size \in {0, 300}, offset \in {0, 256} :
            Send(NVRead(NVIndex, size, offset),
                 Says(<<RHOwner, NVIndex>>, PW, <<PutU16(size), PutU16(offset)>>), None)
      BY <1>8
    <2>2. size \in Nat /\ offset \in Nat
      OBVIOUS
    <2>3. <<PutU16(size), PutU16(offset)>> \in Seq(Octets)
      BY <1>4, <2>2, Values1to2
    <2>4. Reading(NVRead(n, size, offset))
            = Says(<<o, n>>, PW, <<PutU16(size), PutU16(offset)>>)
      BY <1>1, <1>2, <2>2, ReadsNV
    <2>5. Quietly(NVRead(n, size, offset), <<o, n>>, PW, <<PutU16(size), PutU16(offset)>>)
      BY <1>2, <1>3, <2>3, <2>4, Zenon DEF Quietly, QuietCommands, NVRead, Password
    <2> QED
      BY <1>1, <2>1, <2>5, SendsQuietly, Zenon
  <1>9. CASE Send(NVReadPublic(NVIndex), Says(<<NVIndex>>, <<>>, <<>>), None)
    <2>1. Reading(NVReadPublic(n)) = Says(<<n>>, <<>>, <<>>)
      BY <1>2, ReadsHandle
    <2>2. Quietly(NVReadPublic(n), <<n>>, <<>>, <<>>)
      BY <1>3, <2>1, Zenon DEF Quietly, QuietCommands, NVReadPublic, Plain
    <2> QED
      BY <1>1, <1>9, <2>2, SendsQuietly, Zenon
  <1> QED
    BY <1>5, <1>6, <1>7, <1>8, <1>9, Zenon DEF NVCommands

\* A command is read as it is meant when it says what it is to say and, where
\* that is left open, what it likes.
SaidBut(x, hs, as, ps, ms) ==
  /\ hs \in Seq(Octets) /\ as \in Seq(Octets) /\ ps \in Seq(Octets)
  /\ Reading(x.command) = Says(hs, as, ps) /\ x.meant = Says(hs, as, ms)
  /\ Len(ps) = Len(ms) /\ \A i \in DOMAIN ms : ms[i] \in {None, ps[i]}

\* Such a command is read as it is meant.
LEMMA MatchesBut ==
  ASSUME NEW x, NEW hs, NEW as, NEW ps, NEW ms, SaidBut(x, hs, as, ps, ms)
  PROVE  Matches(x) /\ IsSaid(Reading(x.command), hs, as, ps)
  <1>1. IsSaid(Reading(x.command), hs, as, ps)
    <2>1. hs \in Seq(Octets) /\ as \in Seq(Octets) /\ ps \in Seq(Octets)
      BY Zenon DEF SaidBut
    <2>2. IsSaid(Says(hs, as, ps), hs, as, ps)
      BY <2>1, SaysSomething, Zenon
    <2>3. Reading(x.command) = Says(hs, as, ps)
      BY Zenon DEF SaidBut
    <2> QED
      BY <2>2, <2>3
  <1>2. x.meant.handles = hs /\ x.meant.auths = as /\ x.meant.params = ms
    <2>1. x.meant = Says(hs, as, ms)
      BY Zenon DEF SaidBut
    <2>2. /\ Says(hs, as, ms).handles = hs /\ Says(hs, as, ms).auths = as
          /\ Says(hs, as, ms).params = ms
      BY DEF Says
    <2> QED
      BY <2>1, <2>2, Zenon
  <1> QED
    BY <1>1, <1>2, Zenon DEF Matches, IsSaid, SaidBut

\* The session stays when no command of policies is carried out and it
\* authorizes none.
LEMMA SessionKept ==
  ASSUME NEW cc, cc \notin {"StartAuthSession", "PolicyPCR", "PolicySecret"},
         NEW r, \A i \in DOMAIN r.auths : r.auths[i] # SessionHandle
  PROVE  SessionAfter(cc, r) = session
  BY DEF SessionAfter

\* One empty password.
LEMMA Passwords ==
  /\ PW \in Seq(Octets) /\ DOMAIN PW = {1} /\ PW[1] = TPM_RS_PW
  /\ \A i \in DOMAIN PW : PW[i] # SessionHandle
  <1>1. PICK t, p : t = TPM_RS_PW /\ p = PW
    OBVIOUS
  <1>2. t \in Octets
    BY <1>1, HandlesOf, Zenon
  <1>3. p \in Seq(Octets) /\ DOMAIN p = {1} /\ p[1] = t
    BY <1>1, <1>2 DEF PW
  <1>4. \A i \in DOMAIN p : p[i] # SessionHandle
    BY <1>1, <1>3, HandleFacts, Zenon
  <1> QED
    BY <1>1, <1>3, <1>4, Zenon

\* What a key is created of.
LEMMA CreationOfKey ==
  ASSUME NEW r, NEW t, NEW hs, IsSaid(r, hs, PW, <<Empty \o Empty, t, <<>>, PutU32(0)>>)
  PROVE  Creation(r) # None /\ Creation(r)[2] = <<>> /\ r.params[2] = t
  <1>1. PICK e, z : e = Empty \o Empty /\ z = PutU32(0)
    OBVIOUS
  <1>2. r.params[1] = e /\ r.params[2] = t
    BY <1>1 DEF IsSaid
  <1>3. PICK n, f : n = <<>> /\ f = <<n, n>>
    OBVIOUS
  <1>4. Fields(<<"2b", "2b">>, e) = f
    BY <1>1, <1>3, NothingSealed, StartsFields
  <1>5. n \in Octets
    BY <1>3, Lengths, Zenon
  <1>6. f # None /\ f[2] = n
    BY <1>3, <1>5, FewFields
  <1> QED
    BY <1>2, <1>3, <1>4, <1>6, Zenon DEF Creation

\* A primary key is created: the device has it then, and the program believes so.
IsKeyRequest(x, k, h) ==
  /\ k \in Keys /\ h \in {RHOwner, RHEndorsement}
  /\ x.command = CreatePrimaryOf(h, MarshalTPM2B(AreaOf(k, <<>>, <<>>)))
  /\ x.meant = Says(<<h>>, PW, <<Empty \o Empty, None, NoData, PutU32(0)>>)

\* Such a request is read as it is meant, and gives the device its key.
LEMMA KeyFits ==
  ASSUME Hashes, Here, NEW x, NEW k, NEW h, IsKeyRequest(x, k, h)
  PROVE  Fits(x)
  <1>1. PICK t, e, z, n, ps, ms :
          /\ t = AreaOf(k, <<>>, <<>>) /\ e = Empty \o Empty /\ z = PutU32(0) /\ n = <<>>
          /\ ps = <<e, t, n, z>> /\ ms = <<e, None, n, z>>
    OBVIOUS
  <1>2. /\ IsKeyArea(Public(t), t, KeyBits(k), KeyPolicy(k), KeyCipher(k), KeyScheme(k), n)
        /\ IsBuffer(t)
    <2>1. IsBuffer(n) /\ Length(n) <= 2
      BY <1>1, BufferParameters, Lengths
    <2> QED
      BY <1>1, <2>1, KeyAreas DEF IsKeyRequest
  <1>3. h \in Octets /\ Length(h) = 4 /\ h \in ReservedHandles
    BY HandlesOf, Zenon DEF IsKeyRequest, ReservedHandles
  <1>4. Reading(x.command) = Says(<<h>>, PW, ps)
    BY <1>1, <1>2, <1>3, ReadsCreatePrimary, Zenon DEF IsKeyRequest
  <1>5. ps \in Seq(Octets) /\ Len(ps) = Len(ms) /\ \A i \in DOMAIN ms : ms[i] \in {None, ps[i]}
    <2>1. e \in Octets /\ t \in Octets /\ n \in Octets /\ z \in Octets
      BY <1>1, <1>2, NothingSealed, Buffers, Lengths, U32s
    <2>2. ps \in Seq(Octets)
      BY <1>1, <2>1
    <2>3. Len(ps) = 4 /\ ps[1] = e /\ ps[3] = n /\ ps[4] = z
      BY <1>1
    <2>4. Len(ms) = 4 /\ DOMAIN ms = 1..4
      BY <1>1
    <2>5. ms[1] = e /\ ms[2] = None /\ ms[3] = n /\ ms[4] = z
      BY <1>1
    <2>6. \A i \in DOMAIN ms : i = 1 \/ i = 2 \/ i = 3 \/ i = 4
      BY <2>4
    <2>7. \A i \in DOMAIN ms : ms[i] \in {None, ps[i]}
      BY <2>3, <2>5, <2>6, Zenon
    <2> QED
      BY <2>2, <2>3, <2>4, <2>7, Zenon
  <1>6. <<h>> \in Seq(Octets) /\ <<h>>[1] = h
    BY <1>3, Values1to2, Zenon
  <1>7. SaidBut(x, <<h>>, PW, ps, ms)
    BY <1>1, <1>4, <1>5, <1>6, Passwords, Zenon DEF SaidBut, IsKeyRequest, NoData
  <1>8. PICK r, cc, p : r = Reading(x.command) /\ cc = x.command.cc /\ p = Public(t)
    OBVIOUS
  <1>9. Matches(x) /\ IsSaid(r, <<h>>, PW, ps)
    <2>1. Matches(x) /\ IsSaid(Reading(x.command), <<h>>, PW, ps)
      BY <1>7, MatchesBut, Zenon
    <2> QED
      BY <1>8, <2>1
  <1>10. cc = "CreatePrimary"
    <2>1. \A a, t1 : CreatePrimaryOf(a, t1).cc = "CreatePrimary"
      BY DEF CreatePrimaryOf, Password
    <2> QED
      BY <1>8, <2>1, Zenon DEF IsKeyRequest
  <1>11. Creation(r) # None /\ Creation(r)[2] = <<>> /\ r.params[2] = t
    BY <1>1, <1>9, CreationOfKey, Zenon
  <1>12. Creatable(p, <<>>) /\ Slot(p) = k /\ p # None /\ p.octets = t
    <2>1. k \in Keys
      BY Zenon DEF IsKeyRequest
    <2> QED
      BY <1>2, <1>8, <2>1, KeyRules DEF IsKeyArea
  <1>13. Accepts(cc, r)
    <2>1. Authorized(cc, r)
      BY <1>3, <1>6, <1>9, Authorizations, Zenon DEF IsSaid
    <2>2. Valid(cc, r)
      BY <1>8, <1>10, <1>11, <1>12 DEF Valid
    <2> QED
      BY <1>9, <2>1, <2>2, Zenon DEF Accepts, IsSaid
  <1>14. PICK objs : objs = ObjectsAfter(cc, r)
    OBVIOUS
  <1>15. objs = [objects EXCEPT ![k] = KeyObject(k)]
    <2>1. Generated(p) = KeyPublic(k)
      BY <1>1, <1>12, GeneratedKey, Zenon DEF IsKeyRequest
    <2>2. objs = [objects EXCEPT ![Slot(p)] = [public |-> Public(Generated(p)), data |-> <<>>]]
      BY <1>8, <1>10, <1>11, <1>14 DEF ObjectsAfter
    <2> QED
      BY <1>12, <2>1, <2>2, Zenon DEF KeyObject
  <1>16. World(objs, session, blob, item, opened)
    <2>1. k \in Keys /\ Keys \subseteq DOMAIN Handle /\ k # "item"
      BY HandleFacts, Zenon DEF IsKeyRequest, Keys
    <2>2. objects = [j \in DOMAIN Handle |-> objects[j]]
      BY Zenon DEF Here, World
    <2>3. PICK key, d : key = KeyObject(k) /\ d = DOMAIN Handle
      OBVIOUS
    <2>4. /\ objs = [j \in d |-> objs[j]] /\ objs[k] = key
          /\ \A j \in d : j # k => objs[j] = objects[j]
      BY <1>15, <2>1, <2>2, <2>3
    <2>5. "item" \in d
      BY <2>3, HandleFacts, Zenon
    <2> QED
      BY <2>1, <2>3, <2>4, <2>5, Zenon DEF Here, World
  <1>17. /\ KeptBlob(x, <<>>) = blob /\ KeptItem(x) = item /\ KeptOpened(x) = opened
    BY <1>8, <1>10 DEF KeptBlob, KeptItem, KeptOpened
  <1>18. Output(cc, r) = <<>> /\ <<>> \in Outputs
    BY <1>10 DEF Output, Outputs, Octets
  <1>19. SessionAfter(cc, r) = session
    BY <1>9, <1>10, Passwords, SessionKept, Zenon DEF IsSaid
  <1>20. Served(x, cc, r)
    <2>1. Acceptable(x) /\ cc \notin {"Unseal", "ActivateCredential", "PolicyGetDigest"}
      BY <1>8, <1>10, Unconditional, Zenon DEF Conditional
    <2> QED
      BY <1>8, <1>13, <1>14, <1>16, <1>17, <1>18, <1>19, <2>1, Zenon
        DEF Served, Answered, Succeeds
  <1> QED
    BY <1>8, <1>9, <1>20, Zenon DEF Fits

\* The creation of the device's keys.
LEMMA PrimariesStep ==
  ASSUME Hashes, Consistent, Primaries
  PROVE  Consistent'
  <1>1. PICK a, b : a = RHOwner /\ b = RHEndorsement
    OBVIOUS
  <1>2. PICK meant, other : /\ meant = Says(<<a>>, PW, <<Empty \o Empty, None, NoData, PutU32(0)>>)
                            /\ other = Says(<<b>>, PW, <<Empty \o Empty, None, NoData, PutU32(0)>>)
    OBVIOUS
  <1>3. \/ Send(CreatePrimary, meant, None) \/ Send(CreateStoragePrimaryPub, meant, None)
        \/ Send(CreateEK, other, None)
    BY <1>1, <1>2, Zenon DEF Primaries
  <1>4. ASSUME NEW k \in Keys, NEW h \in {RHOwner, RHEndorsement}, NEW command, NEW m,
               command = CreatePrimaryOf(h, MarshalTPM2B(AreaOf(k, <<>>, <<>>))),
               m = Says(<<h>>, PW, <<Empty \o Empty, None, NoData, PutU32(0)>>),
               Send(command, m, None)
        PROVE  Consistent'
    <2>1. Here
      BY <1>4, Idle, Zenon
    <2>2. PICK x : x = Request(command, m, None)
      OBVIOUS
    <2>3. x.command = command /\ x.meant = m
      BY <2>2, Zenon DEF Request
    <2>4. IsKeyRequest(x, k, h)
      BY <1>4, <2>3, Zenon DEF IsKeyRequest
    <2>5. Fits(x)
      BY <2>1, <2>4, KeyFits, Zenon
    <2> QED
      BY <1>4, <2>2, <2>5, SendsFit, Zenon
  <1>5. /\ CreatePrimary = CreatePrimaryOf(a, MarshalTPM2B(AreaOf("ak", <<>>, <<>>)))
        /\ CreateStoragePrimaryPub = CreatePrimaryOf(a, MarshalTPM2B(AreaOf("srk", <<>>, <<>>)))
        /\ CreateEK = CreatePrimaryOf(b, MarshalTPM2B(AreaOf("ek", <<>>, <<>>)))
    BY <1>1, Templates, Zenon DEF CreatePrimary, CreateStoragePrimaryPub, CreateEK
  <1>6. PICK k1, k2, k3 : k1 = "ak" /\ k2 = "srk" /\ k3 = "ek"
    OBVIOUS
  <1>7. k1 \in Keys /\ k2 \in Keys /\ k3 \in Keys
    BY <1>6, Zenon DEF Keys
  <1>8. CASE Send(CreatePrimary, meant, None)
    BY <1>1, <1>2, <1>4, <1>5, <1>6, <1>7, <1>8
  <1>9. CASE Send(CreateStoragePrimaryPub, meant, None)
    BY <1>1, <1>2, <1>4, <1>5, <1>6, <1>7, <1>9
  <1>10. CASE Send(CreateEK, other, None)
    BY <1>1, <1>2, <1>4, <1>5, <1>6, <1>7, <1>10
  <1> QED
    BY <1>3, <1>8, <1>9, <1>10, Zenon

\* What the device keeps of its keys: the SRK is a parent, and the AK and the SRK
\* are used with an empty password.
LEMMA KeysAtHand ==
  ASSUME Hashes, Here
  PROVE  /\ \A k \in Keys : objects[k] # None => objects[k] = KeyObject(k)
         /\ objects.srk # None => IsParent(Handle.srk)
         /\ \A k \in {"ak", "srk"} : \A cc, r :
              (/\ objects[k] # None /\ cc # "ActivateCredential"
               /\ r.auths = PW /\ r.handles[1] = Handle[k]) => Authorized(cc, r)
  <1>1. \A k \in Keys : objects[k] # None => objects[k] = KeyObject(k)
    BY Zenon DEF Here, World
  <1>2. ASSUME NEW k \in {"ak", "srk"}, objects[k] # None
        PROVE  /\ objUserWithAuth \in objects[k].public.bits /\ Object(Handle[k]) = objects[k]
               /\ k = "srk" => {objRestricted, objDecrypt} \subseteq objects[k].public.bits
    <2>1. k \in Keys /\ k \in DOMAIN Handle
      BY HandleFacts DEF Keys
    <2>2. PICK p, octets, y : /\ p = KeyObject(k).public
                              /\ IsKeyArea(p, octets, KeyBits(k), KeyPolicy(k),
                                           KeyCipher(k), KeyScheme(k), y)
      BY <2>1, KeyObjects, Zenon
    <2>3. objUserWithAuth \in p.bits /\ (k = "srk" => {objRestricted, objDecrypt} \subseteq p.bits)
      BY <2>1, <2>2, KeyRules
    <2> QED
      BY <1>1, <1>2, <2>1, <2>2, <2>3, HandleFacts, Zenon
  <1>3. ASSUME objects.srk # None
        PROVE  IsParent(Handle.srk)
    BY <1>2, <1>3, Zenon DEF IsParent
  <1>4. ASSUME NEW k \in {"ak", "srk"}, NEW cc, NEW r,
               objects[k] # None, cc # "ActivateCredential", r.auths = PW,
               r.handles[1] = Handle[k]
        PROVE  Authorized(cc, r)
    <2>1. DOMAIN r.auths = {1} /\ r.auths[1] = TPM_RS_PW
      BY <1>4, Passwords, Zenon
    <2>2. Object(r.handles[1]) = objects[k] /\ objUserWithAuth \in objects[k].public.bits
      BY <1>2, <1>4, Zenon
    <2>3. Permits(objects[k].public, "user", TPM_RS_PW)
      BY <2>2 DEF Permits
    <2> QED
      BY <1>4, <2>1, <2>2, <2>3, Zenon DEF Authorized
  <1> QED
    BY <1>1, <1>3, <1>4, Zenon

\* A quote.
LEMMA AttestStep ==
  ASSUME Hashes, Consistent, Attest
  PROVE  Consistent'
  <1>1. PICK nonce \in {<<>>, <<5, 5>>} :
          /\ objects.ak # None
          /\ Send(Quote(Handle.ak, nonce, Selection),
                  Says(<<Handle.ak>>, PW, <<nonce, algNull, marshalPCRSelectionList(Selection)>>),
                  None)
    BY Zenon DEF Attest
  <1>2. PICK h, n, l, command, ps, meant, x :
          /\ h = Handle.ak /\ n = algNull /\ l = marshalPCRSelectionList(Selection)
          /\ command = Quote(h, nonce, Selection)
          /\ ps = <<nonce, n, l>> /\ meant = Says(<<h>>, PW, ps)
          /\ x = Request(command, meant, None)
    OBVIOUS
  <1>3. Here /\ Send(command, meant, None)
    <2>1. Send(command, meant, None)
      BY <1>1, <1>2, Zenon
    <2> QED
      BY <2>1, Idle, Zenon
  <1>4. IsBuffer(nonce)
    <2>1. nonce \in Octets /\ Length(nonce) \in 0..2
      <3>1. 5 \in Octet
        BY DEF Octet
      <3>2. CASE nonce = <<>>
        BY <3>2, Lengths
      <3>3. CASE nonce = <<5, 5>>
        BY <3>1, <3>3 DEF Octets, Length
      <3> QED
        BY <3>2, <3>3, Zenon
    <2> QED
      BY <2>1, Buffers, SMT DEF Most
  <1>5. h \in Octets /\ Length(h) = 4
    BY <1>2, HandlesOf, Zenon
  <1>6. Reading(command) = Says(<<h>>, PW, ps)
    BY <1>2, <1>4, <1>5, ReadsQuote, Zenon
  <1>7. ps \in Seq(Octets)
    <2>1. nonce \in Octets /\ n \in Octets /\ l \in Octets
      BY <1>2, <1>4, Buffers, Algorithms, Selections
    <2> QED
      BY <1>2, <2>1
  <1>8. <<h>> \in Seq(Octets) /\ <<h>>[1] = h
    BY <1>5, Values1to2, Zenon
  <1>9. x.command = command /\ x.meant = meant
    BY <1>2, Zenon DEF Request
  <1>10. SaidBut(x, <<h>>, PW, ps, ps)
    BY <1>2, <1>6, <1>7, <1>8, <1>9, Passwords, Zenon DEF SaidBut
  <1>11. Matches(x) /\ IsSaid(Reading(x.command), <<h>>, PW, ps)
    BY <1>10, MatchesBut, Zenon
  <1>12. PICK r, cc : r = Reading(x.command) /\ cc = x.command.cc
    OBVIOUS
  <1>13. cc = "Quote"
    <2>1. \A a, b, c : Quote(a, b, c).cc = "Quote"
      BY DEF Quote, Password
    <2>2. command.cc = "Quote"
      BY <1>2, <2>1
    <2> QED
      BY <1>9, <1>12, <2>2, Zenon
  <1>14. r # None /\ r.handles = <<h>> /\ r.auths = PW
    BY <1>11, <1>12, Zenon DEF IsSaid
  <1>15. Accepts(cc, r)
    <2>1. Authorized(cc, r)
      BY <1>1, <1>2, <1>3, <1>8, <1>13, <1>14, KeysAtHand, Zenon
    <2>2. Object(r.handles[1]) # None
      BY <1>1, <1>2, <1>8, <1>14, ObjectsOfHandles, Zenon
    <2>3. Valid(cc, r)
      BY <1>13, <2>2 DEF Valid
    <2> QED
      BY <1>14, <2>1, <2>3, Zenon DEF Accepts
  <1>16. Served(x, cc, r)
    <2>1. \A i \in DOMAIN r.auths : r.auths[i] # SessionHandle
      BY <1>14, Passwords, Zenon
    <2>2. x.command.cc \in QuietCommands /\ x.command.cc # "PCR_Extend"
      BY <1>12, <1>13, Zenon DEF QuietCommands
    <2> QED
      BY <1>3, <1>12, <1>15, <2>1, <2>2, Quiet, Zenon DEF Here, Readable
  <1>17. Fits(x)
    BY <1>11, <1>12, <1>16, Zenon DEF Fits
  <1> QED
    BY <1>2, <1>3, <1>17, SendsFit, Zenon

\* The policy digests that a session has.
LEMMA SessionDigests ==
  ASSUME Hashes
  PROVE  \A d \in {NoPolicy, SealedPolicy, ekAuthPolicy} :
           d \in Digest /\ d \in Octets /\ d # None
  <1>1. SealedPolicy \in Digest
    <2>1. PICK l, v, c : /\ l = marshalPCRSelectionList(Selection) /\ v = FlattenSeq(PCRValues)
                         /\ c = ccPolicyPCR
      OBVIOUS
    <2>2. l \in Octets
      BY <2>1, Selections
    <2>3. v \in Octets
      BY <2>1, FlattenType, CommandsAssumption
    <2>4. c \in Octets
      <3>1. 383 \in Nat
        OBVIOUS
      <3> QED
        BY <2>1, <3>1, U32s DEF ccPolicyPCR
    <2>5. NoPolicy \in Octets
      BY PolicyDigests, Digests, Zenon
    <2>6. Hash(v) \in Octets
      BY <2>3, Digests, Zenon
    <2>7. NoPolicy \o c \in Octets
      BY <2>4, <2>5, ConcatType, Zenon
    <2>8. NoPolicy \o c \o l \in Octets
      BY <2>2, <2>7, ConcatType, Zenon
    <2>9. NoPolicy \o c \o l \o Hash(v) \in Octets
      BY <2>6, <2>8, ConcatType, Zenon
    <2>10. Hash(NoPolicy \o c \o l \o Hash(v)) \in Digest
      BY <2>9, Digests, Zenon
    <2> QED
      BY <2>1, <2>10, Zenon DEF SealedPolicy, PolicyPCRDigest, PolicyPCRExtended
  <1>2. NoPolicy \in Digest /\ ekAuthPolicy \in Digest
    BY PolicyDigests, Zenon
  <1> QED
    BY <1>1, <1>2, Digests, NoneAssumption, Zenon

\* The session, by what the program knows of it.
LEMMA SessionHere ==
  ASSUME Hashes, Here
  PROVE  /\ session = SessionOf(opened)
         /\ opened = "no policy" => session = NoPolicy /\ session # None
         /\ opened = "PCR" => session = SealedPolicy /\ session # None
         /\ opened = "secret" => session = ekAuthPolicy /\ session # None
  <1>1. session = SessionOf(opened)
    BY Zenon DEF Here, World
  <1>2. /\ SessionOf("no policy") = NoPolicy /\ SessionOf("PCR") = SealedPolicy
        /\ SessionOf("secret") = ekAuthPolicy
    BY DEF SessionOf
  <1> QED
    BY <1>1, <1>2, SessionDigests, Zenon

\* The program's part of what is kept after a command of policies.
LEMMA WorldAfterPolicy ==
  ASSUME Here, NEW o, o \in Openings
  PROVE  World(objects, SessionOf(o), blob, item, o)
  BY Zenon DEF Here, World

\* A command of policies.
IsPolicyRequest(x, cc, r) ==
  /\ cc \in {"StartAuthSession", "PolicyPCR", "PolicySecret"}
  /\ cc = x.command.cc /\ r = Reading(x.command)
  /\ Matches(x) /\ Accepts(cc, r)
  /\ x.about \in Openings /\ SessionAfter(cc, r) = SessionOf(x.about)

\* Such a request gives the session the digest that the program believes it has.
LEMMA PolicyFits ==
  ASSUME Here, NEW x, NEW cc, NEW r, IsPolicyRequest(x, cc, r)
  PROVE  Fits(x)
  <1>1. /\ cc \in {"StartAuthSession", "PolicyPCR", "PolicySecret"}
        /\ cc = x.command.cc /\ r = Reading(x.command)
        /\ Matches(x) /\ Accepts(cc, r)
        /\ x.about \in Openings /\ SessionAfter(cc, r) = SessionOf(x.about)
    BY Zenon DEF IsPolicyRequest
  <1>2. KeptBlob(x, <<>>) = blob /\ KeptItem(x) = item /\ KeptOpened(x) = x.about
    BY <1>1 DEF KeptBlob, KeptItem, KeptOpened
  <1>3. ObjectsAfter(cc, r) = objects /\ Output(cc, r) = <<>> /\ <<>> \in Outputs
    <2>1. ObjectsAfter(cc, r) = objects
      BY <1>1 DEF ObjectsAfter
    <2>2. Output(cc, r) = <<>>
      BY <1>1 DEF Output
    <2>3. <<>> \in Outputs
      BY Lengths, Zenon DEF Outputs
    <2> QED
      BY <2>1, <2>2, <2>3, Zenon
  <1>4. World(objects, SessionOf(x.about), blob, item, x.about)
    BY <1>1, WorldAfterPolicy, Zenon
  <1>5. Acceptable(x) /\ cc \notin {"Unseal", "ActivateCredential", "PolicyGetDigest"}
    BY <1>1, Unconditional, Zenon DEF Conditional
  <1>6. Answered(x, "success", <<>>, objects, SessionOf(x.about))
    BY <1>1, <1>2, <1>4, <1>5, Zenon DEF Answered, Succeeds
  <1>7. Served(x, cc, r)
    BY <1>1, <1>3, <1>6, Zenon DEF Served
  <1> QED
    BY <1>1, <1>7, Zenon DEF Fits

\* A session is opened.
IsOpening(x, nonce, n, kind) ==
  /\ nonce = <<1, 2>> /\ n = <<>> /\ kind = <<1>>
  /\ x.command = StartAuthSession(nonce) /\ x.about = "no policy"
  /\ x.meant = Says(<<rhNull, rhNull>>, n, <<nonce, n, kind, algNull, algSHA256>>)

\* The opening of a session is read as it is meant, and opens one.
LEMMA OpenFits ==
  ASSUME Hashes, Here, NEW x, NEW nonce, NEW n, NEW kind, IsOpening(x, nonce, n, kind)
  PROVE  Fits(x)
  <1>0. /\ nonce = <<1, 2>> /\ n = <<>> /\ kind = <<1>>
        /\ x.command = StartAuthSession(nonce) /\ x.about = "no policy"
        /\ x.meant = Says(<<rhNull, rhNull>>, n, <<nonce, n, kind, algNull, algSHA256>>)
    BY Zenon DEF IsOpening
  <1>1. PICK h, a, b, hs, ps, command :
          /\ h = rhNull /\ a = algNull /\ b = algSHA256 /\ hs = <<h, h>>
          /\ ps = <<nonce, n, kind, a, b>> /\ command = StartAuthSession(nonce)
    OBVIOUS
  <1>3. nonce \in Octets /\ Length(nonce) = 2 /\ n \in Octets /\ kind \in Octets
    <2>1. 1 \in Octet /\ 2 \in Octet
      BY DEF Octet
    <2> QED
      BY <1>0, <2>1, FewOctets, Lengths, Zenon
  <1>4. h \in Octets /\ a \in Octets /\ b \in Octets
    BY <1>1, HandlesOf, Algorithms
  <1>5. Reading(command) = Says(hs, n, ps)
    <2>1. Length(nonce) \in Sizes
      BY <1>3, Limits, SMT DEF Most
    <2> QED
      BY <1>0, <1>1, <1>3, <2>1, ReadsStartAuthSession, Zenon
  <1>6. hs \in Seq(Octets) /\ hs[1] = h
    BY <1>1, <1>4, Values1to2, Zenon
  <1>7. ps \in Seq(Octets) /\ ps[2] = n
    BY <1>1, <1>3, <1>4
  <1>8. x.command = command /\ x.meant = Says(hs, n, ps)
    BY <1>0, <1>1, Zenon
  <1>9. n \in Seq(Octets)
    BY <1>0, Values1to2, Zenon
  <1>10. SaidBut(x, hs, n, ps, ps)
    BY <1>1, <1>5, <1>6, <1>7, <1>8, <1>9, Zenon DEF SaidBut
  <1>11. Matches(x) /\ IsSaid(Reading(x.command), hs, n, ps)
    BY <1>10, MatchesBut, Zenon
  <1>12. PICK r, cc : r = Reading(x.command) /\ cc = x.command.cc
    OBVIOUS
  <1>13. cc = "StartAuthSession"
    <2>1. command.cc = "StartAuthSession"
      BY <1>1 DEF StartAuthSession, Plain
    <2> QED
      BY <1>8, <1>12, <2>1, Zenon
  <1>14. r # None /\ r.handles = hs /\ r.auths = <<>> /\ r.params = ps
    BY <1>0, <1>11, <1>12, Zenon DEF IsSaid
  <1>15. Accepts(cc, r)
    <2>1. Authorized(cc, r)
      BY <1>14, Authorizations, Zenon
    <2>2. r.params[2] = <<>> /\ r.handles[1] = rhNull
      BY <1>0, <1>1, <1>6, <1>7, <1>14, Zenon
    <2>3. Valid(cc, r)
      BY <1>13, <2>2 DEF Valid
    <2> QED
      BY <1>14, <2>1, <2>3, Zenon DEF Accepts
  <1>16. SessionAfter(cc, r) = SessionOf(x.about) /\ x.about \in Openings
    BY <1>0, <1>13 DEF SessionAfter, SessionOf, Openings
  <1>17. IsPolicyRequest(x, cc, r)
    BY <1>8, <1>11, <1>12, <1>13, <1>15, <1>16, Zenon DEF IsPolicyRequest
  <1>18. Fits(x)
    BY <1>17, PolicyFits, Zenon
  <1> QED
    BY <1>18, Zenon

\* A session is opened, from a state that is consistent to another.
LEMMA OpenStep ==
  ASSUME Hashes, Consistent,
         Send(StartAuthSession(<<1, 2>>),
              Says(<<rhNull, rhNull>>, <<>>, <<<<1, 2>>, NoData, << 1 >>, algNull, algSHA256>>),
              "no policy")
  PROVE  Consistent'
  <1>1. PICK nonce, n, kind, command, meant, about, x :
          /\ nonce = <<1, 2>> /\ n = <<>> /\ kind = <<1>>
          /\ command = StartAuthSession(nonce) /\ about = "no policy"
          /\ meant = Says(<<rhNull, rhNull>>, n, <<nonce, n, kind, algNull, algSHA256>>)
          /\ x = Request(command, meant, about)
    OBVIOUS
  <1>2. Send(command, meant, about)
    BY <1>1, Zenon DEF NoData
  <1>3. Here
    BY <1>2, Idle, Zenon
  <1>4. x.command = command /\ x.meant = meant /\ x.about = about
    BY <1>1, Zenon DEF Request
  <1>5. Fits(x)
    BY <1>1, <1>3, <1>4, OpenFits, Zenon DEF IsOpening
  <1> QED
    BY <1>1, <1>2, <1>5, SendsFit, Zenon

\* The policy of PCRs, and that of the endorsement hierarchy.
IsPolicyPCR(x, n, l) ==
  /\ opened = "no policy" /\ n = <<>> /\ l = marshalPCRSelectionList(Selection)
  /\ x.command = PolicyPCR(SessionHandle, Selection) /\ x.about = "PCR"
  /\ x.meant = Says(<<SessionHandle>>, n, <<n, l>>)

\* PolicyPCR is read as it is meant, and gives the session the policy of the PCRs.
LEMMA PolicyPCRFits ==
  ASSUME Hashes, Here, NEW x, NEW n, NEW l, IsPolicyPCR(x, n, l)
  PROVE  Fits(x)
  <1>1. /\ opened = "no policy" /\ n = <<>> /\ l = marshalPCRSelectionList(Selection)
        /\ x.command = PolicyPCR(SessionHandle, Selection) /\ x.about = "PCR"
        /\ x.meant = Says(<<SessionHandle>>, n, <<n, l>>)
    BY Zenon DEF IsPolicyPCR
  <1>2. PICK h, hs, ps : h = SessionHandle /\ hs = <<h>> /\ ps = <<n, l>>
    OBVIOUS
  <1>3. h \in Octets /\ n \in Octets /\ l \in Octets /\ n \in Seq(Octets)
    BY <1>1, <1>2, HandlesOf, Lengths, Selections, Values1to2
  <1>4. hs \in Seq(Octets) /\ hs[1] = h /\ ps \in Seq(Octets) /\ ps[2] = l
    BY <1>2, <1>3, Values1to2, Zenon
  <1>5. Reading(x.command) = Says(hs, n, ps) /\ x.meant = Says(hs, n, ps)
    BY <1>1, <1>2, ReadsPolicies, Zenon
  <1>6. SaidBut(x, hs, n, ps, ps)
    BY <1>3, <1>4, <1>5, Zenon DEF SaidBut
  <1>7. Matches(x) /\ IsSaid(Reading(x.command), hs, n, ps)
    BY <1>6, MatchesBut, Zenon
  <1>8. PICK r, cc : r = Reading(x.command) /\ cc = x.command.cc
    OBVIOUS
  <1>9. cc = "PolicyPCR"
    <2>1. PolicyPCR(SessionHandle, Selection).cc = "PolicyPCR"
      BY DEF PolicyPCR, Plain
    <2> QED
      BY <1>1, <1>8, <2>1, Zenon
  <1>10. r # None /\ r.handles = hs /\ r.auths = <<>> /\ r.params = ps
    BY <1>1, <1>7, <1>8, Zenon DEF IsSaid
  <1>11. session = NoPolicy /\ session # None
    BY <1>1, SessionHere, Zenon
  <1>12. Accepts(cc, r)
    <2>1. Authorized(cc, r)
      BY <1>10, Authorizations, Zenon
    <2>2. r.handles[1] = SessionHandle
      BY <1>2, <1>4, <1>10, Zenon
    <2>3. Valid(cc, r)
      BY <1>9, <1>11, <2>2 DEF Valid
    <2> QED
      BY <1>10, <2>1, <2>3, Zenon DEF Accepts
  <1>13. SessionAfter(cc, r) = SessionOf(x.about) /\ x.about \in Openings
    <2>1. SessionAfter(cc, r) = PolicyPCRExtended(session, r.params[2], PCRValues)
      <3>1. DOMAIN r.auths = {}
        BY <1>10
      <3> QED
        BY <1>9, <3>1 DEF SessionAfter
    <2>2. SessionAfter(cc, r) = SealedPolicy
      BY <1>1, <1>4, <1>10, <1>11, <2>1, Zenon DEF SealedPolicy, PolicyPCRDigest
    <2>3. SessionOf("PCR") = SealedPolicy /\ "PCR" \in Openings
      BY DEF SessionOf, Openings
    <2> QED
      BY <1>1, <2>2, <2>3, Zenon
  <1>14. IsPolicyRequest(x, cc, r)
    BY <1>7, <1>8, <1>9, <1>12, <1>13, Zenon DEF IsPolicyRequest
  <1> QED
    BY <1>14, PolicyFits, Zenon
IsPolicySecret(x, n, z) ==
  /\ opened = "no policy" /\ n = <<>> /\ z = PutU32(0)
  /\ x.command = PolicySecret(RHEndorsement, SessionHandle) /\ x.about = "secret"
  /\ x.meant = Says(<<RHEndorsement, SessionHandle>>, PW, <<n, n, n, z>>)

\* PolicySecret is read as it is meant, and gives the session the EK's policy.
LEMMA PolicySecretFits ==
  ASSUME Hashes, Here, NEW x, NEW n, NEW z, IsPolicySecret(x, n, z)
  PROVE  Fits(x)
  <1>1. /\ opened = "no policy" /\ n = <<>> /\ z = PutU32(0)
        /\ x.command = PolicySecret(RHEndorsement, SessionHandle) /\ x.about = "secret"
        /\ x.meant = Says(<<RHEndorsement, SessionHandle>>, PW, <<n, n, n, z>>)
    BY Zenon DEF IsPolicySecret
  <1>2. PICK h, s, hs, ps : /\ h = RHEndorsement /\ s = SessionHandle
                            /\ hs = <<h, s>> /\ ps = <<n, n, n, z>>
    OBVIOUS
  <1>3. h \in Octets /\ s \in Octets /\ n \in Octets /\ z \in Octets
    BY <1>1, <1>2, HandlesOf, Lengths, U32s
  <1>4. hs \in Seq(Octets) /\ hs[1] = h /\ hs[2] = s
    BY <1>2, <1>3, Values1to2, Zenon
  <1>5. ps \in Seq(Octets)
    BY <1>2, <1>3
  <1>6. Reading(x.command) = Says(hs, PW, ps) /\ x.meant = Says(hs, PW, ps)
    BY <1>1, <1>2, ReadsPolicies, Zenon
  <1>7. SaidBut(x, hs, PW, ps, ps)
    BY <1>4, <1>5, <1>6, Passwords, Zenon DEF SaidBut
  <1>8. Matches(x) /\ IsSaid(Reading(x.command), hs, PW, ps)
    BY <1>7, MatchesBut, Zenon
  <1>9. PICK r, cc : r = Reading(x.command) /\ cc = x.command.cc
    OBVIOUS
  <1>10. cc = "PolicySecret"
    <2>1. PolicySecret(RHEndorsement, SessionHandle).cc = "PolicySecret"
      BY DEF PolicySecret, Password
    <2> QED
      BY <1>1, <1>9, <2>1, Zenon
  <1>11. r # None /\ r.handles = hs /\ r.auths = PW /\ r.params = ps
    BY <1>8, <1>9, Zenon DEF IsSaid
  <1>12. session = NoPolicy /\ session # None
    BY <1>1, SessionHere, Zenon
  <1>13. Accepts(cc, r)
    <2>1. r.handles[1] \in ReservedHandles
      BY <1>2, <1>4, <1>11, Zenon DEF ReservedHandles
    <2>2. Authorized(cc, r)
      BY <1>11, <2>1, Authorizations, Zenon
    <2>3. r.handles[2] = SessionHandle
      BY <1>2, <1>4, <1>11, Zenon
    <2>4. Valid(cc, r)
      BY <1>10, <1>12, <2>3 DEF Valid
    <2> QED
      BY <1>11, <2>2, <2>4, Zenon DEF Accepts
  <1>14. SessionAfter(cc, r) = SessionOf(x.about) /\ x.about \in Openings
    <2>1. SessionAfter(cc, r) = PolicySecretExtended(session)
      <3>1. ~\E i \in DOMAIN r.auths : r.auths[i] = SessionHandle
        BY <1>11, Passwords, Zenon
      <3> QED
        BY <1>10, <3>1 DEF SessionAfter
    <2>2. SessionAfter(cc, r) = ekAuthPolicy
      BY <1>12, <2>1, Zenon DEF ekAuthPolicy
    <2>3. SessionOf("secret") = ekAuthPolicy /\ "secret" \in Openings
      BY DEF SessionOf, Openings
    <2> QED
      BY <1>1, <2>2, <2>3, Zenon
  <1>15. IsPolicyRequest(x, cc, r)
    BY <1>8, <1>9, <1>10, <1>13, <1>14, Zenon DEF IsPolicyRequest
  <1> QED
    BY <1>15, PolicyFits, Zenon

\* The digest of a session's policy is the one that was computed away from it.
IsGetDigest(x, n) ==
  /\ opened = "PCR" /\ n = <<>> /\ x.command = PolicyGetDigest(SessionHandle)
  /\ x.about = SealedPolicy /\ x.meant = Says(<<SessionHandle>>, n, n)

\* PolicyGetDigest answers with the digest that was computed away from the device.
LEMMA GetDigestFits ==
  ASSUME Hashes, Here, NEW x, NEW n, IsGetDigest(x, n)
  PROVE  Fits(x)
  <1>1. /\ opened = "PCR" /\ n = <<>> /\ x.command = PolicyGetDigest(SessionHandle)
        /\ x.about = SealedPolicy /\ x.meant = Says(<<SessionHandle>>, n, n)
    BY Zenon DEF IsGetDigest
  <1>2. PICK h, hs : h = SessionHandle /\ hs = <<h>>
    OBVIOUS
  <1>3. h \in Octets /\ Length(h) = 4 /\ n \in Seq(Octets)
    BY <1>1, <1>2, HandlesOf, Values1to2
  <1>4. hs \in Seq(Octets) /\ hs[1] = h
    BY <1>2, <1>3, Values1to2, Zenon
  <1>5. Reading(x.command) = Says(hs, n, n) /\ x.meant = Says(hs, n, n)
    <2>1. Reading(PolicyGetDigest(h)) = Says(<<h>>, <<>>, <<>>)
      BY <1>3, ReadsHandle
    <2> QED
      BY <1>1, <1>2, <2>1, Zenon
  <1>6. SaidBut(x, hs, n, n, n)
    BY <1>3, <1>4, <1>5, Zenon DEF SaidBut
  <1>7. Matches(x) /\ IsSaid(Reading(x.command), hs, n, n)
    BY <1>6, MatchesBut, Zenon
  <1>8. PICK r, cc : r = Reading(x.command) /\ cc = x.command.cc
    OBVIOUS
  <1>9. cc = "PolicyGetDigest"
    <2>1. PolicyGetDigest(SessionHandle).cc = "PolicyGetDigest"
      BY DEF PolicyGetDigest, Plain
    <2> QED
      BY <1>1, <1>8, <2>1, Zenon
  <1>10. r # None /\ r.handles = hs /\ r.auths = <<>>
    BY <1>1, <1>7, <1>8, Zenon DEF IsSaid
  <1>11. session = SealedPolicy /\ session # None
    BY <1>1, SessionHere, Zenon
  <1>12. Accepts(cc, r)
    <2>1. Authorized(cc, r)
      BY <1>10, Authorizations, Zenon
    <2>2. r.handles[1] = SessionHandle
      BY <1>2, <1>4, <1>10, Zenon
    <2>3. Valid(cc, r)
      BY <1>9, <1>11, <2>2 DEF Valid
    <2> QED
      BY <1>10, <2>1, <2>3, Zenon DEF Accepts
  <1>13. KeptBlob(x, session) = blob /\ KeptItem(x) = item /\ KeptOpened(x) = opened
    BY <1>8, <1>9 DEF KeptBlob, KeptItem, KeptOpened
  <1>14. ObjectsAfter(cc, r) = objects /\ Output(cc, r) = session
    BY <1>9 DEF ObjectsAfter, Output
  <1>15. SessionAfter(cc, r) = session
    BY <1>9, <1>10, Authorizations, SessionKept, Zenon
  <1>16. session \in Outputs
    BY <1>11, SessionDigests, Zenon DEF Outputs
  <1>17. Answered(x, "success", session, objects, session)
    <2>1. Acceptable(x)
      BY <1>8, <1>9, Unconditional, Zenon DEF Conditional
    <2> QED
      BY <1>1, <1>8, <1>11, <1>13, <2>1, Zenon DEF Answered, Succeeds, Here
  <1>18. Served(x, cc, r)
    BY <1>12, <1>14, <1>15, <1>16, <1>17, Zenon DEF Served
  <1> QED
    BY <1>7, <1>8, <1>18, Zenon DEF Fits

\* A session, and its policies.
LEMMA SessionsStep ==
  ASSUME Hashes, Consistent, Sessions
  PROVE  Consistent'
  <1>1. CASE Send(StartAuthSession(<<1, 2>>),
                  Says(<<rhNull, rhNull>>, <<>>, <<<<1, 2>>, NoData, <<1>>, algNull, algSHA256>>),
                  "no policy")
    BY <1>1, OpenStep
  <1>2. CASE /\ opened = "no policy"
             /\ Send(PolicyPCR(SessionHandle, Selection),
                     Says(<<SessionHandle>>, <<>>,
                          <<NoData, marshalPCRSelectionList(Selection)>>), "PCR")
    <2>1. PICK n, l, command, meant, about, x :
            /\ n = <<>> /\ l = marshalPCRSelectionList(Selection)
            /\ command = PolicyPCR(SessionHandle, Selection)
            /\ meant = Says(<<SessionHandle>>, n, <<n, l>>) /\ about = "PCR"
            /\ x = Request(command, meant, about)
      OBVIOUS
    <2>2. Send(command, meant, about)
      BY <1>2, <2>1, Zenon DEF NoData
    <2>3. Here
      BY <2>2, Idle, Zenon
    <2>4. x.command = command /\ x.meant = meant /\ x.about = about
      BY <2>1, Zenon DEF Request
    <2>5. Fits(x)
      <3>1. IsPolicyPCR(x, n, l)
        BY <1>2, <2>1, <2>4, Zenon DEF IsPolicyPCR
      <3> QED
        BY <2>3, <3>1, PolicyPCRFits, Zenon
    <2> QED
      BY <2>1, <2>2, <2>5, SendsFit, Zenon
  <1>3. CASE /\ opened = "no policy"
             /\ Send(PolicySecret(RHEndorsement, SessionHandle),
                     Says(<<RHEndorsement, SessionHandle>>, PW,
                          <<NoData, NoData, NoData, PutU32(0)>>), "secret")
    <2>1. PICK n, z, command, meant, about, x :
            /\ n = <<>> /\ z = PutU32(0)
            /\ command = PolicySecret(RHEndorsement, SessionHandle)
            /\ meant = Says(<<RHEndorsement, SessionHandle>>, PW, <<n, n, n, z>>)
            /\ about = "secret" /\ x = Request(command, meant, about)
      OBVIOUS
    <2>2. Send(command, meant, about)
      BY <1>3, <2>1, Zenon DEF NoData
    <2>3. Here
      BY <2>2, Idle, Zenon
    <2>4. x.command = command /\ x.meant = meant /\ x.about = about
      BY <2>1, Zenon DEF Request
    <2>5. Fits(x)
      <3>1. IsPolicySecret(x, n, z)
        BY <1>3, <2>1, <2>4, Zenon DEF IsPolicySecret
      <3> QED
        BY <2>3, <3>1, PolicySecretFits, Zenon
    <2> QED
      BY <2>1, <2>2, <2>5, SendsFit, Zenon
  <1>4. CASE /\ opened = "PCR"
             /\ Send(PolicyGetDigest(SessionHandle), Says(<<SessionHandle>>, <<>>, <<>>),
                     PolicyPCRDigest(Selection, PCRValues))
    <2>1. PICK n, command, meant, about, x :
            /\ n = <<>> /\ command = PolicyGetDigest(SessionHandle)
            /\ meant = Says(<<SessionHandle>>, n, n) /\ about = SealedPolicy
            /\ x = Request(command, meant, about)
      OBVIOUS
    <2>2. Send(command, meant, about)
      BY <1>4, <2>1, Zenon DEF SealedPolicy
    <2>3. Here
      BY <2>2, Idle, Zenon
    <2>4. x.command = command /\ x.meant = meant /\ x.about = about
      BY <2>1, Zenon DEF Request
    <2>5. Fits(x)
      <3>1. IsGetDigest(x, n)
        BY <1>4, <2>1, <2>4, Zenon DEF IsGetDigest
      <3> QED
        BY <2>3, <3>1, GetDigestFits, Zenon
    <2> QED
      BY <2>1, <2>2, <2>5, SendsFit, Zenon
  <1> QED
    BY <1>1, <1>2, <1>3, <1>4, Zenon DEF Sessions

\* The value that is hashed with a secret.
LEMMA Obfuscated == Obfuscation \in Octets /\ Length(Obfuscation) = DigestSize /\ IsBuffer(Obfuscation)
  <1>1. 9 \in Octet /\ DigestSize \in Nat
    BY DigestSizeAssumption DEF Octet
  <1>2. Obfuscation \in Octets /\ Length(Obfuscation) = DigestSize
    BY <1>1, Repeated DEF Obfuscation
  <1>3. Length(Obfuscation) <= Most
    BY <1>2, Digests, Limits, SMT DEF Most
  <1> QED
    BY <1>2, <1>3, Buffers, Zenon

\* The sensitive part of a sealed object, as the device reads it.
SensitiveKinds == <<"u16", "2b", "2b", "2b">>
SensitiveValues(secret) == <<algKeyedHash, <<>>, Obfuscation, secret>>

\* The sensitive part has its four fields, and no octet besides.
LEMMA SensitiveParts ==
  ASSUME NEW secret \in Secrets, NEW s, s = marshalSealSensitive(Obfuscation, secret)
  PROVE  /\ s \in Octets /\ Length(s) = 8 + DigestSize + Length(secret)
         /\ Fields(SensitiveKinds, s) = SensitiveValues(secret)
         /\ SensitiveValues(secret) # None
         /\ SensitiveValues(secret)[3] = Obfuscation /\ SensitiveValues(secret)[4] = secret
  <1>1. PICK o, n, a, b, c, d :
          /\ o = Obfuscation /\ n = <<>> /\ a = algKeyedHash /\ b = Empty
          /\ c = MarshalTPM2B(o) /\ d = MarshalTPM2B(secret)
    OBVIOUS
  <1>2. /\ IsBuffer(o) /\ Length(o) = DigestSize /\ IsBuffer(secret)
        /\ Length(secret) \in Nat /\ DigestSize \in Nat
    BY <1>1, Obfuscated, SecretBuffers, Digests, Zenon
  <1>3. /\ Starts(<<"u16">>, <<a>>, a) /\ Starts(<<"2b">>, <<n>>, b)
        /\ Starts(<<"2b">>, <<o>>, c) /\ Starts(<<"2b">>, <<secret>>, d)
    <2>1. 8 \in Nat
      OBVIOUS
    <2>2. Starts(<<"u16">>, <<PutU16(8)>>, PutU16(8))
      BY <2>1, NumberParameters
    <2> QED
      BY <1>1, <1>2, <2>2, BufferParameters, Zenon DEF algKeyedHash
  <1>4. /\ a \in Octets /\ Length(a) = 2 /\ b \in Octets /\ Length(b) = 2
        /\ c \in Octets /\ Length(c) = 2 + DigestSize
        /\ d \in Octets /\ Length(d) = 2 + Length(secret)
    <2>1. a \in Octets /\ Length(a) = 2
      BY <1>1, Algorithms, Zenon
    <2>2. b \in Octets /\ Length(b) = 2
      <3>1. 0 \in Nat
        OBVIOUS
      <3> QED
        BY <1>1, <3>1, U16s DEF Empty
    <2>3. c \in Octets /\ Length(c) = 2 + DigestSize
      BY <1>1, <1>2, Buffers
    <2>4. d \in Octets /\ Length(d) = 2 + Length(secret)
      BY <1>1, <1>2, Buffers
    <2> QED
      BY <2>1, <2>2, <2>3, <2>4, Zenon
  <1>5. PICK ab, abc, abcd : ab = a \o b /\ abc = ab \o c /\ abcd = abc \o d
    OBVIOUS
  <1>6. ab \in Octets /\ Length(ab) = Length(a) + Length(b)
    BY <1>4, <1>5, Longer, Zenon
  <1>7. abc \in Octets /\ Length(abc) = Length(ab) + Length(c)
    BY <1>4, <1>5, <1>6, Longer, Zenon
  <1>8. abcd \in Octets /\ Length(abcd) = Length(abc) + Length(d)
    BY <1>4, <1>5, <1>7, Longer, Zenon
  <1>9. s = abcd
    BY <1>1, <1>5, Zenon DEF marshalSealSensitive
  <1>10. Length(abcd) = 8 + DigestSize + Length(secret)
    BY <1>2, <1>4, <1>6, <1>7, <1>8
  <1>11. Fields(<<"u16", "2b", "2b", "2b">>, abcd) = <<a, n, o, secret>>
    <2>1. Starts(<<"u16", "2b", "2b", "2b">>, <<a, n, o, secret>>, abcd)
      BY <1>3, <1>5, StartsFour, Zenon
    <2> QED
      BY <2>1, StartsFields
  <1>12. PICK v : v = <<a, n, o, secret>>
    OBVIOUS
  <1>13. v # None /\ v[3] = o /\ v[4] = secret
    <2>1. n \in Octets /\ o \in Octets /\ secret \in Octets
      BY <1>1, <1>2, Lengths, Buffers, Zenon
    <2>2. v \in Seq(Octets) /\ v[3] = o /\ v[4] = secret
      BY <1>4, <1>12, <2>1
    <2> QED
      BY <2>2, NoneAssumption, Zenon
  <1>14. v = SensitiveValues(secret)
    BY <1>1, <1>12, Zenon DEF SensitiveValues
  <1> QED
    BY <1>1, <1>8, <1>9, <1>10, <1>11, <1>12, <1>13, <1>14, Zenon DEF SensitiveKinds

\* The public area of a sealed object, as the device reads it.
LEMMA SealedAreas ==
  ASSUME Hashes, NEW bits \in SealedBits, NEW secret \in Secrets
  PROVE  /\ IsSealedArea(Public(SealedArea(bits, secret)), SealedArea(bits, secret), bits,
                         SealedPolicy, Hash(Obfuscation \o secret))
         /\ IsBuffer(SealedArea(bits, secret)) /\ Length(SealedArea(bits, secret)) <= 142
         /\ Hash(Obfuscation \o secret) \in Digest /\ SealedPolicy \in Digest
  <1>1. bits \in SUBSET (0..31)
    BY DEF SealedBits, sealObjectAttributes, importSealAttributes, objFixedTPM, objFixedParent
  <1>2. Hash(Obfuscation \o secret) \in Digest
    <2>1. Obfuscation \in Octets /\ secret \in Octets
      BY Obfuscated, SecretBuffers, Buffers, Zenon
    <2>2. Obfuscation \o secret \in Octets
      BY <2>1, ConcatType, Zenon
    <2> QED
      BY <2>2, Digests, Zenon
  <1>3. SealedPolicy \in Digest
    BY SessionDigests, Zenon
  <1>4. PICK policy, unique, area :
          /\ policy = SealedPolicy /\ unique = Hash(Obfuscation \o secret)
          /\ area = SealPublic(bits, policy, unique)
    OBVIOUS
  <1>5. /\ IsBuffer(policy) /\ Length(policy) = DigestSize
        /\ IsBuffer(unique) /\ Length(unique) = DigestSize
    BY <1>2, <1>3, <1>4, Digests, Zenon
  <1>6. /\ IsSealedArea(Public(area), area, bits, policy, unique)
        /\ area \in Octets /\ Length(area) = 14 + Length(policy) + Length(unique)
    BY <1>1, <1>4, <1>5, PublicSealed
  <1>7. Length(area) <= 142
    BY <1>5, <1>6, Digests
  <1>8. IsBuffer(area)
    <2>1. Length(area) \in Nat
      BY <1>6, Lengths, Zenon
    <2>2. Length(area) <= Most
      BY <1>7, <2>1, SMT DEF Most
    <2> QED
      BY <1>6, <2>2, Buffers, Zenon
  <1> QED
    BY <1>2, <1>3, <1>4, <1>6, <1>7, <1>8, Zenon DEF SealedArea

\* The private area, and what the device takes out of it.
LEMMA SealedPrivate ==
  ASSUME Hashes, NEW bits \in SealedBits, NEW secret \in Secrets, NEW s, NEW area, NEW priv,
         s = marshalSealSensitive(Obfuscation, secret), area = SealedArea(bits, secret),
         priv = Private(s, area)
  PROVE  IsBuffer(priv) /\ Sensitive(priv, area) = SensitiveValues(secret)
  <1>1. /\ s \in Octets /\ Length(s) = 8 + DigestSize + Length(secret)
        /\ Fields(SensitiveKinds, s) = SensitiveValues(secret)
    BY SensitiveParts, Zenon
  <1>2. area \in Octets
    BY SealedAreas, Buffers, Zenon
  <1>3. PICK code : code = Hash(s \o area)
    OBVIOUS
  <1>4. code \in Digest /\ IsBuffer(code) /\ Length(code) = DigestSize
    <2>1. s \o area \in Octets
      BY <1>1, <1>2, ConcatType, Zenon
    <2>2. code \in Digest
      BY <1>3, <2>1, Digests, Zenon
    <2> QED
      BY <2>2, Digests, Zenon
  <1>5. PICK m, parts : m = MarshalTPM2B(code) /\ parts = <<code, s>>
    OBVIOUS
  <1>6. priv = m \o s
    BY <1>3, <1>5, Zenon DEF Private
  <1>7. m \in Octets /\ Length(m) = 2 + DigestSize
    BY <1>4, <1>5, Buffers
  <1>8. priv \in Octets /\ Length(priv) = Length(m) + Length(s)
    BY <1>1, <1>6, <1>7, Longer, Zenon
  <1>9. IsBuffer(priv)
    <2>1. Length(secret) \in Nat /\ Length(secret) <= MaxSecret
      BY SecretBuffers, Zenon
    <2>2. Length(priv) <= Most
      BY <1>1, <1>7, <1>8, <2>1, Digests, Limits, SecretLimits, SMT
    <2> QED
      BY <1>8, <2>2, Buffers, Zenon
  <1>10. Fields(<<"2b", "rest">>, priv) = parts
    BY <1>1, <1>4, <1>5, <1>6, BufferRest, Zenon
  <1>11. parts # None
    <2>1. code \in Octets
      BY <1>4, Buffers, Zenon
    <2> QED
      BY <1>1, <1>5, <2>1, FewFields, Zenon
  <1>12. parts[1] = code /\ parts[2] = s
    BY <1>5
  <1>13. Sensitive(priv, area) = Fields(<<"u16", "2b", "2b", "2b">>, parts[2])
    BY <1>3, <1>10, <1>11, <1>12, Zenon DEF Sensitive
  <1> QED
    BY <1>1, <1>9, <1>12, <1>13, Zenon DEF SensitiveKinds

\* The values of a creation, the template's left open.
LEMMA CreationValues ==
  ASSUME NEW e \in Octets, NEW t \in Octets, NEW n \in Octets, NEW z \in Octets,
         NEW ps, NEW ms, ps = <<e, t, n, z>>, ms = <<e, None, n, z>>
  PROVE  /\ ps \in Seq(Octets) /\ Len(ps) = Len(ms)
         /\ \A i \in DOMAIN ms : ms[i] \in {None, ps[i]}
         /\ ps[1] = e /\ ps[2] = t
  <1>1. ps \in Seq(Octets)
    OBVIOUS
  <1>2. Len(ps) = 4 /\ ps[1] = e /\ ps[2] = t /\ ps[3] = n /\ ps[4] = z
    OBVIOUS
  <1>3. Len(ms) = 4 /\ DOMAIN ms = 1..4
    OBVIOUS
  <1>4. ms[1] = e /\ ms[2] = None /\ ms[3] = n /\ ms[4] = z
    OBVIOUS
  <1>5. \A i \in DOMAIN ms : i = 1 \/ i = 2 \/ i = 3 \/ i = 4
    BY <1>3
  <1>6. \A i \in DOMAIN ms : ms[i] \in {None, ps[i]}
    BY <1>2, <1>4, <1>5, Zenon
  <1> QED
    BY <1>1, <1>2, <1>3, <1>6, Zenon

\* An object that the program keeps where it had none.
IsKeeping(x, cc, r) ==
  /\ cc \in {"Create", "Import"} /\ blob = None
  /\ cc = x.command.cc /\ r = Reading(x.command)
  /\ Matches(x) /\ Acceptable(x) /\ Accepts(cc, r) /\ r.auths = PW
  /\ Output(cc, r) \in Outputs /\ IsSealedBlob(KeptBlob(x, Output(cc, r)))

\* What a creation and an import answer is the object that the program keeps.
LEMMA KeepingFits ==
  ASSUME Here, NEW x, NEW cc, NEW r, IsKeeping(x, cc, r)
  PROVE  Fits(x)
  <1>1. /\ cc \in {"Create", "Import"} /\ blob = None
        /\ cc = x.command.cc /\ r = Reading(x.command)
        /\ Matches(x) /\ Acceptable(x) /\ Accepts(cc, r) /\ r.auths = PW
        /\ Output(cc, r) \in Outputs /\ IsSealedBlob(KeptBlob(x, Output(cc, r)))
    BY Zenon DEF IsKeeping
  <1>2. PICK out, kept : out = Output(cc, r) /\ kept = KeptBlob(x, out)
    OBVIOUS
  <1>3. KeptItem(x) = item /\ KeptOpened(x) = opened /\ ObjectsAfter(cc, r) = objects
    BY <1>1 DEF KeptItem, KeptOpened, ObjectsAfter
  <1>4. SessionAfter(cc, r) = session
    BY <1>1, Passwords, SessionKept
  <1>5. World(objects, session, kept, item, opened)
    BY <1>1, <1>2, Zenon DEF Here, World
  <1>6. cc \notin {"Unseal", "ActivateCredential", "PolicyGetDigest"}
    BY <1>1
  <1>7. Answered(x, "success", out, objects, session)
    BY <1>1, <1>2, <1>3, <1>5, <1>6, Zenon DEF Answered, Succeeds
  <1>8. Served(x, cc, r)
    BY <1>1, <1>2, <1>3, <1>4, <1>7, Zenon DEF Served
  <1> QED
    BY <1>1, <1>8, Zenon DEF Fits

\* The public area of a sealed object is its template's, with a unique value.
LEMMA SealedTemplate ==
  ASSUME Hashes, NEW t, t = SealPublic(sealObjectAttributes, SealedPolicy, <<>>),
         NEW secret \in Secrets
  PROVE  /\ IsSealedArea(Public(t), t, sealObjectAttributes, SealedPolicy, <<>>)
         /\ IsBuffer(t) /\ marshalSealPublic(SealedPolicy) = MarshalTPM2B(t)
         /\ SubSeq(t, 1, Len(t) - 2) \o MarshalTPM2B(Hash(Obfuscation \o secret))
              = SealedArea(sealObjectAttributes, secret)
  <1>1. PICK bits, policy, n : bits = sealObjectAttributes /\ policy = SealedPolicy /\ n = <<>>
    OBVIOUS
  <1>2. bits \in SUBSET (0..31)
    BY <1>1 DEF sealObjectAttributes, objFixedTPM, objFixedParent
  <1>3. IsBuffer(policy) /\ Length(policy) = DigestSize /\ policy \in Octets
    BY <1>1, SessionDigests, Digests, Zenon
  <1>4. IsBuffer(n) /\ Length(n) = 0 /\ n \in Octets
    BY <1>1, BufferParameters, Lengths, Zenon
  <1>5. t = SealPublic(bits, policy, n)
    BY <1>1, Zenon
  <1>6. /\ IsSealedArea(Public(t), t, bits, policy, n)
        /\ t \in Octets /\ Length(t) = 14 + Length(policy) + Length(n)
    BY <1>2, <1>3, <1>4, <1>5, PublicSealed
  <1>7. IsBuffer(t)
    <2>1. Length(t) <= 78
      BY <1>3, <1>4, <1>6, Digests
    <2>2. Length(t) <= Most
      BY <1>6, <2>1, Lengths, SMT DEF Most
    <2> QED
      BY <1>6, <2>2, Buffers, Zenon
  <1>8. marshalSealPublic(SealedPolicy) = MarshalTPM2B(t)
    BY Zenon DEF marshalSealPublic
  <1>9. PICK g, e, u : /\ g = HeadOf(algKeyedHash, bits, policy) \o algNull /\ e = Empty
                       /\ u = MarshalTPM2B(Hash(Obfuscation \o secret))
    OBVIOUS
  <1>10. g \in Octets /\ e \in Octets /\ Length(e) = 2
    <2>1. HeadOf(algKeyedHash, bits, policy) \in Octets
      <3>1. algKeyedHash \in {AlgECC, algKeyedHash}
        OBVIOUS
      <3> QED
        BY <1>2, <1>3, <3>1, Heads, Zenon
    <2>2. algNull \in Octets /\ e \in Octets /\ Length(e) = 2
      BY <1>9, Algorithms, Zenon
    <2> QED
      BY <1>9, <2>1, <2>2, ConcatType, Zenon
  <1>11. t = g \o e
    <2>1. MarshalTPM2B(n) = e
      BY <1>1, <1>9, StartsBuffer, Zenon
    <2>2. SealPublic(bits, policy, n) = g \o MarshalTPM2B(n)
      BY <1>9 DEF SealPublic, HeadOf
    <2> QED
      BY <1>5, <2>1, <2>2
  <1>12. SubSeq(t, 1, Len(t) - 2) = g
    <2>1. /\ Length(t) = Length(g) + Length(e) /\ Length(g) \in Nat
          /\ Slice(t, 1, Length(g)) = g
      <3>1. /\ Length(g \o e) = Length(g) + Length(e) /\ Length(g) \in Nat
            /\ Slice(g \o e, 1, Length(g)) = g
        BY <1>10, Beginning, Ending, Zenon
      <3> QED
        BY <1>11, <3>1
    <2>2. PICK m : m = Length(t) - 2
      OBVIOUS
    <2>3. m = Length(g)
      BY <1>10, <2>1, <2>2
    <2>4. SubSeq(t, 1, m) = g
      BY <2>1, <2>3, Zenon DEF Slice
    <2>5. m = Len(t) - 2
      BY <2>2, Zenon DEF Length
    <2> QED
      BY <2>4, <2>5, Zenon
  <1>13. g \o u = SealedArea(sealObjectAttributes, secret)
    BY <1>1, <1>9, Zenon DEF SealedArea, SealPublic, HeadOf
  <1> QED
    BY <1>1, <1>6, <1>7, <1>8, <1>9, <1>12, <1>13, Zenon

\* A secret is sealed on the device.
IsSealing(x, secret) ==
  /\ secret \in Secrets /\ objects.srk # None /\ blob = None
  /\ x.command = Create(Handle.srk, secret, SealedPolicy) /\ x.about = secret
  /\ x.meant = Says(<<Handle.srk>>, PW,
                    <<Empty \o MarshalTPM2B(secret), None, NoData, PutU32(0)>>)

\* The creation of a sealed object is read as it is meant, and answered with it;
\* or refused, when there is nothing to seal.
LEMMA SealFits ==
  ASSUME Hashes, Here, NEW x, NEW secret, IsSealing(x, secret)
  PROVE  Fits(x)
  <1>1. PICK h, t, e, z, n, ps, ms :
          /\ h = Handle.srk /\ t = SealPublic(sealObjectAttributes, SealedPolicy, <<>>)
          /\ e = Empty \o MarshalTPM2B(secret) /\ z = PutU32(0) /\ n = <<>>
          /\ ps = <<e, t, n, z>> /\ ms = <<e, None, n, z>>
    OBVIOUS
  <1>2. /\ secret \in Secrets /\ objects.srk # None /\ blob = None
        /\ x.command = Create(h, secret, SealedPolicy) /\ x.about = secret
        /\ x.meant = Says(<<h>>, PW, ms)
    BY <1>1, Zenon DEF IsSealing, NoData
  <1>3. PICK p, area : p = Public(t) /\ area = SealedArea(sealObjectAttributes, secret)
    OBVIOUS
  <1>4. /\ IsSealedArea(p, t, sealObjectAttributes, SealedPolicy, n)
        /\ IsBuffer(t) /\ marshalSealPublic(SealedPolicy) = MarshalTPM2B(t)
        /\ SubSeq(t, 1, Len(t) - 2) \o MarshalTPM2B(Hash(Obfuscation \o secret)) = area
    BY <1>1, <1>2, <1>3, SealedTemplate, Zenon
  <1>5. h \in Octets /\ Length(h) = 4 /\ <<h>> \in Seq(Octets) /\ <<h>>[1] = h
    <2>1. h \in Octets /\ Length(h) = 4
      BY <1>1, HandlesOf, Zenon
    <2> QED
      BY <2>1, Values1to2, Zenon
  <1>6. Reading(x.command) = Says(<<h>>, PW, ps)
    <2>1. PICK policy : policy = SealedPolicy
      OBVIOUS
    <2>2. marshalSealPublic(policy) = MarshalTPM2B(t) /\ x.command = Create(h, secret, policy)
      BY <1>2, <1>4, <2>1, Zenon
    <2>3. Reading(Create(h, secret, policy))
            = Says(<<h>>, PW, <<Empty \o MarshalTPM2B(secret), t, <<>>, PutU32(0)>>)
      BY <1>2, <1>4, <1>5, <2>2, ReadsCreate, SMTT(20)
    <2> QED
      BY <1>1, <2>2, <2>3, Zenon
  <1>7. /\ ps \in Seq(Octets) /\ Len(ps) = Len(ms) /\ ps[1] = e /\ ps[2] = t
        /\ \A i \in DOMAIN ms : ms[i] \in {None, ps[i]}
    <2>1. e \in Octets /\ t \in Octets /\ n \in Octets /\ z \in Octets
      BY <1>1, <1>2, <1>4, SecretBuffers, Buffers, Lengths, U32s
    <2>2. ps = <<e, t, n, z>> /\ ms = <<e, None, n, z>>
      BY <1>1, Zenon
    <2> QED
      BY <2>1, <2>2, CreationValues
  <1>8. SaidBut(x, <<h>>, PW, ps, ms)
    BY <1>2, <1>5, <1>6, <1>7, Passwords, Zenon DEF SaidBut
  <1>9. PICK r, cc : r = Reading(x.command) /\ cc = x.command.cc
    OBVIOUS
  <1>10. Matches(x) /\ IsSaid(r, <<h>>, PW, ps)
    <2>1. Matches(x) /\ IsSaid(Reading(x.command), <<h>>, PW, ps)
      BY <1>8, MatchesBut, Zenon
    <2> QED
      BY <1>9, <2>1
  <1>11. cc = "Create"
    <2>1. \A a, s, d : Create(a, s, d).cc = "Create"
      BY DEF Create, Password
    <2> QED
      BY <1>2, <1>9, <2>1, Zenon
  <1>12. r # None /\ r.handles[1] = h /\ r.auths = PW /\ r.params[1] = e /\ r.params[2] = t
    BY <1>5, <1>7, <1>10, Zenon DEF IsSaid
  <1>13. Creation(r) # None /\ Creation(r)[2] = secret
    <2>1. PICK f : f = <<n, secret>>
      OBVIOUS
    <2>2. Starts(<<"2b">>, <<n>>, Empty) /\ Starts(<<"2b">>, <<secret>>, MarshalTPM2B(secret))
      BY <1>1, <1>2, BufferParameters, SecretBuffers, Zenon
    <2>3. Fields(<<"2b", "2b">>, e) = f
      <3>1. Starts(<<"2b", "2b">>, <<n, secret>>, e)
        BY <1>1, <2>2, StartsTwo, Zenon
      <3> QED
        BY <2>1, <3>1, StartsFields
    <2>4. n \in Octets /\ secret \in Octets
      BY <1>1, <1>2, Lengths, SecretBuffers, Buffers, Zenon
    <2>5. f # None /\ f[2] = secret
      BY <2>1, <2>4, FewFields
    <2> QED
      BY <1>12, <2>3, <2>5, Zenon DEF Creation
  <1>14. CASE secret = <<>>
    <2>1. ~Creatable(p, secret)
      <3>1. p.bits = sealObjectAttributes
        BY <1>4, Zenon DEF IsSealedArea
      <3> QED
        BY <1>14, <3>1 DEF Creatable, sealObjectAttributes, objFixedTPM, objFixedParent,
             objSensitiveDataOrigin
    <2>2. ~Valid(cc, r)
      BY <1>3, <1>11, <1>12, <1>13, <2>1 DEF Valid
    <2>3. ~Acceptable(x)
      BY <1>2, <1>9, <1>11, <1>14, Zenon DEF Acceptable
    <2> QED
      BY <1>9, <1>10, <2>2, <2>3, RefusedFits, Zenon DEF Accepts
  <1>15. CASE secret # <<>>
    <2>1. Accepts(cc, r)
      <3>1. Authorized(cc, r)
        BY <1>1, <1>2, <1>11, <1>12, KeysAtHand, Zenon
      <3>2. IsParent(r.handles[1])
        BY <1>1, <1>2, <1>12, KeysAtHand, Zenon
      <3>3. p # None /\ Creatable(p, secret)
        <4>1. p # None /\ p.sealed = TRUE /\ p.symmetric = FALSE /\ p.scheme = FALSE
              /\ p.bits = sealObjectAttributes
          BY <1>4, Zenon DEF IsSealedArea
        <4> QED
          BY <1>15, <4>1 DEF Creatable, sealObjectAttributes, objFixedTPM, objFixedParent,
               objSensitiveDataOrigin, objRestricted, objDecrypt, objSign
      <3>4. Valid(cc, r)
        BY <1>3, <1>11, <1>12, <1>13, <3>2, <3>3 DEF Valid
      <3> QED
        BY <1>12, <3>1, <3>4, Zenon DEF Accepts
    <2>2. Acceptable(x)
      <3>1. cc # "PCR_Extend" /\ cc # "ActivateCredential"
        BY <1>11
      <3> QED
        BY <1>2, <1>9, <1>15, <3>1, Zenon DEF Acceptable, Readable
    <2>3. PICK priv : priv = Private(marshalSealSensitive(Obfuscation, secret), area)
      OBVIOUS
    <2>4. Output(cc, r) = [priv |-> priv, pub |-> area]
      BY <1>4, <1>11, <1>12, <1>13, <2>3 DEF Output
    <2>5. [priv |-> priv, pub |-> area] \in Outputs
      <3>1. priv \in Octets /\ area \in Octets
        <4>1. sealObjectAttributes \in SealedBits
          BY Zenon DEF SealedBits
        <4> QED
          BY <1>2, <1>3, <2>3, <4>1, SealedPrivate, SealedAreas, Buffers, Zenon
      <3> QED
        BY <3>1, Zenon DEF Outputs
    <2>6. KeptBlob(x, [priv |-> priv, pub |-> area]) = SealedBlob(sealObjectAttributes, secret)
      BY <1>2, <1>3, <1>9, <1>11, <2>3 DEF KeptBlob, SealedBlob
    <2>7. IsSealedBlob(SealedBlob(sealObjectAttributes, secret))
      BY <1>2, Zenon DEF IsSealedBlob, SealedBits
    <2>8. IsKeeping(x, cc, r)
      BY <1>2, <1>9, <1>10, <1>11, <1>12, <2>1, <2>2, <2>4, <2>5, <2>6, <2>7, Zenon
        DEF IsKeeping
    <2> QED
      BY <2>8, KeepingFits, Zenon
  <1> QED
    BY <1>14, <1>15, Zenon

\* A secret is sealed, from a state that is consistent to another.
LEMMA SealStep ==
  ASSUME Hashes, Consistent, Seal
  PROVE  Consistent'
  <1>1. PICK secret \in Secrets :
          /\ objects.srk # None /\ blob = None
          /\ Send(Create(Handle.srk, secret, PolicyPCRDigest(Selection, PCRValues)),
                  Says(<<Handle.srk>>, PW,
                       <<Empty \o MarshalTPM2B(secret), None, NoData, PutU32(0)>>), secret)
    BY Zenon DEF Seal
  <1>2. PICK command, meant, x :
          /\ command = Create(Handle.srk, secret, SealedPolicy)
          /\ meant = Says(<<Handle.srk>>, PW,
                          <<Empty \o MarshalTPM2B(secret), None, NoData, PutU32(0)>>)
          /\ x = Request(command, meant, secret)
    OBVIOUS
  <1>3. Send(command, meant, secret)
    BY <1>1, <1>2, Zenon DEF SealedPolicy
  <1>4. x.command = command /\ x.meant = meant /\ x.about = secret
    BY <1>2, Zenon DEF Request
  <1>5. Here
    BY <1>3, Idle, Zenon
  <1>6. IsSealing(x, secret)
    BY <1>1, <1>2, <1>4, Zenon DEF IsSealing
  <1>7. Fits(x)
    BY <1>5, <1>6, SealFits, Zenon
  <1> QED
    BY <1>2, <1>3, <1>7, SendsFit, Zenon

\* The point of a key is on the curve, however its coordinates are written.
LEMMA PointsOnCurve ==
  ASSUME NEW k \in Keys, NEW pt \in Points(Numbers[k])
  PROVE  /\ Numbers[k] \in Nat /\ pt.x \in {Bytes(PointX(Numbers[k])), PutU16(PointX(Numbers[k]))}
         /\ IsOnCurve(SetBytes(pt.x), SetBytes(pt.y))
  <1>1. PICK m : m = Numbers[k]
    OBVIOUS
  <1>2. m \in Nat /\ m % Prime # 0
    BY <1>1, CommandsAssumption DEF Keys
  <1>3. PICK a, b : a = PointX(m) /\ b = PointY(m)
    OBVIOUS
  <1>4. a \in Nat /\ b \in Nat /\ a < Prime /\ b < Prime
    BY <1>2, <1>3, PointsOfKeys, Zenon
  <1>5. pt \in {[x |-> Bytes(a), y |-> Bytes(b)], [x |-> PutU16(a), y |-> PutU16(b)]}
    BY <1>1, <1>3, Zenon DEF Points
  <1>6. pt.x \in {Bytes(a), PutU16(a)} /\ pt.y \in {Bytes(b), PutU16(b)}
    BY <1>5
  <1>7. SetBytes(pt.x) = a /\ SetBytes(pt.y) = b
    BY <1>4, <1>6, NumberOctets
  <1>8. IsOnCurve(a, b)
    BY <1>2, <1>3, OnCurve, Zenon
  <1> QED
    BY <1>1, <1>2, <1>3, <1>6, <1>7, <1>8, Zenon

\* A secret that is wrapped for the SRK away from the device: what the device is
\* sent, and what it takes out of it.
IsWrapped(wrap, secret, area, dup, seed) ==
  /\ area = SealedArea(importSealAttributes, secret)
  /\ IsBuffer(dup) /\ IsBuffer(seed)
  /\ wrap.objectPublic = area /\ wrap.duplicate = MarshalTPM2B(dup)
  /\ wrap.inSymSeed = MarshalTPM2B(seed)
  /\ Unwrapped(labelDuplicate, Numbers.srk, ObjectName(area), dup, seed)
       = marshalSealSensitive(Obfuscation, secret)

\* The device takes the sensitive part out of what WrapToPCR makes for its SRK.
LEMMA WrapsForSRK ==
  ASSUME Hashes, NEW secret \in Secrets, NEW eph \in Ephemerals, NEW pt \in Points(Numbers.srk)
  PROVE  \E area, dup, seed :
           IsWrapped(WrapToPCR(pt, secret, Selection, PCRValues, Obfuscation, eph),
                     secret, area, dup, seed)
  <1>1. PICK k, area, name, plain :
          /\ k = Numbers.srk /\ area = SealedArea(importSealAttributes, secret)
          /\ name = ObjectName(area) /\ plain = marshalSealSensitive(Obfuscation, secret)
    OBVIOUS
  <1>2. k \in Nat /\ pt.x \in {Bytes(PointX(k)), PutU16(PointX(k))}
        /\ IsOnCurve(SetBytes(pt.x), SetBytes(pt.y))
    <2>1. PICK j \in Keys : j = "srk"
      BY Zenon DEF Keys
    <2>2. Numbers[j] = k
      BY <1>1, <2>1
    <2>3. pt \in Points(Numbers[j])
      BY <2>1
    <2>4. /\ Numbers[j] \in Nat
          /\ pt.x \in {Bytes(PointX(Numbers[j])), PutU16(PointX(Numbers[j]))}
          /\ IsOnCurve(SetBytes(pt.x), SetBytes(pt.y))
      BY <2>3, PointsOnCurve
    <2> QED
      BY <2>2, <2>4
  <1>3. area \in Octets
    <2>1. importSealAttributes \in SealedBits
      BY Zenon DEF SealedBits
    <2> QED
      BY <1>1, <2>1, SealedAreas, Buffers, Zenon
  <1>4. name \in Octets
    <2>1. Hash(area) \in Octets /\ algSHA256 \in Octets
      BY <1>3, Digests, Algorithms, Zenon
    <2> QED
      BY <1>1, <2>1, ConcatType, Zenon DEF ObjectName
  <1>5. plain \in Octets /\ Length(plain) + 70 <= Most
    <2>1. plain \in Octets /\ Length(plain) = 8 + DigestSize + Length(secret)
      BY <1>1, SensitiveParts, Zenon
    <2>2. Length(secret) \in Nat /\ Length(secret) <= MaxSecret
      BY SecretBuffers, Zenon
    <2> QED
      BY <2>1, <2>2, Digests, Limits, SecretLimits, SMT
  <1>6. labelDuplicate \in Octets
    <2>1. 68 \in Octet
      BY DEF Octet
    <2> QED
      BY <2>1, FewOctets, Zenon DEF labelDuplicate
  <1>7. eph \in Nat
    BY CommandsAssumption
  <1>8. WrapParts(labelDuplicate, pt.x, k, eph, name, plain)
    BY <1>2, <1>4, <1>5, <1>6, <1>7, Zenon DEF WrapParts
  <1>9. PICK px, wrapped : px = pt.x /\ wrapped = Wrapped(labelDuplicate, px, eph, name, plain)
    OBVIOUS
  <1>10. PICK dup, seed :
           /\ IsBuffer(dup) /\ IsBuffer(seed)
           /\ wrapped = [blob |-> MarshalTPM2B(dup), secret |-> MarshalTPM2B(seed)]
           /\ Unwrapped(labelDuplicate, k, name, dup, seed) = plain
    <2>1. WrapParts(labelDuplicate, px, k, eph, name, plain)
      BY <1>8, <1>9, Zenon
    <2>2. \E outer, sent :
            /\ IsBuffer(outer) /\ IsBuffer(sent)
            /\ Wrapped(labelDuplicate, px, eph, name, plain)
                 = [blob |-> MarshalTPM2B(outer), secret |-> MarshalTPM2B(sent)]
            /\ Unwrapped(labelDuplicate, k, name, outer, sent) = plain
      BY <2>1, WrapOpens
    <2> QED
      BY <1>9, <2>2, Zenon
  <1>11. PICK wrap : wrap = WrapToPCR(pt, secret, Selection, PCRValues, Obfuscation, eph)
    OBVIOUS
  <1>12. wrap = [objectPublic |-> area, duplicate |-> wrapped.blob, inSymSeed |-> wrapped.secret]
    BY <1>1, <1>2, <1>9, <1>11 DEF WrapToPCR, marshalImportSealPublic, SealedArea,
       SealedPolicy, importObjectName
  <1>13. IsWrapped(wrap, secret, area, dup, seed)
    BY <1>1, <1>10, <1>12, Zenon DEF IsWrapped
  <1> QED
    BY <1>11, <1>13, Zenon

\* What an import is to say, the parts of the wrap left open.
AreImportValues(n, a, d, s, z, ps, ms) ==
  /\ n \in Octets /\ a \in Octets /\ d \in Octets /\ s \in Octets /\ z \in Octets
  /\ ps = <<n, a, d, s, z>> /\ ms = <<n, a, None, None, z>>

\* The parameters of an import, in their places.
LEMMA ImportValues ==
  ASSUME NEW n, NEW a, NEW d, NEW s, NEW z, NEW ps, NEW ms,
         AreImportValues(n, a, d, s, z, ps, ms)
  PROVE  /\ ps \in Seq(Octets) /\ Len(ps) = Len(ms)
         /\ \A i \in DOMAIN ms : ms[i] \in {None, ps[i]}
         /\ ps[1] = n /\ ps[2] = a /\ ps[3] = d /\ ps[4] = s /\ ps[5] = z
  <1>1. ps \in Seq(Octets)
    BY DEF AreImportValues
  <1>2. Len(ps) = 5 /\ ps[1] = n /\ ps[2] = a /\ ps[3] = d /\ ps[4] = s /\ ps[5] = z
    BY DEF AreImportValues
  <1>3. Len(ms) = 5 /\ DOMAIN ms = 1..5
    BY DEF AreImportValues
  <1>4. ms[1] = n /\ ms[2] = a /\ ms[3] = None /\ ms[4] = None /\ ms[5] = z
    BY DEF AreImportValues
  <1>5. \A i \in DOMAIN ms : i = 1 \/ i = 2 \/ i = 3 \/ i = 4 \/ i = 5
    BY <1>3
  <1>6. \A i \in DOMAIN ms : ms[i] \in {None, ps[i]}
    BY <1>2, <1>4, <1>5, Zenon
  <1> QED
    BY <1>1, <1>2, <1>3, <1>6, Zenon

\* The wrap is imported.
IsImport(x, secret, area, dup, seed, n) ==
  /\ secret \in Secrets /\ objects.srk # None /\ blob = None /\ n = <<>>
  /\ area = SealedArea(importSealAttributes, secret) /\ IsBuffer(dup) /\ IsBuffer(seed)
  /\ x.command = Import(Handle.srk, area, MarshalTPM2B(dup), MarshalTPM2B(seed))
  /\ x.meant = Says(<<Handle.srk>>, PW, <<n, area, None, None, algNull>>)
  /\ x.about = [pub |-> area, secret |-> secret]
  /\ Unwrapped(labelDuplicate, Numbers.srk, ObjectName(area), dup, seed)
       = marshalSealSensitive(Obfuscation, secret)

\* The import of a wrap is read as it is meant, and answered with its object.
LEMMA ImportFits ==
  ASSUME Hashes, Here, NEW x, NEW secret, NEW area, NEW dup, NEW seed, NEW n,
         IsImport(x, secret, area, dup, seed, n)
  PROVE  Fits(x)
  <1>1. PICK h, z, s, about, ps, ms :
          /\ h = Handle.srk /\ z = algNull /\ s = marshalSealSensitive(Obfuscation, secret)
          /\ about = [pub |-> area, secret |-> secret]
          /\ ps = <<n, area, dup, seed, z>> /\ ms = <<n, area, None, None, z>>
    OBVIOUS
  <1>2. /\ secret \in Secrets /\ objects.srk # None /\ blob = None /\ n = <<>>
        /\ area = SealedArea(importSealAttributes, secret) /\ IsBuffer(dup) /\ IsBuffer(seed)
        /\ x.command = Import(h, area, MarshalTPM2B(dup), MarshalTPM2B(seed))
        /\ x.meant = Says(<<h>>, PW, ms) /\ x.about = about
        /\ Unwrapped(labelDuplicate, Numbers.srk, ObjectName(area), dup, seed) = s
    BY <1>1, Zenon DEF IsImport
  <1>3. importSealAttributes \in SealedBits
    BY Zenon DEF SealedBits
  <1>4. PICK p : p = Public(area)
    OBVIOUS
  <1>5. /\ p # None /\ p.sealed = TRUE /\ p.bits = importSealAttributes /\ IsBuffer(area)
    BY <1>2, <1>3, <1>4, SealedAreas, Zenon DEF IsSealedArea
  <1>6. h \in Octets /\ Length(h) = 4 /\ <<h>> \in Seq(Octets) /\ <<h>>[1] = h
    <2>1. h \in Octets /\ Length(h) = 4
      BY <1>1, HandlesOf, Zenon
    <2> QED
      BY <2>1, Values1to2, Zenon
  <1>7. Reading(x.command) = Says(<<h>>, PW, ps)
    <2>1. Reading(Import(h, area, MarshalTPM2B(dup), MarshalTPM2B(seed)))
            = Says(<<h>>, PW, << <<>>, area, dup, seed, algNull>>)
      BY <1>2, <1>5, <1>6, ReadsImport
    <2> QED
      BY <1>1, <1>2, <2>1, Zenon
  <1>8. /\ ps \in Seq(Octets) /\ Len(ps) = Len(ms)
        /\ \A i \in DOMAIN ms : ms[i] \in {None, ps[i]}
        /\ ps[1] = n /\ ps[2] = area /\ ps[3] = dup /\ ps[4] = seed /\ ps[5] = z
    <2>1. /\ n \in Octets /\ area \in Octets /\ dup \in Octets /\ seed \in Octets
          /\ z \in Octets
      BY <1>1, <1>2, <1>5, Buffers, Lengths, Algorithms, Zenon
    <2>2. AreImportValues(n, area, dup, seed, z, ps, ms)
      BY <1>1, <2>1, Zenon DEF AreImportValues
    <2> QED
      BY <2>2, ImportValues
  <1>9. SaidBut(x, <<h>>, PW, ps, ms)
    BY <1>2, <1>6, <1>7, <1>8, Passwords, Zenon DEF SaidBut
  <1>10. PICK r, cc : r = Reading(x.command) /\ cc = x.command.cc
    OBVIOUS
  <1>11. Matches(x) /\ IsSaid(r, <<h>>, PW, ps)
    <2>1. Matches(x) /\ IsSaid(Reading(x.command), <<h>>, PW, ps)
      BY <1>9, MatchesBut, Zenon
    <2> QED
      BY <1>10, <2>1
  <1>12. cc = "Import"
    <2>1. \A a, b, c, d : Import(a, b, c, d).cc = "Import"
      BY DEF Import, Password
    <2> QED
      BY <1>2, <1>10, <2>1, Zenon
  <1>13. /\ r # None /\ r.handles[1] = h /\ r.auths = PW /\ r.params[1] = n
         /\ r.params[2] = area /\ r.params[3] = dup /\ r.params[4] = seed
         /\ r.params[5] = z
    BY <1>6, <1>8, <1>11, Zenon DEF IsSaid
  <1>14. Imported(r) = s /\ s # None
    <2>1. s \in Octets
      BY <1>1, <1>2, SensitiveParts, Zenon
    <2> QED
      BY <1>2, <1>13, <2>1, NoneAssumption, Zenon DEF Imported
  <1>15. Accepts(cc, r)
    <2>1. Authorized(cc, r)
      BY <1>1, <1>2, <1>12, <1>13, KeysAtHand, Zenon
    <2>2. IsParent(r.handles[1])
      BY <1>1, <1>2, <1>13, KeysAtHand, Zenon
    <2>3. Importable(p)
      BY <1>5 DEF Importable, importSealAttributes
    <2>4. r.params[1] = <<>> <=> r.params[5] = algNull
      BY <1>1, <1>2, <1>13, Zenon
    <2>5. Public(r.params[2]) = p
      BY <1>4, <1>13, Zenon
    <2>6. Valid(cc, r)
      BY <1>5, <1>12, <1>14, <2>2, <2>3, <2>4, <2>5 DEF Valid
    <2> QED
      BY <1>13, <2>1, <2>6, Zenon DEF Accepts
  <1>16. PICK priv : priv = Private(s, area)
    OBVIOUS
  <1>17. Output(cc, r) = priv
    BY <1>12, <1>13, <1>14, <1>16 DEF Output
  <1>18. priv \in Outputs
    <2>1. IsBuffer(priv)
      BY <1>1, <1>2, <1>3, <1>16, SealedPrivate
    <2> QED
      BY <2>1, Buffers, Zenon DEF Outputs
  <1>19. KeptBlob(x, priv) = SealedBlob(importSealAttributes, secret)
    <2>1. x.about.pub = area /\ x.about.secret = secret
      <3>1. about.pub = area /\ about.secret = secret
        BY <1>1
      <3> QED
        BY <1>2, <3>1, Zenon
    <2>2. KeptBlob(x, priv) = [priv |-> priv, pub |-> area, secret |-> secret]
      BY <1>10, <1>12, <2>1 DEF KeptBlob
    <2> QED
      BY <1>1, <1>2, <1>16, <2>2, Zenon DEF SealedBlob
  <1>20. IsSealedBlob(SealedBlob(importSealAttributes, secret))
    BY <1>2, <1>3, Zenon DEF IsSealedBlob
  <1>21. Acceptable(x)
    BY <1>10, <1>12, Unconditional, Zenon DEF Conditional
  <1>22. IsKeeping(x, cc, r)
    BY <1>2, <1>10, <1>11, <1>12, <1>13, <1>15, <1>17, <1>18, <1>19, <1>20, <1>21, Zenon
      DEF IsKeeping
  <1> QED
    BY <1>22, KeepingFits, Zenon

\* A wrap is imported, from a state that is consistent to another.
LEMMA ImportStep ==
  ASSUME Hashes, Consistent, ImportWrapped
  PROVE  Consistent'
  <1>0. PICK secret \in Secrets, eph \in Ephemerals, pt \in Points(Numbers.srk) :
          LET w == WrapToPCR(pt, secret, Selection, PCRValues, Obfuscation, eph)
          IN /\ objects.srk # None /\ blob = None
             /\ Send(Import(Handle.srk, w.objectPublic, w.duplicate, w.inSymSeed),
                     Says(<<Handle.srk>>, PW, <<NoData, w.objectPublic, None, None, algNull>>),
                     [pub |-> w.objectPublic, secret |-> secret])
    BY Zenon DEF ImportWrapped
  <1>1. PICK wrap :
          /\ wrap = WrapToPCR(pt, secret, Selection, PCRValues, Obfuscation, eph)
          /\ objects.srk # None /\ blob = None
          /\ Send(Import(Handle.srk, wrap.objectPublic, wrap.duplicate, wrap.inSymSeed),
                  Says(<<Handle.srk>>, PW, <<NoData, wrap.objectPublic, None, None, algNull>>),
                  [pub |-> wrap.objectPublic, secret |-> secret])
    BY <1>0, Zenon
  <1>2. PICK area, dup, seed : IsWrapped(wrap, secret, area, dup, seed)
    BY <1>1, WrapsForSRK, Zenon
  <1>3. PICK n, command, meant, about, x :
          /\ n = <<>>
          /\ command = Import(Handle.srk, area, MarshalTPM2B(dup), MarshalTPM2B(seed))
          /\ meant = Says(<<Handle.srk>>, PW, <<n, area, None, None, algNull>>)
          /\ about = [pub |-> area, secret |-> secret]
          /\ x = Request(command, meant, about)
    OBVIOUS
  <1>4. Send(command, meant, about)
    BY <1>1, <1>2, <1>3, Zenon DEF IsWrapped, NoData
  <1>5. x.command = command /\ x.meant = meant /\ x.about = about
    BY <1>3, Zenon DEF Request
  <1>6. Here
    BY <1>4, Idle, Zenon
  <1>7. IsImport(x, secret, area, dup, seed, n)
    BY <1>1, <1>2, <1>3, <1>5, Zenon DEF IsImport, IsWrapped
  <1>8. Fits(x)
    BY <1>6, <1>7, ImportFits, Zenon
  <1> QED
    BY <1>3, <1>4, <1>8, SendsFit, Zenon

\* A sealed object that is loaded is what the device says it is.
LEMMA ItemLoaded ==
  ASSUME Hashes, NEW bits \in SealedBits, NEW secret \in Secrets, NEW b,
         b = SealedBlob(bits, secret)
  PROVE  /\ ItemObject(b) = [public |-> Public(SealedArea(bits, secret)), data |-> secret]
         /\ ItemObject(b) # None
         /\ ItemObject(b).public.policy = SealedPolicy /\ ItemObject(b).data = secret
  <1>1. PICK area, p : area = SealedArea(bits, secret) /\ p = Public(area)
    OBVIOUS
  <1>2. IsSealedArea(p, area, bits, SealedPolicy, Hash(Obfuscation \o secret))
    BY <1>1, SealedAreas, Zenon
  <1>3. p \in PublicAreas /\ p.policy = SealedPolicy
    BY <1>2, Zenon DEF IsSealedArea
  <1>4. b.pub = area /\ b.secret = secret
    <2>1. SealedBlob(bits, secret).pub = area /\ SealedBlob(bits, secret).secret = secret
      BY <1>1 DEF SealedBlob
    <2> QED
      BY <2>1, Zenon
  <1>5. PICK o : o = [public |-> p, data |-> secret]
    OBVIOUS
  <1>6. ItemObject(b) = o
    BY <1>1, <1>4, <1>5, Zenon DEF ItemObject
  <1>7. o # None
    <2>1. secret \in Octets
      BY SecretBuffers, Buffers, Zenon
    <2>2. o \in Loaded
      BY <1>3, <1>5, <2>1, Zenon DEF Loaded
    <2> QED
      BY <2>2, AnswersAssumption, Zenon
  <1>8. o.public = p /\ o.data = secret
    BY <1>5
  <1> QED
    BY <1>1, <1>3, <1>5, <1>6, <1>7, <1>8, Zenon

\* The object that the program keeps is loaded.
IsLoading(x, bits, secret, b) ==
  /\ bits \in SealedBits /\ secret \in Secrets
  /\ objects.srk # None /\ blob = b /\ b # None /\ item = None
  /\ b = SealedBlob(bits, secret)
  /\ x.command = Load(Handle.srk, b.priv, b.pub) /\ x.about = b
  /\ x.meant = Says(<<Handle.srk>>, PW, <<b.priv, b.pub>>)

\* The load of a sealed object is read as it is meant, and loads that object.
LEMMA LoadFits ==
  ASSUME Hashes, Here, NEW x, NEW bits, NEW secret, NEW b, IsLoading(x, bits, secret, b)
  PROVE  Fits(x)
  <1>1. PICK h, s, area, priv, ps :
          /\ h = Handle.srk /\ s = marshalSealSensitive(Obfuscation, secret)
          /\ area = SealedArea(bits, secret) /\ priv = Private(s, area)
          /\ ps = <<priv, area>>
    OBVIOUS
  <1>2. b.priv = priv /\ b.pub = area
    <2>1. SealedBlob(bits, secret).priv = priv /\ SealedBlob(bits, secret).pub = area
      BY <1>1 DEF SealedBlob
    <2> QED
      BY <2>1, Zenon DEF IsLoading
  <1>3. /\ bits \in SealedBits /\ secret \in Secrets
        /\ objects.srk # None /\ blob = b /\ b # None /\ item = None
        /\ b = SealedBlob(bits, secret)
        /\ x.command = Load(h, priv, area) /\ x.about = b
        /\ x.meant = Says(<<h>>, PW, ps)
    BY <1>1, <1>2, Zenon DEF IsLoading
  <1>4. PICK p, unique : p = Public(area) /\ unique = Hash(Obfuscation \o secret)
    OBVIOUS
  <1>5. IsBuffer(area) /\ p # None /\ p.unique = unique
    BY <1>1, <1>3, <1>4, SealedAreas, Zenon DEF IsSealedArea
  <1>6. IsBuffer(priv) /\ Sensitive(priv, area) = SensitiveValues(secret)
    BY <1>1, <1>3, SealedPrivate
  <1>7. h \in Octets /\ Length(h) = 4 /\ <<h>> \in Seq(Octets) /\ <<h>>[1] = h
    <2>1. h \in Octets /\ Length(h) = 4
      BY <1>1, HandlesOf, Zenon
    <2> QED
      BY <2>1, Values1to2, Zenon
  <1>8. Reading(x.command) = Says(<<h>>, PW, ps)
    <2>1. Reading(Load(h, priv, area)) = Says(<<h>>, PW, <<priv, area>>)
      BY <1>5, <1>6, <1>7, ReadsLoad, Zenon
    <2> QED
      BY <1>1, <1>3, <2>1, Zenon
  <1>9. ps \in Seq(Octets) /\ ps[1] = priv /\ ps[2] = area
    BY <1>1, <1>5, <1>6, Buffers, Values1to2, Zenon
  <1>10. SaidBut(x, <<h>>, PW, ps, ps)
    BY <1>3, <1>7, <1>8, <1>9, Passwords, Zenon DEF SaidBut
  <1>11. PICK r, cc : r = Reading(x.command) /\ cc = x.command.cc
    OBVIOUS
  <1>12. Matches(x) /\ IsSaid(r, <<h>>, PW, ps)
    <2>1. Matches(x) /\ IsSaid(Reading(x.command), <<h>>, PW, ps)
      BY <1>10, MatchesBut, Zenon
    <2> QED
      BY <1>11, <2>1
  <1>13. cc = "Load"
    <2>1. \A a, d, e : Load(a, d, e).cc = "Load"
      BY DEF Load, Password
    <2> QED
      BY <1>3, <1>11, <2>1, Zenon
  <1>14. /\ r # None /\ r.handles[1] = h /\ r.auths = PW
         /\ r.params[1] = priv /\ r.params[2] = area
    BY <1>7, <1>9, <1>12, Zenon DEF IsSaid
  <1>15. PICK v : v = SensitiveValues(secret)
    OBVIOUS
  <1>16. v # None /\ v[3] = Obfuscation /\ v[4] = secret
    BY <1>3, <1>15, SensitiveParts, Zenon
  <1>17. /\ Public(r.params[2]) = p /\ Sensitive(r.params[1], r.params[2]) = v
    BY <1>4, <1>6, <1>14, <1>15, Zenon
  <1>18. Accepts(cc, r)
    <2>1. Authorized(cc, r)
      BY <1>1, <1>3, <1>13, <1>14, KeysAtHand, Zenon
    <2>2. IsParent(r.handles[1])
      BY <1>1, <1>3, <1>14, KeysAtHand, Zenon
    <2>3. Len(v[3]) = DigestSize /\ p.unique = Hash(v[3] \o v[4])
      BY <1>4, <1>5, <1>16, Obfuscated, Zenon DEF Length
    <2>4. Valid(cc, r)
      BY <1>5, <1>13, <1>16, <1>17, <2>2, <2>3 DEF Valid
    <2> QED
      BY <1>14, <2>1, <2>4, Zenon DEF Accepts
  <1>19. PICK objs, o : objs = ObjectsAfter(cc, r) /\ o = ItemObject(b)
    OBVIOUS
  <1>20. objs = [objects EXCEPT !.item = o]
    <2>1. objs = [objects EXCEPT !.item = [public |-> Public(r.params[2]),
                                           data |-> Sensitive(r.params[1], r.params[2])[4]]]
      BY <1>13, <1>19 DEF ObjectsAfter
    <2>2. o = [public |-> p, data |-> secret]
      BY <1>1, <1>3, <1>4, <1>19, ItemLoaded
    <2> QED
      BY <1>16, <1>17, <2>1, <2>2, Zenon
  <1>21. World(objs, session, blob, b, opened)
    <2>1. objects = [j \in DOMAIN Handle |-> objects[j]]
      BY Zenon DEF Here, World
    <2>2. PICK d : d = DOMAIN Handle
      OBVIOUS
    <2>3. "item" \in d /\ Keys \subseteq d /\ "item" \notin Keys
      BY <2>2, HandleFacts DEF Keys
    <2>4. /\ objs = [j \in d |-> objs[j]] /\ objs.item = o
          /\ \A j \in d : j # "item" => objs[j] = objects[j]
      BY <1>20, <2>1, <2>2, <2>3
    <2>5. \A k \in Keys : objs[k] \in {None, KeyObject(k)}
      BY <2>3, <2>4, Zenon DEF Here, World
    <2> QED
      BY <1>3, <1>19, <2>2, <2>4, <2>5, Zenon DEF Here, World
  <1>22. /\ KeptBlob(x, <<>>) = blob /\ KeptItem(x) = b /\ KeptOpened(x) = opened
    BY <1>3, <1>11, <1>13 DEF KeptBlob, KeptItem, KeptOpened
  <1>23. Output(cc, r) = <<>> /\ <<>> \in Outputs
    BY <1>13 DEF Output, Outputs, Octets
  <1>24. SessionAfter(cc, r) = session
    BY <1>13, <1>14, Passwords, SessionKept
  <1>25. Answered(x, "success", <<>>, objs, session)
    <2>1. Acceptable(x) /\ cc \notin {"Unseal", "ActivateCredential", "PolicyGetDigest"}
      BY <1>11, <1>13, Unconditional, Zenon DEF Conditional
    <2> QED
      BY <1>11, <1>21, <1>22, <2>1, Zenon DEF Answered, Succeeds
  <1>26. Served(x, cc, r)
    BY <1>18, <1>19, <1>23, <1>24, <1>25, Zenon DEF Served
  <1> QED
    BY <1>11, <1>12, <1>26, Zenon DEF Fits

\* An object is loaded, from a state that is consistent to another.
LEMMA LoadStep ==
  ASSUME Hashes, Consistent, LoadItem
  PROVE  Consistent'
  <1>1. PICK b : b = blob
    OBVIOUS
  <1>2. PICK command, meant, x :
          /\ command = Load(Handle.srk, b.priv, b.pub)
          /\ meant = Says(<<Handle.srk>>, PW, <<b.priv, b.pub>>)
          /\ x = Request(command, meant, b)
    OBVIOUS
  <1>3. /\ Send(command, meant, b) /\ objects.srk # None /\ blob # None /\ item = None
    BY <1>1, <1>2, Zenon DEF LoadItem
  <1>4. x.command = command /\ x.meant = meant /\ x.about = b
    BY <1>2, Zenon DEF Request
  <1>5. Here
    BY <1>3, Idle, Zenon
  <1>6. PICK bits \in SealedBits, secret \in Secrets : b = SealedBlob(bits, secret)
    BY <1>1, <1>3, <1>5, Zenon DEF Here, World, IsSealedBlob
  <1>7. IsLoading(x, bits, secret, b)
    BY <1>1, <1>2, <1>3, <1>4, <1>6, Zenon DEF IsLoading
  <1>8. Fits(x)
    BY <1>5, <1>7, LoadFits, Zenon
  <1> QED
    BY <1>2, <1>3, <1>8, SendsFit, Zenon

\* The loaded object is unsealed: the session has its policy, and has none any
\* more when it has authorized the command.
IsUnsealing(x, bits, secret, n) ==
  /\ bits \in SealedBits /\ secret \in Secrets /\ opened = "PCR" /\ n = <<>>
  /\ item # None /\ item = SealedBlob(bits, secret)
  /\ x.command = Unseal(Handle.item, SessionHandle) /\ x.about = secret
  /\ x.meant = Says(<<Handle.item>>, <<SessionHandle>>, n)

\* Unseal is read as it is meant, and answered with the secret.
LEMMA UnsealFits ==
  ASSUME Hashes, Here, NEW x, NEW bits, NEW secret, NEW n, IsUnsealing(x, bits, secret, n)
  PROVE  Fits(x)
  <1>1. PICK h, s, hs, as : h = Handle.item /\ s = SessionHandle /\ hs = <<h>> /\ as = <<s>>
    OBVIOUS
  <1>2. /\ bits \in SealedBits /\ secret \in Secrets /\ opened = "PCR" /\ n = <<>>
        /\ item # None /\ item = SealedBlob(bits, secret)
        /\ x.command = Unseal(h, s) /\ x.about = secret
        /\ x.meant = Says(hs, as, n)
    BY <1>1, Zenon DEF IsUnsealing
  <1>3. PICK o, i : o = objects.item /\ i = item
    OBVIOUS
  <1>4. o = ItemObject(i)
    BY <1>2, <1>3, Zenon DEF Here, World
  <1>5. o # None /\ o.public.policy = SealedPolicy /\ o.data = secret
    <2>1. i = SealedBlob(bits, secret)
      BY <1>2, <1>3, Zenon
    <2> QED
      BY <1>2, <1>4, <2>1, ItemLoaded
  <1>6. /\ h \in Octets /\ Length(h) = 4 /\ s \in Octets /\ Length(s) = 4
        /\ n \in Seq(Octets)
    BY <1>1, <1>2, HandlesOf, Values1to2, Zenon
  <1>7. /\ hs \in Seq(Octets) /\ hs[1] = h /\ as \in Seq(Octets) /\ as[1] = s
    BY <1>1, <1>6, Values1to2, Zenon
  <1>8. DOMAIN as = {1}
    BY <1>1
  <1>9. Reading(x.command) = Says(hs, as, n)
    <2>1. Reading(Unseal(h, s)) = Says(<<h>>, <<s>>, <<>>)
      BY <1>6, ReadsUnseal
    <2> QED
      BY <1>1, <1>2, <2>1, Zenon
  <1>10. SaidBut(x, hs, as, n, n)
    BY <1>2, <1>6, <1>7, <1>9, Zenon DEF SaidBut
  <1>11. Matches(x) /\ IsSaid(Reading(x.command), hs, as, n)
    BY <1>10, MatchesBut, Zenon
  <1>12. PICK r, cc : r = Reading(x.command) /\ cc = x.command.cc
    OBVIOUS
  <1>13. cc = "Unseal"
    <2>1. \A a, b : Unseal(a, b).cc = "Unseal"
      BY DEF Unseal
    <2> QED
      BY <1>2, <1>12, <2>1, Zenon
  <1>14. r # None /\ r.handles[1] = h /\ r.auths = as
    BY <1>7, <1>11, <1>12, Zenon DEF IsSaid
  <1>15. Object(r.handles[1]) = o
    BY <1>1, <1>3, <1>14, HandleFacts
  <1>16. session = SealedPolicy /\ session # None
    BY <1>2, SessionHere, Zenon
  <1>17. Accepts(cc, r)
    <2>1. Permits(o.public, "user", SessionHandle)
      BY <1>5, <1>16, Zenon DEF Permits
    <2>2. \A i1 \in DOMAIN r.auths : i1 = 1 /\ r.auths[i1] = SessionHandle
      BY <1>1, <1>7, <1>8, <1>14, Zenon
    <2>3. cc # "ActivateCredential"
      BY <1>13
    <2>4. Authorized(cc, r)
      BY <1>5, <1>15, <2>1, <2>2, <2>3, Zenon DEF Authorized
    <2>5. Valid(cc, r)
      BY <1>5, <1>13, <1>15 DEF Valid
    <2> QED
      BY <1>14, <2>4, <2>5, Zenon DEF Accepts
  <1>18. ObjectsAfter(cc, r) = objects
    BY <1>13 DEF ObjectsAfter
  <1>19. Output(cc, r) = secret /\ secret \in Outputs
    <2>1. Output(cc, r) = secret
      BY <1>5, <1>13, <1>15 DEF Output
    <2> QED
      BY <1>2, <2>1, SecretBuffers, Buffers, Zenon DEF Outputs
  <1>20. SessionAfter(cc, r) = NoPolicy
    <2>1. \E i1 \in DOMAIN r.auths : r.auths[i1] = SessionHandle
      BY <1>1, <1>7, <1>8, <1>14, Zenon
    <2> QED
      BY <1>13, <2>1 DEF SessionAfter
  <1>21. /\ KeptBlob(x, secret) = blob /\ KeptItem(x) = item /\ KeptOpened(x) = "no policy"
    BY <1>12, <1>13 DEF KeptBlob, KeptItem, KeptOpened
  <1>22. World(objects, NoPolicy, blob, item, "no policy")
    <2>1. "no policy" \in Openings /\ SessionOf("no policy") = NoPolicy
      BY DEF Openings, SessionOf
    <2> QED
      BY <2>1, Zenon DEF Here, World
  <1>23. Answered(x, "success", secret, objects, NoPolicy)
    <2>1. Acceptable(x)
      BY <1>12, <1>13, Unconditional, Zenon DEF Conditional
    <2> QED
      BY <1>2, <1>12, <1>21, <1>22, <2>1, Zenon DEF Answered, Succeeds
  <1>24. Served(x, cc, r)
    BY <1>17, <1>18, <1>19, <1>20, <1>23, Zenon DEF Served
  <1> QED
    BY <1>11, <1>12, <1>24, Zenon DEF Fits

\* An object is unsealed, from a state that is consistent to another.
LEMMA UnsealStep ==
  ASSUME Hashes, Consistent, UnsealItem
  PROVE  Consistent'
  <1>1. PICK secret, n : secret = item.secret /\ n = <<>>
    OBVIOUS
  <1>2. PICK command, meant, x :
          /\ command = Unseal(Handle.item, SessionHandle)
          /\ meant = Says(<<Handle.item>>, <<SessionHandle>>, n)
          /\ x = Request(command, meant, secret)
    OBVIOUS
  <1>3. Send(command, meant, secret) /\ item # None /\ opened = "PCR"
    BY <1>1, <1>2, Zenon DEF UnsealItem
  <1>4. x.command = command /\ x.meant = meant /\ x.about = secret
    BY <1>2, Zenon DEF Request
  <1>5. Here
    BY <1>3, Idle, Zenon
  <1>6. PICK bits \in SealedBits, kept \in Secrets : item = SealedBlob(bits, kept)
    BY <1>3, <1>5, Zenon DEF Here, World, IsSealedBlob
  <1>7. kept = secret
    <2>1. SealedBlob(bits, kept).secret = kept
      BY DEF SealedBlob
    <2> QED
      BY <1>1, <1>6, <2>1, Zenon
  <1>8. IsUnsealing(x, bits, secret, n)
    BY <1>1, <1>2, <1>3, <1>4, <1>6, <1>7, Zenon DEF IsUnsealing
  <1>9. Fits(x)
    BY <1>5, <1>8, UnsealFits, Zenon
  <1> QED
    BY <1>2, <1>3, <1>9, SendsFit, Zenon

\* The AK and the EK as the device keeps them: their rules are those of their
\* templates, and the octets of the AK's public area are its Name's.
LEMMA KeysLoaded ==
  ASSUME Hashes, Here, NEW a, NEW e, a = objects.ak, e = objects.ek, a # None, e # None
  PROVE  /\ a.public.octets \in Octets /\ objAdminWithPolicy \notin a.public.bits
         /\ e.public.policy = ekAuthPolicy
  <1>1. "ak" \in Keys /\ "ek" \in Keys
    BY Zenon DEF Keys
  <1>2. a = KeyObject("ak") /\ e = KeyObject("ek")
    BY <1>1, KeysAtHand
  <1>3. a.public.octets \in Octets /\ objAdminWithPolicy \notin a.public.bits
    <2>1. PICK p, k, octets, y :
            /\ p = a.public /\ k = "ak"
            /\ IsKeyArea(p, octets, KeyBits(k), KeyPolicy(k), KeyCipher(k), KeyScheme(k), y)
      BY <1>1, <1>2, KeyObjects, Zenon
    <2>2. p \in PublicAreas
      BY <2>1, Zenon DEF IsKeyArea
    <2>3. p.octets \in Octets
      BY <2>2 DEF PublicAreas
    <2>4. objAdminWithPolicy \notin p.bits
      BY <1>1, <2>1, KeyRules
    <2> QED
      BY <2>1, <2>3, <2>4, Zenon
  <1>4. e.public.policy = ekAuthPolicy
    <2>1. PICK p, k, octets, y :
            /\ p = e.public /\ k = "ek"
            /\ IsKeyArea(p, octets, KeyBits(k), KeyPolicy(k), KeyCipher(k), KeyScheme(k), y)
      BY <1>1, <1>2, KeyObjects, Zenon
    <2>2. p.policy = KeyPolicy(k)
      BY <2>1, Zenon DEF IsKeyArea
    <2>3. KeyPolicy(k) = ekAuthPolicy
      BY <2>1 DEF KeyPolicy
    <2> QED
      BY <2>1, <2>2, <2>3, Zenon
  <1> QED
    BY <1>3, <1>4, Zenon

\* A credential that is bound away from the device: what the device is sent, and
\* what it takes out of it.
IsBound(mc, name, credential, outer, sent) ==
  /\ IsBuffer(outer) /\ IsBuffer(sent)
  /\ mc.blob = MarshalTPM2B(outer) /\ mc.secret = MarshalTPM2B(sent)
  /\ Unwrapped(labelIdentity, Numbers.ek, name, outer, sent) = credential

\* The device takes the credential out of what MakeCredential makes for its EK.
LEMMA BindsForEK ==
  ASSUME Hashes, NEW name \in Octets, NEW credential \in Secrets, NEW eph \in Ephemerals,
         NEW pt \in Points(Numbers.ek)
  PROVE  \E outer, sent :
           IsBound(MakeCredential(pt, name, credential, eph), name, credential, outer, sent)
  <1>1. PICK k : k = Numbers.ek
    OBVIOUS
  <1>2. k \in Nat /\ pt.x \in {Bytes(PointX(k)), PutU16(PointX(k))}
        /\ IsOnCurve(SetBytes(pt.x), SetBytes(pt.y))
    <2>1. PICK j \in Keys : j = "ek"
      BY Zenon DEF Keys
    <2>2. Numbers[j] = k
      BY <1>1, <2>1
    <2>3. pt \in Points(Numbers[j])
      BY <2>1
    <2>4. /\ Numbers[j] \in Nat
          /\ pt.x \in {Bytes(PointX(Numbers[j])), PutU16(PointX(Numbers[j]))}
          /\ IsOnCurve(SetBytes(pt.x), SetBytes(pt.y))
      BY <2>3, PointsOnCurve
    <2> QED
      BY <2>2, <2>4
  <1>3. credential \in Octets /\ Length(credential) + 70 <= Most
    <2>1. credential \in Octets /\ Length(credential) \in Nat /\ Length(credential) <= MaxSecret
      BY SecretBuffers, Buffers, Zenon
    <2> QED
      BY <2>1, Limits, SecretLimits, SMT
  <1>4. labelIdentity \in Octets
    <2>1. 73 \in Octet
      BY DEF Octet
    <2> QED
      BY <2>1, FewOctets, Zenon DEF labelIdentity
  <1>5. eph \in Nat
    BY CommandsAssumption
  <1>6. PICK px, mc : px = pt.x /\ mc = Wrapped(labelIdentity, px, eph, name, credential)
    OBVIOUS
  <1>7. WrapParts(labelIdentity, px, k, eph, name, credential)
    BY <1>2, <1>3, <1>4, <1>5, <1>6, Zenon DEF WrapParts
  <1>8. PICK outer, sent :
          /\ IsBuffer(outer) /\ IsBuffer(sent)
          /\ mc = [blob |-> MarshalTPM2B(outer), secret |-> MarshalTPM2B(sent)]
          /\ Unwrapped(labelIdentity, k, name, outer, sent) = credential
    <2>1. \E o, s :
            /\ IsBuffer(o) /\ IsBuffer(s)
            /\ Wrapped(labelIdentity, px, eph, name, credential)
                 = [blob |-> MarshalTPM2B(o), secret |-> MarshalTPM2B(s)]
            /\ Unwrapped(labelIdentity, k, name, o, s) = credential
      BY <1>7, WrapOpens
    <2> QED
      BY <1>6, <2>1, Zenon
  <1>9. MakeCredential(pt, name, credential, eph) = mc
    BY <1>2, <1>6 DEF MakeCredential
  <1>10. IsBound(mc, name, credential, outer, sent)
    BY <1>1, <1>8, Zenon DEF IsBound
  <1> QED
    BY <1>9, <1>10, Zenon

\* The credential is activated: the AK's administrator has its empty password, the
\* EK's user the policy of its session.
IsActivation(x, credential, name, outer, sent) ==
  /\ credential \in Secrets /\ opened = "secret"
  /\ objects.ak # None /\ objects.ek # None /\ name = ObjectName(objects.ak.public.octets)
  /\ IsBuffer(outer) /\ IsBuffer(sent)
  /\ x.command = ActivateCredential(Handle.ak, Handle.ek, SessionHandle,
                                    MarshalTPM2B(outer), MarshalTPM2B(sent))
  /\ x.meant = Says(<<Handle.ak, Handle.ek>>, <<TPM_RS_PW, SessionHandle>>, <<None, None>>)
  /\ x.about = credential
  /\ Unwrapped(labelIdentity, Numbers.ek, name, outer, sent) = credential

\* ActivateCredential is read as it is meant, and answered with the credential;
\* or refused, when the credential is longer than a digest.
LEMMA ActivateFits ==
  ASSUME Hashes, Here, NEW x, NEW credential, NEW name, NEW outer, NEW sent,
         IsActivation(x, credential, name, outer, sent)
  PROVE  Fits(x)
  <1>1. PICK h, e, s, w, hs, as, ps, ms :
          /\ h = Handle.ak /\ e = Handle.ek /\ s = SessionHandle /\ w = TPM_RS_PW
          /\ hs = <<h, e>> /\ as = <<w, s>> /\ ps = <<outer, sent>> /\ ms = <<None, None>>
    OBVIOUS
  <1>2. /\ credential \in Secrets /\ opened = "secret"
        /\ objects.ak # None /\ objects.ek # None
        /\ name = ObjectName(objects.ak.public.octets)
        /\ IsBuffer(outer) /\ IsBuffer(sent)
        /\ x.command = ActivateCredential(h, e, s, MarshalTPM2B(outer), MarshalTPM2B(sent))
        /\ x.meant = Says(hs, as, ms) /\ x.about = credential
        /\ Unwrapped(labelIdentity, Numbers.ek, name, outer, sent) = credential
    BY <1>1, Zenon DEF IsActivation
  <1>3. PICK ak, ek : ak = objects.ak /\ ek = objects.ek
    OBVIOUS
  <1>4. /\ objAdminWithPolicy \notin ak.public.bits /\ ek.public.policy = ekAuthPolicy
        /\ ak # None /\ ek # None
    BY <1>2, <1>3, KeysLoaded
  <1>5. /\ h \in Octets /\ Length(h) = 4 /\ e \in Octets /\ Length(e) = 4
        /\ s \in Octets /\ Length(s) = 4 /\ w \in Octets
        /\ outer \in Octets /\ sent \in Octets
    BY <1>1, <1>2, HandlesOf, Buffers, Zenon
  <1>6. /\ hs \in Seq(Octets) /\ hs[1] = h /\ hs[2] = e
        /\ as \in Seq(Octets) /\ as[1] = w /\ as[2] = s
        /\ ps \in Seq(Octets) /\ ps[1] = outer /\ ps[2] = sent
    BY <1>1, <1>5, Values1to2, Zenon
  <1>7. /\ Len(ps) = Len(ms) /\ \A i \in DOMAIN ms : ms[i] \in {None, ps[i]}
        /\ DOMAIN as = {1, 2}
    <2>1. Len(ps) = 2 /\ Len(ms) = 2 /\ DOMAIN as = {1, 2}
      BY <1>1
    <2>2. \A i \in DOMAIN ms : ms[i] = None
      BY <1>1
    <2> QED
      BY <2>1, <2>2, Zenon
  <1>8. Reading(x.command) = Says(hs, as, ps)
    <2>1. Reading(ActivateCredential(h, e, s, MarshalTPM2B(outer), MarshalTPM2B(sent)))
            = Says(<<h, e>>, <<TPM_RS_PW, s>>, <<outer, sent>>)
      BY <1>2, <1>5, ReadsActivateCredential
    <2> QED
      BY <1>1, <1>2, <2>1, Zenon
  <1>9. SaidBut(x, hs, as, ps, ms)
    BY <1>2, <1>6, <1>7, <1>8, Zenon DEF SaidBut
  <1>10. Matches(x) /\ IsSaid(Reading(x.command), hs, as, ps)
    BY <1>9, MatchesBut, Zenon
  <1>11. PICK r, cc : r = Reading(x.command) /\ cc = x.command.cc
    OBVIOUS
  <1>12. cc = "ActivateCredential"
    <2>1. \A a, b, c, d, f : ActivateCredential(a, b, c, d, f).cc = "ActivateCredential"
      BY DEF ActivateCredential
    <2> QED
      BY <1>2, <1>11, <2>1, Zenon
  <1>13. /\ r # None /\ r.handles[1] = h /\ r.handles[2] = e /\ r.auths = as
         /\ r.params[1] = outer /\ r.params[2] = sent
    BY <1>6, <1>10, <1>11, Zenon DEF IsSaid
  <1>14. Object(r.handles[1]) = ak /\ Object(r.handles[2]) = ek
    BY <1>1, <1>3, <1>13, ObjectsOfHandles, Zenon
  <1>15. session = ekAuthPolicy /\ session # None
    BY <1>2, SessionHere, Zenon
  <1>16. CertInfo(r) = credential /\ credential \in Octets /\ credential # None
    <2>1. CertInfo(r) = credential
      BY <1>2, <1>3, <1>13, <1>14, Zenon DEF CertInfo
    <2>2. credential \in Octets
      BY <1>2, SecretBuffers, Buffers, Zenon
    <2> QED
      BY <2>1, <2>2, NoneAssumption, Zenon
  <1>17. CASE Len(credential) <= DigestSize
    <2>1. Permits(ak.public, "admin", w)
      BY <1>1, <1>4 DEF Permits
    <2>2. Permits(ek.public, "user", s)
      BY <1>1, <1>4, <1>15, Zenon DEF Permits
    <2>3. ASSUME NEW i \in DOMAIN r.auths
          PROVE  /\ Object(r.handles[i]) # None
                 /\ Permits(Object(r.handles[i]).public,
                            IF cc = "ActivateCredential" /\ i = 1 THEN "admin" ELSE "user",
                            r.auths[i])
      <3>1. i \in {1, 2} /\ r.auths[1] = w /\ r.auths[2] = s
        BY <1>6, <1>7, <1>13, Zenon
      <3>2. CASE i = 1
        BY <1>4, <1>12, <1>14, <2>1, <3>1, <3>2
      <3>3. CASE i = 2
        BY <1>4, <1>12, <1>14, <2>2, <3>1, <3>3
      <3> QED
        BY <3>1, <3>2, <3>3, Zenon
    <2>4. Authorized(cc, r)
      BY <2>3, Zenon DEF Authorized
    <2>5. Valid(cc, r)
      BY <1>12, <1>16, <1>17 DEF Valid
    <2>6. Accepts(cc, r)
      BY <1>13, <2>4, <2>5, Zenon DEF Accepts
    <2>7. Acceptable(x)
      <3>1. cc # "PCR_Extend" /\ cc # "Create"
        BY <1>12
      <3> QED
        BY <1>2, <1>11, <1>17, <3>1, Zenon DEF Acceptable, Readable
    <2>8. ObjectsAfter(cc, r) = objects
      BY <1>12 DEF ObjectsAfter
    <2>9. Output(cc, r) = credential /\ credential \in Outputs
      <3>1. Output(cc, r) = credential
        BY <1>12, <1>16 DEF Output
      <3> QED
        BY <1>16, <3>1, Zenon DEF Outputs
    <2>10. SessionAfter(cc, r) = NoPolicy
      <3>1. \E i \in DOMAIN r.auths : r.auths[i] = SessionHandle
        <4>1. 2 \in DOMAIN r.auths /\ r.auths[2] = SessionHandle
          BY <1>1, <1>6, <1>7, <1>13
        <4> QED
          BY <4>1, Zenon
      <3> QED
        BY <1>12, <3>1 DEF SessionAfter
    <2>11. /\ KeptBlob(x, credential) = blob /\ KeptItem(x) = item
           /\ KeptOpened(x) = "no policy"
      BY <1>11, <1>12 DEF KeptBlob, KeptItem, KeptOpened
    <2>12. World(objects, NoPolicy, blob, item, "no policy")
      <3>1. "no policy" \in Openings /\ SessionOf("no policy") = NoPolicy
        BY DEF Openings, SessionOf
      <3> QED
        BY <3>1, Zenon DEF Here, World
    <2>13. Answered(x, "success", credential, objects, NoPolicy)
      BY <1>2, <1>11, <2>7, <2>11, <2>12, Zenon DEF Answered, Succeeds
    <2>14. Served(x, cc, r)
      BY <2>6, <2>8, <2>9, <2>10, <2>13, Zenon DEF Served
    <2> QED
      BY <1>10, <1>11, <2>14, Zenon DEF Fits
  <1>18. CASE ~(Len(credential) <= DigestSize)
    <2>1. ~Valid(cc, r)
      BY <1>12, <1>16, <1>18 DEF Valid
    <2>2. ~Acceptable(x)
      BY <1>2, <1>11, <1>12, <1>18, Zenon DEF Acceptable
    <2> QED
      BY <1>10, <1>11, <2>1, <2>2, RefusedFits, Zenon DEF Accepts
  <1> QED
    BY <1>17, <1>18, Zenon

\* A credential is activated, from a state that is consistent to another.
LEMMA ActivateStep ==
  ASSUME Hashes, Consistent, Activate
  PROVE  Consistent'
  <1>1. PICK name : name = ObjectName(objects.ak.public.octets)
    OBVIOUS
  <1>2. PICK credential \in Secrets, eph \in Ephemerals, pt \in Points(Numbers.ek) :
          LET mc == MakeCredential(pt, name, credential, eph)
          IN /\ objects.ak # None /\ objects.ek # None /\ opened = "secret"
             /\ Send(ActivateCredential(Handle.ak, Handle.ek, SessionHandle, mc.blob, mc.secret),
                     Says(<<Handle.ak, Handle.ek>>, <<TPM_RS_PW, SessionHandle>>,
                          <<None, None>>),
                     credential)
    BY <1>1, Zenon DEF Activate
  <1>3. PICK mc :
          /\ mc = MakeCredential(pt, name, credential, eph)
          /\ objects.ak # None /\ objects.ek # None /\ opened = "secret"
          /\ Send(ActivateCredential(Handle.ak, Handle.ek, SessionHandle, mc.blob, mc.secret),
                  Says(<<Handle.ak, Handle.ek>>, <<TPM_RS_PW, SessionHandle>>,
                       <<None, None>>),
                  credential)
    BY <1>2, Zenon
  <1>4. Here
    BY <1>3, Idle, Zenon
  <1>5. name \in Octets
    <2>1. PICK o : o = objects.ak.public.octets
      OBVIOUS
    <2>2. o \in Octets
      BY <1>3, <1>4, <2>1, KeysLoaded
    <2>3. Hash(o) \in Octets /\ algSHA256 \in Octets
      BY <2>2, Digests, Algorithms, Zenon
    <2> QED
      BY <1>1, <2>1, <2>3, ConcatType, Zenon DEF ObjectName
  <1>6. PICK outer, sent : IsBound(mc, name, credential, outer, sent)
    BY <1>3, <1>5, BindsForEK, Zenon
  <1>7. PICK command, meant, x :
          /\ command = ActivateCredential(Handle.ak, Handle.ek, SessionHandle,
                                          MarshalTPM2B(outer), MarshalTPM2B(sent))
          /\ meant = Says(<<Handle.ak, Handle.ek>>, <<TPM_RS_PW, SessionHandle>>,
                          <<None, None>>)
          /\ x = Request(command, meant, credential)
    OBVIOUS
  <1>8. Send(command, meant, credential)
    BY <1>3, <1>6, <1>7, Zenon DEF IsBound
  <1>9. x.command = command /\ x.meant = meant /\ x.about = credential
    BY <1>7, Zenon DEF Request
  <1>10. IsActivation(x, credential, name, outer, sent)
    BY <1>1, <1>3, <1>6, <1>7, <1>9, Zenon DEF IsActivation, IsBound
  <1>11. Fits(x)
    BY <1>4, <1>10, ActivateFits, Zenon
  <1> QED
    BY <1>7, <1>8, <1>11, SendsFit, Zenon

-----------------------------------------------------------------------------
(* The theorems.                                                           *)

\* The first state is consistent: no object, no session, nothing sent.
LEMMA ConsistentInit ==
  ASSUME Init
  PROVE  Consistent
  <1>1. /\ objects = [k \in DOMAIN Handle |-> None] /\ session = None
        /\ blob = None /\ item = None /\ opened = "nothing"
        /\ request = None /\ reply = None
    BY Zenon DEF Init
  <1>2. objects = [k \in DOMAIN Handle |-> objects[k]] /\ \A k \in DOMAIN Handle : objects[k] = None
    BY <1>1
  <1>3. Keys \subseteq DOMAIN Handle /\ "item" \in DOMAIN Handle
    BY HandleFacts DEF Keys
  <1>4. SessionOf(opened) = None /\ opened \in Openings
    BY <1>1 DEF SessionOf, Openings
  <1>5. World(objects, session, blob, item, opened)
    <2>1. objects.item = (IF item = None THEN None ELSE ItemObject(item))
      BY <1>1, <1>2, <1>3, Zenon
    <2> QED
      BY <1>1, <1>2, <1>3, <1>4, <2>1, Zenon DEF World
  <1> QED
    BY <1>1, <1>5, Zenon DEF Consistent

\* A step that changes nothing leaves it consistent.
LEMMA ConsistentStutter ==
  ASSUME Consistent, UNCHANGED vars
  PROVE  Consistent'
  <1>1. /\ objects' = objects /\ session' = session /\ blob' = blob /\ item' = item
        /\ opened' = opened /\ request' = request /\ reply' = reply
    BY Zenon DEF vars, device, program
  <1>2. PICK x, cc, r, rc, out, objs, sess :
          /\ x = request /\ cc = request.command.cc /\ r = Reading(request.command)
          /\ rc = reply.rc /\ out = reply.out /\ objs = objects /\ sess = session
    OBVIOUS
  <1>3. (request # None => Matches(request))'
    BY <1>1, Zenon DEF Consistent, Matches
  <1>4. ((request # None /\ reply = None) =>
           Served(request, request.command.cc, Reading(request.command)))'
    <2>1. CASE request # None /\ reply = None
      <3>1. Served(x, cc, r)
        BY <1>2, <2>1, Zenon DEF Consistent
      <3>2. Served(x, cc, r)'
        BY <1>1, <3>1, ServedStays, Zenon
      <3> QED
        BY <1>1, <1>2, <3>2, Zenon DEF Served, Accepts
    <2> QED
      BY <1>1, <2>1, Zenon
  <1>5. (reply # None => Answered(request, reply.rc, reply.out, objects, session))'
    <2>1. CASE reply # None
      <3>1. Answered(x, rc, out, objs, sess)
        BY <1>2, <2>1, Zenon DEF Consistent
      <3>2. Answered(x, rc, out, objs, sess)'
        BY <1>1, <3>1, AnsweredStays, Zenon
      <3> QED
        BY <1>1, <1>2, <3>2, Zenon DEF Answered
    <2> QED
      BY <1>1, <2>1, Zenon
  <1>6. (request = None => reply = None)' /\ (reply = None => World(objects, session, blob, item, opened))'
    BY <1>1, Zenon DEF Consistent, World
  <1> QED
    BY <1>3, <1>4, <1>5, <1>6, Zenon DEF Consistent

\* Device and program agree throughout: the objects and the session that the
\* program believes the device to have are the ones it has, every request is read
\* as it is meant, and the device does with it what the program counts on.
THEOREM ConsistentAlways == Hashes => (Spec => []Consistent)
  <1> SUFFICES ASSUME Hashes
               PROVE  Spec => []Consistent
    OBVIOUS
  <1>1. Init => Consistent
    BY ConsistentInit, Zenon
  <1>2. Consistent /\ [Next]_vars => Consistent'
    <2> SUFFICES ASSUME Consistent, [Next]_vars
                 PROVE  Consistent'
      OBVIOUS
    <2>1. CASE Housekeeping
      BY <2>1, HousekeepingStep, Zenon
    <2>2. CASE Extend
      BY <2>2, ExtendStep, Zenon
    <2>3. CASE NVCommands
      BY <2>3, NVStep, Zenon
    <2>4. CASE Primaries
      BY <2>4, PrimariesStep, Zenon
    <2>5. CASE Attest
      BY <2>5, AttestStep, Zenon
    <2>6. CASE Seal
      BY <2>6, SealStep, Zenon
    <2>7. CASE ImportWrapped
      BY <2>7, ImportStep, Zenon
    <2>8. CASE LoadItem
      BY <2>8, LoadStep, Zenon
    <2>9. CASE Sessions
      BY <2>9, SessionsStep, Zenon
    <2>10. CASE UnsealItem
      BY <2>10, UnsealStep, Zenon
    <2>11. CASE Activate
      BY <2>11, ActivateStep, Zenon
    <2>12. CASE Device
      BY <2>12, Serves, Zenon
    <2>13. CASE Return
      BY <2>13, Returns, Zenon
    <2>14. CASE UNCHANGED vars
      BY <2>14, ConsistentStutter, Zenon
    <2> QED
      BY <2>1, <2>2, <2>3, <2>4, <2>5, <2>6, <2>7, <2>8, <2>9, <2>10, <2>11, <2>12, <2>13,
         <2>14, Zenon DEF Next
  <1> QED
    BY <1>1, <1>2, PTL DEF Spec

\* The device reads of every command its handles, its sessions and the values that
\* the caller gave: what every body of the library is for.  PCR_Extend is among
\* them, with a digest of its algorithm's length.
THEOREM UnderstoodAlways == Hashes => (Spec => []Understood)
  <1>1. Consistent => Understood
    BY Zenon DEF Consistent, Matches, Understood
  <1> QED
    BY <1>1, ConsistentAlways, PTL

\* The device refuses no command of the library but these, and it refuses these:
\* PCR_Extend with a digest of the wrong length, the creation of an object for an
\* empty secret, and the activation of a credential longer than a digest.
THEOREM NoneRefusedAlways == Hashes => (Spec => []NoneRefused)
  <1>1. Consistent => NoneRefused
    <2>1. SUFFICES ASSUME Consistent, reply # None
                   PROVE  reply.rc = "success" <=> Acceptable(request)
      BY Zenon DEF NoneRefused
    <2>2. Answered(request, reply.rc, reply.out, objects, session)
      BY <2>1, Zenon DEF Consistent
    <2> QED
      BY <2>2 DEF Answered, Succeeds, Fails
  <1> QED
    BY <1>1, ConsistentAlways, PTL

\* What is unsealed and activated is what was sealed, wrapped or bound, and the
\* device's policy digest is the one that was computed away from it.
THEOREM SecretsIntactAlways == Hashes => (Spec => []SecretsIntact)
  <1>1. Consistent => SecretsIntact
    <2>1. SUFFICES ASSUME Consistent, reply # None, reply.rc = "success",
                          request.command.cc \in {"Unseal", "ActivateCredential",
                                                  "PolicyGetDigest"}
                   PROVE  reply.out = request.about
      BY Zenon DEF SecretsIntact
    <2>2. Answered(request, reply.rc, reply.out, objects, session)
      BY <2>1, Zenon DEF Consistent
    <2> QED
      BY <2>1, <2>2 DEF Answered, Succeeds
  <1> QED
    BY <1>1, ConsistentAlways, PTL
=============================================================================
