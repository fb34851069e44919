---------------------------- MODULE WrapsProofs ----------------------------
(***************************************************************************)
(* What is written can be read: strings of fields, of buffers, numbers and *)
(* selections come apart into what they were put together from, and the    *)
(* device takes out of a wrap what was put into it.                        *)
(*                                                                         *)
(* A string starts with fields (Starts) when a reading of the fields takes *)
(* it from the front of every string that it stands at, and leaves the     *)
(* rest.  That is kept by concatenation, so that a body is taken apart by  *)
(* taking apart its fields.                                                *)
(***************************************************************************)
EXTENDS Wraps, SequenceTheorems, WellFoundedInduction, TLAPS

\* A set of numbers that is not empty has a least one.
LEMMA Least ==
  ASSUME NEW T \in SUBSET Nat, T # {}
  PROVE  \E m \in T : \A k \in T : m <= k
  <1> DEFINE R == OpToRel(<, Nat)
  <1>1. IsWellFoundedOn(R, Nat)
    BY NatLessThanWellFounded
  <1>2. \A x, y \in Nat : x < y => <<x, y>> \in R
    BY DEF OpToRel
  <1> HIDE DEF R
  <1>3. PICK m \in T : \A k \in T : ~ (<<k, m>> \in R)
    BY <1>1, WFMin
  <1>4. ASSUME NEW k \in T PROVE m <= k
    <2>1. k \in Nat /\ m \in Nat
      OBVIOUS
    <2>2. ~ (k < m)
      BY <1>2, <1>3, <2>1
    <2> QED
      BY <2>1, <2>2
  <1> QED
    BY <1>4

\* Induction, over a set of numbers.
LEMMA Induction ==
  ASSUME NEW S \in SUBSET Nat, 0 \in S, \A n \in S : n + 1 \in S
  PROVE  S = Nat
  <1> SUFFICES ASSUME Nat \ S # {} PROVE FALSE
    OBVIOUS
  <1>1. PICK m \in Nat \ S : \A k \in Nat \ S : m <= k
    BY Least
  <1>2. m # 0 /\ m - 1 \in Nat /\ m - 1 \in S
    BY <1>1
  <1> QED
    BY <1>1, <1>2

-----------------------------------------------------------------------------
(* Reading fields.                                                         *)
Kinds == {"u8", "u16", "u32", "2b", "4b", "symmetric", "scheme", "pcrs", "digests",
          "rest"}

\* A run of the fields of these kinds up to field n.
Reads(r, kinds, start, n) ==
  r = [i \in 0..n |-> IF i = 0 THEN start ELSE Taken(r[i - 1], kinds[i])]

\* What is left after the fields of these kinds, and what has been got.
After(kinds, start) ==
  (CHOOSE r : Reads(r, kinds, start, Len(kinds)))[Len(kinds)]

\* There is one run.
LEMMA RunExists ==
  ASSUME NEW kinds, NEW start, NEW n \in Nat
  PROVE  \E r : Reads(r, kinds, start, n)
  <1> DEFINE S == {m \in Nat : \E r : Reads(r, kinds, start, m)}
  <1>1. 0 \in S
    <2> DEFINE r == [i \in 0..0 |-> start]
    <2>1. Reads(r, kinds, start, 0)
      BY DEF Reads
    <2> QED
      BY <2>1
  <1>2. ASSUME NEW m \in S PROVE m + 1 \in S
    <2>1. PICK r : Reads(r, kinds, start, m)
      OBVIOUS
    <2> DEFINE q == [i \in 0..(m + 1) |-> IF i = m + 1 THEN Taken(r[m], kinds[m + 1])
                                          ELSE r[i]]
    <2>2. m \in Nat
      OBVIOUS
    <2>3. r = [i \in 0..m |-> IF i = 0 THEN start ELSE Taken(r[i - 1], kinds[i])]
      BY <2>1 DEF Reads
    <2>4. \A i \in 0..(m + 1) :
            q[i] = IF i = 0 THEN start ELSE Taken(q[i - 1], kinds[i])
      <3> SUFFICES ASSUME NEW i \in 0..(m + 1)
                   PROVE  q[i] = IF i = 0 THEN start ELSE Taken(q[i - 1], kinds[i])
        OBVIOUS
      <3>1. CASE i = 0
        BY <3>1, <2>2, <2>3
      <3>2. CASE i \in 1..m
        <4>1. i - 1 \in 0..m /\ i - 1 \in 0..(m + 1) /\ i - 1 # m + 1 /\ i # m + 1
              /\ i \in 0..m /\ i # 0
          BY <3>2, <2>2
        <4>2. q[i] = r[i] /\ q[i - 1] = r[i - 1]
          BY <4>1
        <4> QED
          BY <2>3, <4>1, <4>2
      <3>3. CASE i = m + 1
        <4>1. i - 1 = m /\ m \in 0..(m + 1) /\ m # m + 1 /\ i # 0
          BY <3>3, <2>2
        <4> QED
          BY <3>3, <4>1
      <3> QED
        BY <3>1, <3>2, <3>3, <2>2
    <2>5. Reads(q, kinds, start, m + 1)
      BY <2>4 DEF Reads
    <2> QED
      BY <2>2, <2>5
  <1> HIDE DEF S
  <1>3. S = Nat
    BY <1>1, <1>2, Induction DEF S
  <1> QED
    BY <1>3 DEF S

\* And only one.
LEMMA RunUnique ==
  ASSUME NEW kinds, NEW start, NEW n \in Nat, NEW r, NEW q,
         Reads(r, kinds, start, n), Reads(q, kinds, start, n)
  PROVE  r = q
  <1>1. /\ r = [i \in 0..n |-> IF i = 0 THEN start ELSE Taken(r[i - 1], kinds[i])]
        /\ q = [i \in 0..n |-> IF i = 0 THEN start ELSE Taken(q[i - 1], kinds[i])]
    BY DEF Reads
  <1> DEFINE S == {m \in Nat : m <= n => r[m] = q[m]}
  <1>2. 0 \in S
    BY <1>1
  <1>3. ASSUME NEW m \in S PROVE m + 1 \in S
    <2>1. m \in Nat /\ m + 1 \in Nat
      OBVIOUS
    <2>2. CASE m + 1 <= n
      <3>1. m <= n /\ m + 1 \in 0..n /\ m + 1 # 0 /\ (m + 1) - 1 = m
        BY <2>1, <2>2
      <3>2. r[m] = q[m]
        BY <3>1
      <3> QED
        BY <1>1, <2>1, <3>1, <3>2
    <2> QED
      BY <2>1, <2>2
  <1> HIDE DEF S
  <1>4. S = Nat
    BY <1>2, <1>3, Induction DEF S
  <1>5. \A i \in 0..n : r[i] = q[i]
    BY <1>4 DEF S
  <1> QED
    BY <1>1, <1>5

\* What the end of any run is.
LEMMA AfterRun ==
  ASSUME NEW kinds, Len(kinds) \in Nat, NEW start, NEW r,
         Reads(r, kinds, start, Len(kinds))
  PROVE  After(kinds, start) = r[Len(kinds)]
  <1>1. Reads(CHOOSE q : Reads(q, kinds, start, Len(kinds)), kinds, start, Len(kinds))
    OBVIOUS
  <1> QED
    BY <1>1, RunUnique DEF After

\* What the fields are.
LEMMA FieldsAfter ==
  ASSUME NEW kinds, Len(kinds) \in Nat, NEW octets
  PROVE  LET a == After(kinds, [got |-> <<>>, left |-> octets])
         IN Fields(kinds, octets) = IF a.left = <<>> THEN a.got ELSE None
  <1> DEFINE start == [got |-> <<>>, left |-> octets]
             run   == CHOOSE r : Reads(r, kinds, start, Len(kinds))
  <1>1. \E r : Reads(r, kinds, start, Len(kinds))
    BY RunExists
  <1>2. Reads(run, kinds, start, Len(kinds))
    BY <1>1
  <1>3. After(kinds, start) = run[Len(kinds)]
    BY DEF After
  <1>4. run = CHOOSE r : r = [n \in 0..Len(kinds) |->
                                IF n = 0 THEN start ELSE Taken(r[n - 1], kinds[n])]
    BY Zenon DEF Reads
  <1> HIDE DEF run
  <1>5. Fields(kinds, octets) = IF run[Len(kinds)].left = <<>> THEN run[Len(kinds)].got
                                ELSE None
    BY <1>4 DEF Fields
  <1> QED
    BY <1>3, <1>5

\* When nothing is left they are what has been got.
LEMMA FieldsGot ==
  ASSUME NEW kinds, Len(kinds) \in Nat, NEW octets, NEW values,
         After(kinds, [got |-> <<>>, left |-> octets]) = [got |-> values, left |-> <<>>]
  PROVE  Fields(kinds, octets) = values
  BY FieldsAfter

\* Fields after fields.
LEMMA AfterConcat ==
  ASSUME NEW a \in Seq(Kinds), NEW b \in Seq(Kinds), NEW start
  PROVE  After(a \o b, start) = After(b, After(a, start))
  <1> DEFINE n == Len(a)
             m == Len(b)
  <1>1. n \in Nat /\ m \in Nat /\ Len(a \o b) = n + m
    BY ConcatProperties, LenProperties
  <1>2. /\ \A i \in 1..n : (a \o b)[i] = a[i]
        /\ \A i \in (n + 1)..(n + m) : (a \o b)[i] = b[i - n]
    BY <1>1, ConcatProperties
  <1> DEFINE c == a \o b
  <1> HIDE DEF c
  <1>3. PICK r : Reads(r, a, start, n)
    BY <1>1, RunExists
  <1>4. PICK q : Reads(q, b, r[n], m)
    BY <1>1, RunExists
  <1> DEFINE t == [i \in 0..(n + m) |-> IF i <= n THEN r[i] ELSE q[i - n]]
  <1>5. /\ r = [i \in 0..n |-> IF i = 0 THEN start ELSE Taken(r[i - 1], a[i])]
        /\ q = [i \in 0..m |-> IF i = 0 THEN r[n] ELSE Taken(q[i - 1], b[i])]
    BY <1>3, <1>4 DEF Reads
  <1> HIDE DEF n, m
  <1>6. ASSUME NEW i \in 0..(n + m)
        PROVE  t[i] = IF i = 0 THEN start ELSE Taken(t[i - 1], c[i])
    <2>1. CASE i = 0
      BY <2>1, <1>1, <1>5
    <2>2. CASE i \in 1..n
      <3>1. i - 1 \in 0..(n + m) /\ i - 1 <= n /\ i <= n /\ i \in 0..n /\ i # 0
        BY <2>2, <1>1
      <3>2. t[i] = r[i] /\ t[i - 1] = r[i - 1] /\ c[i] = a[i]
        BY <3>1, <2>2, <1>2 DEF c
      <3> QED
        BY <1>5, <3>1, <3>2
    <2>3. CASE i = n + 1
      <3>1. i - 1 = n /\ n \in 0..(n + m) /\ n <= n /\ ~(i <= n) /\ i - n = 1 /\ i # 0
            /\ 1 \in 0..m /\ i \in (n + 1)..(n + m) /\ 1 - 1 = 0 /\ 0 \in 0..m
        BY <2>3, <1>1
      <3>2. t[i] = q[1] /\ t[i - 1] = r[n] /\ c[i] = b[1]
        BY <3>1, <1>2 DEF c
      <3>3. q[1] = Taken(q[0], b[1]) /\ q[0] = r[n]
        <4>1. \A j \in 0..m : q[j] = IF j = 0 THEN r[n] ELSE Taken(q[j - 1], b[j])
          BY <1>5
        <4>2. q[0] = r[n]
          BY <3>1, <4>1
        <4>3. q[1] = Taken(q[1 - 1], b[1])
          BY <3>1, <4>1
        <4> QED
          BY <3>1, <4>2, <4>3
      <3> QED
        BY <3>1, <3>2, <3>3
    <2>4. CASE i \in (n + 2)..(n + m)
      <3>1. i - 1 \in 0..(n + m) /\ ~(i - 1 <= n) /\ ~(i <= n) /\ i # 0 /\ i - n \in 0..m
            /\ i - n # 0 /\ i \in (n + 1)..(n + m) /\ (i - 1) - n = (i - n) - 1
        BY <2>4, <1>1
      <3>2. t[i] = q[i - n] /\ t[i - 1] = q[(i - n) - 1] /\ c[i] = b[i - n]
        BY <3>1, <1>2 DEF c
      <3>3. q[i - n] = Taken(q[(i - n) - 1], b[i - n])
        BY <1>5, <3>1
      <3> QED
        BY <3>1, <3>2, <3>3
    <2> QED
      BY <2>1, <2>2, <2>3, <2>4, <1>1
  <1>7. Reads(t, c, start, n + m)
    BY <1>6 DEF Reads
  <1>8. After(c, start) = t[n + m]
    <2>1. Len(c) = n + m /\ Len(c) \in Nat
      BY <1>1 DEF c
    <2> HIDE DEF t
    <2>2. Reads(t, c, start, Len(c))
      BY <2>1, <1>7
    <2> QED
      BY <2>1, <2>2, AfterRun
  <1>9. After(a, start) = r[n] /\ After(b, r[n]) = q[m]
    BY <1>1, <1>3, <1>4, AfterRun DEF n, m
  <1>10. t[n + m] = q[m]
    <2>1. CASE m = 0
      BY <2>1, <1>1, <1>5
    <2>2. CASE m # 0
      <3>1. n + m \in 0..(n + m) /\ ~(n + m <= n) /\ (n + m) - n = m
        BY <2>2, <1>1
      <3> QED
        BY <3>1
    <2> QED
      BY <2>1, <2>2
  <1> QED
    BY <1>8, <1>9, <1>10 DEF c

\* No fields, and one.
LEMMA AfterFew ==
  ASSUME NEW start, NEW k
  PROVE  After(<<>>, start) = start /\ After(<<k>>, start) = Taken(start, k)
  <1>1. After(<<>>, start) = start
    <2> DEFINE r == [i \in 0..0 |-> start]
    <2>1. Reads(r, <<>>, start, 0)
      BY DEF Reads
    <2>2. Len(<<>>) = 0
      OBVIOUS
    <2> QED
      BY <2>1, <2>2, AfterRun
  <1>2. After(<<k>>, start) = Taken(start, k)
    <2> DEFINE r == [i \in 0..1 |-> IF i = 0 THEN start ELSE Taken(start, k)]
    <2>1. \A i \in 0..1 : r[i] = IF i = 0 THEN start ELSE Taken(r[i - 1], <<k>>[i])
      OBVIOUS
    <2>2. Reads(r, <<k>>, start, 1)
      BY <2>1 DEF Reads
    <2>3. Len(<<k>>) = 1 /\ r[1] = Taken(start, k)
      OBVIOUS
    <2> QED
      BY <2>2, <2>3, AfterRun
  <1> QED
    BY <1>1, <1>2

\* Octets that start with fields of these kinds and values, whatever follows.
Starts(kinds, values, octets) ==
  /\ kinds \in Seq(Kinds) /\ values \in Seq(Octets) /\ octets \in Octets
  /\ \A rest \in Octets, g \in Seq(Octets) :
       After(kinds, [got |-> g, left |-> octets \o rest]) = [got |-> g \o values, left |-> rest]

\* A string after a string is a string.
LEMMA ConcatType ==
  ASSUME NEW a \in Octets, NEW b \in Octets
  PROVE  a \o b \in Octets
  BY ConcatProperties, Zenon DEF Octets

\* However strings are joined.
LEMMA ConcatTwice ==
  ASSUME NEW a \in Octets, NEW b \in Octets, NEW c \in Octets
  PROVE  (a \o b) \o c = a \o (b \o c)
  BY ConcatAssociative DEF Octets

\* Fields that follow each other.
LEMMA StartsConcat ==
  ASSUME NEW ka, NEW va, NEW oa, Starts(ka, va, oa),
         NEW kb, NEW vb, NEW ob, Starts(kb, vb, ob)
  PROVE  Starts(ka \o kb, va \o vb, oa \o ob)
  <1>1. /\ ka \in Seq(Kinds) /\ va \in Seq(Octets) /\ oa \in Octets
        /\ kb \in Seq(Kinds) /\ vb \in Seq(Octets) /\ ob \in Octets
    BY DEF Starts
  <1>2. ka \o kb \in Seq(Kinds) /\ va \o vb \in Seq(Octets) /\ oa \o ob \in Octets
    BY <1>1, ConcatProperties DEF Octets
  <1>3. ASSUME NEW rest \in Octets, NEW g \in Seq(Octets)
        PROVE  After(ka \o kb, [got |-> g, left |-> (oa \o ob) \o rest])
                 = [got |-> g \o (va \o vb), left |-> rest]
    <2>1. (oa \o ob) \o rest = oa \o (ob \o rest) /\ ob \o rest \in Octets
      <3>1. ob \o rest \in Octets
        BY <1>1, ConcatType, Zenon
      <3>2. (oa \o ob) \o rest = oa \o (ob \o rest)
        BY <1>1, ConcatTwice, Zenon
      <3> QED
        BY <3>1, <3>2
    <2>2. g \o (va \o vb) = (g \o va) \o vb /\ g \o va \in Seq(Octets)
      <3>1. (g \o va) \o vb = g \o (va \o vb)
        BY <1>1, ConcatAssociative, SMTT(20)
      <3>2. g \o va \in Seq(Octets)
        BY <1>1, ConcatProperties, Zenon
      <3> QED
        BY <3>1, <3>2, Zenon
    <2>3. After(ka, [got |-> g, left |-> oa \o (ob \o rest)])
            = [got |-> g \o va, left |-> ob \o rest]
      BY <2>1 DEF Starts
    <2>4. After(kb, [got |-> g \o va, left |-> ob \o rest])
            = [got |-> (g \o va) \o vb, left |-> rest]
      BY <2>2 DEF Starts
    <2> QED
      BY <1>1, <2>1, <2>2, <2>3, <2>4, AfterConcat
  <1> QED
    BY <1>2, <1>3, Zenon DEF Starts

\* No fields.
LEMMA StartsEmpty == Starts(<<>>, <<>>, <<>>)
  <1>1. <<>> \in Seq(Kinds) /\ <<>> \in Seq(Octets) /\ <<>> \in Octets
    BY EmptySeq DEF Octets
  <1>2. ASSUME NEW rest \in Octets, NEW g \in Seq(Octets)
        PROVE  After(<<>>, [got |-> g, left |-> <<>> \o rest])
                 = [got |-> g \o <<>>, left |-> rest]
    <2>1. <<>> \o rest = rest /\ g \o <<>> = g
      BY ConcatEmptySeq DEF Octets
    <2> QED
      BY <2>1, AfterFew
  <1> QED
    BY <1>1, <1>2, Zenon DEF Starts

\* Octets that consist of fields.
LEMMA StartsFields ==
  ASSUME NEW kinds, NEW values, NEW octets, Starts(kinds, values, octets)
  PROVE  Fields(kinds, octets) = values
  <1>1. kinds \in Seq(Kinds) /\ values \in Seq(Octets) /\ octets \in Octets
        /\ Len(kinds) \in Nat
    BY LenProperties DEF Starts
  <1>2. <<>> \in Seq(Octets) /\ <<>> \in Octets
    BY EmptySeq DEF Octets
  <1>3. octets \o <<>> = octets /\ <<>> \o values = values
    BY <1>1, ConcatEmptySeq DEF Octets
  <1>4. After(kinds, [got |-> <<>>, left |-> octets]) = [got |-> values, left |-> <<>>]
    BY <1>2, <1>3 DEF Starts
  <1> QED
    BY <1>1, <1>4, FieldsGot, Zenon

\* One field, whose kind says how many octets are before its value and in it.
LEMMA StartsOne ==
  ASSUME NEW k \in Kinds, NEW h \in Nat, NEW n \in Nat, NEW octets \in Octets,
         Len(octets) = h + n,
         \A rest \in Octets : Size(k, octets \o rest) = <<h, n>>
  PROVE  Starts(<<k>>, <<SubSeq(octets, h + 1, h + n)>>, octets)
  <1> DEFINE value == SubSeq(octets, h + 1, h + n)
  <1>1. value \in Octets
    <2>1. \A i \in (h + 1)..(h + n) : octets[i] \in Octet
      BY ElementOfSeq DEF Octets
    <2> QED
      BY <2>1, SubSeqProperties DEF Octets
  <1>2. ASSUME NEW rest \in Octets, NEW g \in Seq(Octets)
        PROVE  Taken([got |-> g, left |-> octets \o rest], k)
                 = [got |-> g \o <<value>>, left |-> rest]
    <2> DEFINE b == octets \o rest
    <2>7. b \in Octets /\ Len(b) = Len(octets) + Len(rest) /\ Len(rest) \in Nat
      BY ConcatProperties, LenProperties DEF Octets
    <2>6. \A i \in 1..(Len(octets) + Len(rest)) :
            b[i] = IF i <= Len(octets) THEN octets[i] ELSE rest[i - Len(octets)]
      BY ConcatProperties DEF Octets
    <2>8. Size(k, b) = <<h, n>>
      OBVIOUS
    <2> HIDE DEF b
    <2>1. b \in Octets /\ b # None /\ Len(b) = (h + n) + Len(rest) /\ Len(rest) \in Nat
          /\ ~(Len(b) < h + n)
      <3>1. b # None
        BY <2>7, NoneAssumption, Zenon
      <3>2. Len(b) = (h + n) + Len(rest)
        BY <2>7, Zenon
      <3>3. ~(Len(b) < h + n)
        BY <3>2, <2>7, SMT
      <3> QED
        BY <2>7, <3>1, <3>2, <3>3, Zenon
    <2>2. Size(k, b) = <<h, n>> /\ <<h, n>>[1] = h /\ <<h, n>>[2] = n
      BY <2>8
    <2>3. SubSeq(b, h + 1, h + n) = value
      <3>1. ASSUME NEW i \in (h + 1)..(h + n)
            PROVE  b[i] = octets[i] /\ b[i] \in Octet /\ octets[i] \in Octet
        <4>1. i \in 1..(Len(octets) + Len(rest)) /\ i \in 1..Len(octets) /\ i <= Len(octets)
          BY <2>7
        <4>2. b[i] = octets[i]
          BY <4>1, <2>6, Zenon
        <4>3. octets[i] \in Octet
          BY <4>1, ElementOfSeq, Zenon DEF Octets
        <4> QED
          BY <4>2, <4>3
      <3>2. PICK j \in Nat, t \in Nat : j = h + 1 /\ t = h + n
        OBVIOUS
      <3>3. \A i \in j..t : b[i] = octets[i] /\ b[i] \in Octet /\ octets[i] \in Octet
        BY <3>1, <3>2, Zenon
      <3> DEFINE u == SubSeq(b, j, t)
                 v == SubSeq(octets, j, t)
      <3>4. /\ u \in Seq(Octet) /\ Len(u) = IF j <= t THEN t - j + 1 ELSE 0
            /\ \A i \in 1..(t - j + 1) : u[i] = b[j + i - 1]
        BY <3>3, SubSeqProperties
      <3>5. /\ v \in Seq(Octet) /\ Len(v) = IF j <= t THEN t - j + 1 ELSE 0
            /\ \A i \in 1..(t - j + 1) : v[i] = octets[j + i - 1]
        BY <3>3, SubSeqProperties
      <3> HIDE DEF u, v
      <3>6. \A i \in 1..Len(u) : i \in 1..(t - j + 1) /\ j + i - 1 \in j..t
        BY <3>4
      <3>7. \A i \in 1..Len(u) : u[i] = v[i]
        BY <3>3, <3>4, <3>5, <3>6, Zenon
      <3>8. u = v
        BY <3>4, <3>5, <3>7, SeqEqual, Zenon
      <3> QED
        BY <3>2, <3>8, Zenon DEF u, v
    <2>4. SubSeq(b, (h + n) + 1, Len(b)) = rest
      <3>1. PICK t \in Nat : t = h + n
        OBVIOUS
      <3>2. PICK l \in Nat : l = Len(rest)
        BY <2>7
      <3>3. Len(b) = t + l /\ Len(octets) = t
        BY <2>1, <3>1, <3>2, Zenon
      <3>4. ASSUME NEW i \in 1..l
            PROVE  b[t + i] = rest[i] /\ rest[i] \in Octet
        <4>1. t + i \in 1..(t + l) /\ ~(t + i <= t) /\ (t + i) - t = i
          OBVIOUS
        <4>2. b[t + i] = rest[i]
          BY <4>1, <2>6, <3>2, <3>3, Zenon
        <4>3. rest[i] \in Octet
          BY <3>2, ElementOfSeq, Zenon DEF Octets
        <4> QED
          BY <4>2, <4>3
      <3>5. \A i \in (t + 1)..(t + l) : b[i] \in Octet
        <4> SUFFICES ASSUME NEW i \in (t + 1)..(t + l) PROVE b[i] \in Octet
          OBVIOUS
        <4>1. PICK j \in 1..l : i = t + j
          <5>1. i - t \in 1..l /\ i = t + (i - t)
            OBVIOUS
          <5> QED
            BY <5>1
        <4> QED
          BY <3>4, <4>1, Zenon
      <3> DEFINE s == SubSeq(b, t + 1, t + l)
      <3>6. s \in Seq(Octet) /\ Len(s) = l /\ \A i \in 1..l : s[i] = b[t + i]
        <4>1. /\ s \in Seq(Octet)
              /\ Len(s) = IF t + 1 <= t + l THEN (t + l) - (t + 1) + 1 ELSE 0
              /\ \A i \in 1..((t + l) - (t + 1) + 1) : s[i] = b[(t + 1) + i - 1]
          BY <3>5, SubSeqProperties
        <4> HIDE DEF s
        <4>2. (t + l) - (t + 1) + 1 = l /\ (~(t + 1 <= t + l) => l = 0)
          OBVIOUS
        <4>3. \A i \in 1..l : (t + 1) + i - 1 = t + i
          OBVIOUS
        <4> QED
          BY <4>1, <4>2, <4>3, Zenon
      <3> HIDE DEF s
      <3>7. \A i \in 1..Len(rest) : s[i] = rest[i]
        BY <3>2, <3>4, <3>6, Zenon
      <3>8. Len(s) = Len(rest)
        BY <3>2, <3>6, Zenon
      <3>9. s = rest
        BY <3>6, <3>7, <3>8, SeqEqual DEF Octets
      <3> QED
        BY <3>1, <3>3, <3>9, Zenon DEF s
    <2>5. Append(g, value) = g \o <<value>>
      BY <1>1, AppendIsConcat
    <2> HIDE DEF value
    <2> QED
      BY <2>1, <2>2, <2>3, <2>4, <2>5 DEF Taken, b
  <1>3. <<k>> \in Seq(Kinds) /\ <<value>> \in Seq(Octets)
    BY <1>1
  <1> HIDE DEF value
  <1>4. ASSUME NEW rest \in Octets, NEW g \in Seq(Octets)
        PROVE  After(<<k>>, [got |-> g, left |-> octets \o rest])
                 = [got |-> g \o <<value>>, left |-> rest]
    BY <1>2, AfterFew
  <1>5. Starts(<<k>>, <<value>>, octets)
    BY <1>3, <1>4, Zenon DEF Starts
  <1> QED
    BY <1>5 DEF value

-----------------------------------------------------------------------------
(* The kinds of fields.                                                    *)

\* The first part of a string and the rest of it.
LEMMA Parts ==
  ASSUME NEW S, NEW a \in Seq(S), NEW b \in Seq(S)
  PROVE  /\ a \o b \in Seq(S)
         /\ Len(a) \in Nat /\ Len(b) \in Nat /\ Len(a \o b) = Len(a) + Len(b)
         /\ \A i \in 1..Len(a) : (a \o b)[i] = a[i]
         /\ \A i \in 1..Len(b) : (a \o b)[Len(a) + i] = b[i]
         /\ SubSeq(a \o b, 1, Len(a)) = a
         /\ SubSeq(a \o b, Len(a) + 1, Len(a) + Len(b)) = b
  <1>1. /\ a \o b \in Seq(S)
        /\ Len(a) \in Nat /\ Len(b) \in Nat /\ Len(a \o b) = Len(a) + Len(b)
    BY ConcatProperties, LenProperties
  <1>2. \A i \in 1..(Len(a) + Len(b)) :
          (a \o b)[i] = IF i <= Len(a) THEN a[i] ELSE b[i - Len(a)]
    BY ConcatProperties
  <1> DEFINE c == a \o b
  <1> HIDE DEF c
  <1>3. \A i \in 1..Len(a) : c[i] = a[i]
    BY <1>1, <1>2 DEF c
  <1>4. ASSUME NEW i \in 1..Len(b) PROVE c[Len(a) + i] = b[i]
    <2>1. Len(a) + i \in 1..(Len(a) + Len(b)) /\ ~(Len(a) + i <= Len(a))
          /\ (Len(a) + i) - Len(a) = i
      BY <1>1
    <2> QED
      BY <2>1, <1>2 DEF c
  <1>5. SubSeq(c, 1, Len(a)) = a
    <2>1. \A i \in 1..Len(a) : c[i] \in S
      BY <1>3, ElementOfSeq
    <2>2. SubSeq(c, 1, Len(a)) \in Seq(S) /\ Len(SubSeq(c, 1, Len(a))) = Len(a)
          /\ \A i \in 1..Len(a) : SubSeq(c, 1, Len(a))[i] = c[i]
      BY <2>1, <1>1, SubSeqProperties
    <2> QED
      BY <2>2, <1>3, SeqEqual
  <1>6. SubSeq(c, Len(a) + 1, Len(a) + Len(b)) = b
    <2> DEFINE s == SubSeq(c, Len(a) + 1, Len(a) + Len(b))
    <2>1. ASSUME NEW i \in (Len(a) + 1)..(Len(a) + Len(b)) PROVE c[i] \in S
      <3>1. i - Len(a) \in 1..Len(b) /\ i = Len(a) + (i - Len(a))
        BY <1>1
      <3>2. c[i] = b[i - Len(a)]
        BY <3>1, <1>4
      <3> QED
        BY <3>1, <3>2, ElementOfSeq
    <2>4. PICK m \in Nat, n \in Nat : m = Len(a) + 1 /\ n = Len(a) + Len(b)
      BY <1>1
    <2>5. SubSeq(c, m, n) \in Seq(S) /\ Len(SubSeq(c, m, n)) = (IF m <= n THEN n - m + 1 ELSE 0)
          /\ \A i \in 1..(n - m + 1) : SubSeq(c, m, n)[i] = c[m + i - 1]
      BY <2>1, <2>4, SubSeqProperties
    <2>6. s = SubSeq(c, m, n)
      BY <2>4
    <2> HIDE DEF s
    <2>2. s \in Seq(S) /\ Len(s) = Len(b)
          /\ \A i \in 1..Len(b) : s[i] = c[Len(a) + 1 + i - 1]
      BY <2>4, <2>5, <2>6, <1>1
    <2>3. \A i \in 1..Len(b) : s[i] = b[i]
      BY <2>2, <1>1, <1>4
    <2> USE DEF s
    <2> QED
      BY <2>2, <2>3, SeqEqual
  <1> QED
    BY <1>1, <1>3, <1>4, <1>5, <1>6 DEF c

\* The length, an octet and a part of a string, as operators of a string of which
\* only what the lemmas say is known.
Length(o)      == Len(o)
At(o, i)       == o[i]
Slice(o, m, n) == SubSeq(o, m, n)

\* What two octets hold.
Sizes == {n \in Nat : n < 65536}

\* A number is its quotient and its remainder.
LEMMA Division ==
  ASSUME NEW d \in Nat \ {0}, NEW n \in Int
  PROVE  /\ n = d * (n \div d) + (n % d)
         /\ n \div d \in Int /\ n % d \in 0..(d - 1)
         /\ n >= 0 => n \div d >= 0
  BY SMT

\* And has no other.
LEMMA Remainder ==
  ASSUME NEW d \in Nat \ {0}, NEW q \in Int, NEW r \in 0..(d - 1)
  PROVE  (d * q + r) \div d = q /\ (d * q + r) % d = r
  BY SMT

\* A number below the divisor.
LEMMA Small ==
  ASSUME NEW d \in Nat \ {0}, NEW n \in 0..(d - 1)
  PROVE  n \div d = 0 /\ n % d = n
  <1>1. (d * 0 + n) \div d = 0 /\ (d * 0 + n) % d = n
    BY Remainder
  <1> QED
    BY <1>1

\* Numbers in two octets.
LEMMA U16s ==
  ASSUME NEW n \in Nat
  PROVE  /\ PutU16(n) \in Octets /\ Length(PutU16(n)) = 2
         /\ n \in Sizes => U16(PutU16(n)) = n
         /\ At(PutU16(n), 1) = (n \div 256) % 256 /\ At(PutU16(n), 2) = n % 256
  <1>1. (n \div 256) % 256 \in Octet /\ n % 256 \in Octet
    BY DEF Octet
  <1>2. ASSUME n \in Sizes
        PROVE  256 * ((n \div 256) % 256) + (n % 256) = n
    <2> DEFINE q == n \div 256
    <2>1. n = 256 * q + (n % 256) /\ q \in Nat /\ n % 256 \in 0..255
      BY Division
    <2> HIDE DEF q
    <2>2. q < 256
      <3>1. n < 65536
        BY <1>2 DEF Sizes
      <3> QED
        BY <3>1, <2>1, SMT
    <2>3. q % 256 = q
      BY <2>1, <2>2, Small
    <2> QED
      BY <2>1, <2>3 DEF q
  <1> QED
    BY <1>1, <1>2 DEF PutU16, U16, Octets, Length, At

\* What is known of a string from its beginning.
LEMMA Beginning ==
  ASSUME NEW a \in Octets, NEW b \in Octets
  PROVE  /\ a \o b \in Octets
         /\ Length(a) \in Nat /\ Length(b) \in Nat
         /\ Length(a \o b) = Length(a) + Length(b)
         /\ \A i \in 1..Length(a) : At(a \o b, i) = At(a, i)
         /\ Length(a) > 1 => Slice(a \o b, 1, 2) = Slice(a, 1, 2)
         /\ Length(a) > 3 => Slice(a \o b, 3, 4) = Slice(a, 3, 4)
  <1>1. /\ a \o b \in Octets
        /\ Len(a) \in Nat /\ Len(b) \in Nat /\ Len(a \o b) = Len(a) + Len(b)
        /\ \A i \in 1..Len(a) : (a \o b)[i] = a[i]
    BY Parts DEF Octets
  <1>2. Len(a) > 1 => SubSeq(a \o b, 1, 2) = SubSeq(a, 1, 2)
    BY <1>1, SubSeqOfConcat1 DEF Octets
  <1>3. Len(a) > 3 => SubSeq(a \o b, 3, 4) = SubSeq(a, 3, 4)
    BY <1>1, SubSeqOfConcat1 DEF Octets
  <1> QED
    BY <1>1, <1>2, <1>3 DEF Length, At, Slice

\* And of its end.
LEMMA Ending ==
  ASSUME NEW a \in Octets, NEW b \in Octets
  PROVE  /\ \A i \in 1..Length(b) : At(a \o b, Length(a) + i) = At(b, i)
         /\ Slice(a \o b, 1, Length(a)) = a
         /\ Slice(a \o b, Length(a) + 1, Length(a) + Length(b)) = b
  BY Parts DEF Octets, Length, At, Slice

\* The length of two strings.
LEMMA Longer ==
  ASSUME NEW a \in Octets, NEW b \in Octets
  PROVE  a \o b \in Octets /\ Length(a \o b) = Length(a) + Length(b)
  BY Beginning, Zenon

\* Lengths are numbers.
LEMMA Lengths ==
  /\ \A o \in Octets : Length(o) \in Nat /\ Slice(o, 1, Length(o)) = o
  /\ <<>> \in Octets /\ Length(<<>>) = 0
  <1>1. \A o \in Octets : Length(o) \in Nat /\ Slice(o, 1, Length(o)) = o
    BY LenProperties, SubSeqFull DEF Octets, Length, Slice
  <1> QED
    BY <1>1, EmptySeq DEF Octets, Length

\* Numbers in four octets.
LEMMA U32s ==
  ASSUME NEW n \in Nat
  PROVE  /\ PutU32(n) \in Octets /\ Length(PutU32(n)) = 4
         /\ n \in Sizes => /\ U16(Slice(PutU32(n), 3, 4)) = n
                           /\ PutU32(n) = <<0, 0>> \o PutU16(n)
         /\ At(PutU32(n), 4) = n % 256
  <1>1. n \div 65536 \in Nat /\ (n \in Sizes => n \div 65536 = 0)
    <2>1. PICK d \in Nat \ {0} : d = 65536
      OBVIOUS
    <2>2. n \div d \in Nat
      BY Division
    <2>3. ASSUME n < d PROVE n \div d = 0
      <3>1. n \in 0..(d - 1)
        BY <2>3
      <3> QED
        BY <3>1, Small
    <2>4. n \in Sizes => n < d
      BY <2>1 DEF Sizes
    <2> HIDE <2>1
    <2>5. n \div d \in Nat /\ (n \in Sizes => n \div d = 0)
      BY <2>2, <2>3, <2>4, Zenon
    <2> QED
      BY <2>1, <2>5, SMT
  <1> DEFINE h == PutU16(n \div 65536)
             l == PutU16(n)
  <1>2. /\ h \in Octets /\ Length(h) = 2 /\ l \in Octets /\ Length(l) = 2
        /\ At(l, 2) = n % 256 /\ (n \in Sizes => U16(l) = n)
    BY <1>1, U16s
  <1>3. PutU32(n) = h \o l
    BY DEF PutU32
  <1>4. n \in Sizes => h = <<0, 0>>
    BY <1>1 DEF PutU16
  <1> HIDE DEF h, l
  <1>5. PutU32(n) \in Octets /\ Length(PutU32(n)) = 4
    BY <1>2, <1>3, Beginning
  <1>6. Length(h) + 1 = 3 /\ Length(h) + Length(l) = 4 /\ Length(h) + 2 = 4
        /\ 2 \in 1..Length(l)
    BY <1>2
  <1>7. Slice(PutU32(n), 3, 4) = l /\ At(PutU32(n), 4) = At(l, 2)
    <2>1. /\ \A i \in 1..Length(l) : At(h \o l, Length(h) + i) = At(l, i)
          /\ Slice(h \o l, Length(h) + 1, Length(h) + Length(l)) = l
      BY <1>2, Ending, Zenon
    <2>2. At(h \o l, Length(h) + 2) = At(l, 2)
      BY <1>6, <2>1, Zenon
    <2> QED
      BY <1>3, <1>6, <2>1, <2>2, Zenon
  <1> QED
    BY <1>2, <1>3, <1>4, <1>5, <1>7 DEF l

\* A field that is its value.
LEMMA StartsWhole ==
  ASSUME NEW k \in Kinds, NEW octets \in Octets,
         \A rest \in Octets : Size(k, octets \o rest) = <<0, Length(octets)>>
  PROVE  Starts(<<k>>, <<octets>>, octets)
  <1>1. Length(octets) \in Nat /\ Length(octets) = 0 + Length(octets)
        /\ Slice(octets, 0 + 1, 0 + Length(octets)) = octets
    BY Lengths
  <1>2. Starts(<<k>>, <<Slice(octets, 0 + 1, 0 + Length(octets))>>, octets)
    BY <1>1, StartsOne DEF Length, Slice
  <1> QED
    BY <1>1, <1>2

\* A field after its size.
LEMMA StartsSized ==
  ASSUME NEW k \in Kinds, NEW size \in Octets, NEW value \in Octets,
         \A rest \in Octets :
           Size(k, (size \o value) \o rest) = <<Length(size), Length(value)>>
  PROVE  Starts(<<k>>, <<value>>, size \o value)
  <1> DEFINE octets == size \o value
  <1>1. octets \in Octets /\ Length(size) \in Nat /\ Length(value) \in Nat
        /\ Length(octets) = Length(size) + Length(value)
        /\ Slice(octets, Length(size) + 1, Length(size) + Length(value)) = value
    BY Beginning, Ending
  <1> HIDE DEF octets
  <1>2. \A rest \in Octets : Size(k, octets \o rest) = <<Length(size), Length(value)>>
    BY DEF octets
  <1>3. Starts(<<k>>, <<Slice(octets, Length(size) + 1, Length(size) + Length(value))>>,
               octets)
    BY <1>1, <1>2, StartsOne DEF Length, Slice
  <1> QED
    BY <1>1, <1>3 DEF octets

\* Integers.
LEMMA StartsNumber ==
  ASSUME NEW octets \in Octets
  PROVE  /\ Length(octets) = 1 => Starts(<<"u8">>, <<octets>>, octets)
         /\ Length(octets) = 2 => Starts(<<"u16">>, <<octets>>, octets)
         /\ Length(octets) = 4 => Starts(<<"u32">>, <<octets>>, octets)
  <1>1. "u8" \in Kinds /\ "u16" \in Kinds /\ "u32" \in Kinds
    BY DEF Kinds
  <1>2. \A b : Size("u8", b) = <<0, 1>> /\ Size("u16", b) = <<0, 2>>
               /\ Size("u32", b) = <<0, 4>>
    BY DEF Size
  <1> QED
    BY <1>1, <1>2, StartsWhole

\* Buffers with a size of two octets, and the empty one.
LEMMA StartsBuffer ==
  /\ \A value \in Octets : Length(value) \in Sizes =>
       Starts(<<"2b">>, <<value>>, MarshalTPM2B(value))
  /\ Starts(<<"2b">>, << <<>> >>, Empty)
  /\ MarshalTPM2B(<<>>) = Empty
  <1>1. ASSUME NEW value \in Octets, Length(value) \in Sizes
        PROVE  Starts(<<"2b">>, <<value>>, MarshalTPM2B(value))
    <2> DEFINE size == PutU16(Length(value))
    <2>1. Length(value) \in Nat
      BY Lengths
    <2>2. size \in Octets /\ Length(size) = 2 /\ U16(size) = Length(value)
      BY <1>1, <2>1, U16s
    <2> HIDE DEF size
    <2>3. ASSUME NEW rest \in Octets
          PROVE  Size("2b", (size \o value) \o rest) = <<2, Length(value)>>
      <3> DEFINE b == (size \o value) \o rest
      <3>1. size \o value \in Octets /\ Length(size \o value) = 2 + Length(value)
            /\ At(size \o value, 1) = At(size, 1)
            /\ At(size \o value, 2) = At(size, 2)
        <4>1. /\ size \o value \in Octets
              /\ Length(size \o value) = Length(size) + Length(value)
              /\ \A i \in 1..Length(size) : At(size \o value, i) = At(size, i)
          BY <2>2, Beginning, Zenon
        <4>2. 1 \in 1..Length(size) /\ 2 \in 1..Length(size)
          BY <2>2
        <4> QED
          BY <4>1, <4>2, <2>2, Zenon
      <3>2. Length(b) >= 2 /\ At(b, 1) = At(size, 1) /\ At(b, 2) = At(size, 2)
        <4>1. /\ Length(b) = Length(size \o value) + Length(rest) /\ Length(rest) \in Nat
              /\ \A i \in 1..Length(size \o value) : At(b, i) = At(size \o value, i)
          BY <3>1, Beginning, Zenon
        <4> HIDE DEF b
        <4>2. 1 \in 1..Length(size \o value) /\ 2 \in 1..Length(size \o value)
          BY <3>1, <2>1
        <4>3. At(b, 1) = At(size, 1) /\ At(b, 2) = At(size, 2)
          BY <3>1, <4>1, <4>2, Zenon
        <4> QED
          BY <3>1, <2>1, <4>1, <4>3
      <3> HIDE DEF b
      <3>3. U16(b) = Length(value)
        BY <3>2, <2>2 DEF U16, At
      <3>4. Size("2b", b) = <<2, Length(value)>>
        BY <3>2, <3>3 DEF Size, Length
      <3> QED
        BY <3>4 DEF b
    <2>4. "2b" \in Kinds
      BY DEF Kinds
    <2>5. Starts(<<"2b">>, <<value>>, size \o value)
      BY <2>2, <2>3, <2>4, StartsSized
    <2> QED
      BY <2>5 DEF size, MarshalTPM2B, Length
  <1>2. MarshalTPM2B(<<>>) = Empty
    <2>1. Empty \in Octets /\ Len(<<>>) = 0
      BY U16s DEF Empty
    <2> QED
      BY <2>1, ConcatEmptySeq DEF Octets, MarshalTPM2B, Empty
  <1>3. 0 \in Sizes
    BY DEF Sizes
  <1> QED
    BY <1>1, <1>2, <1>3, Lengths

\* The areas of authorizations have a size of four.
LEMMA StartsArea ==
  ASSUME NEW value \in Octets, Length(value) \in Sizes
  PROVE  Starts(<<"4b">>, <<value>>, PutU32(Len(value)) \o value)
  <1> DEFINE size == PutU32(Length(value))
  <1>1. Length(value) \in Nat
    BY Lengths
  <1>2. size \in Octets /\ Length(size) = 4 /\ U16(Slice(size, 3, 4)) = Length(value)
    BY <1>1, U32s
  <1> HIDE DEF size
  <1>3. ASSUME NEW rest \in Octets
        PROVE  Size("4b", (size \o value) \o rest) = <<4, Length(value)>>
    <2> DEFINE b == (size \o value) \o rest
    <2>1. size \o value \in Octets /\ Length(size \o value) = 4 + Length(value)
          /\ Slice(size \o value, 3, 4) = Slice(size, 3, 4)
      <3>1. /\ size \o value \in Octets
            /\ Length(size \o value) = Length(size) + Length(value)
            /\ Length(size) > 3 => Slice(size \o value, 3, 4) = Slice(size, 3, 4)
        BY <1>2, Beginning, Zenon
      <3>2. Length(size) > 3
        BY <1>2
      <3> QED
        BY <1>2, <3>1, <3>2, Zenon
    <2>2. Length(b) >= 4 /\ Slice(b, 3, 4) = Slice(size, 3, 4)
      <3>1. /\ Length(b) = Length(size \o value) + Length(rest) /\ Length(rest) \in Nat
            /\ Length(size \o value) > 3 => Slice(b, 3, 4) = Slice(size \o value, 3, 4)
        BY <2>1, Beginning, Zenon
      <3> HIDE DEF b
      <3>2. Length(size \o value) > 3 /\ Length(b) >= 4
        BY <1>1, <2>1, <3>1
      <3> QED
        BY <2>1, <3>1, <3>2, Zenon
    <2> HIDE DEF b
    <2>3. Size("4b", b) = <<4, Length(value)>>
      <3>1. U16(Slice(b, 3, 4)) = U16(SubSeq(b, 3, 4))
        BY Zenon DEF Slice
      <3>2. U16(SubSeq(b, 3, 4)) = Length(value)
        BY <1>2, <2>2, <3>1, Zenon
      <3> QED
        BY <2>2, <3>2 DEF Size, Length
    <2> QED
      BY <2>3 DEF b
  <1>4. "4b" \in Kinds
    BY DEF Kinds
  <1>5. Starts(<<"4b">>, <<value>>, size \o value)
    BY <1>2, <1>3, <1>4, StartsSized
  <1> QED
    BY <1>5 DEF size, Length

\* A few octets.
LEMMA FewOctets ==
  /\ \A a \in Octet : <<a>> \in Octets /\ Length(<<a>>) = 1 /\ At(<<a>>, 1) = a
  /\ \A a, b \in Octet : <<a, b>> \in Octets /\ Length(<<a, b>>) = 2
  /\ \A a, b, c, d \in Octet : <<a, b, c, d>> \in Octets /\ Length(<<a, b, c, d>>) = 4
  /\ \A a, b, c, d \in Octet : At(<<a, b, c, d>>, 4) = d
  BY DEF Octets, Length, At

\* The algorithms, and where they differ.
LEMMA Algorithms ==
  /\ \A a \in {algNull, algSHA256, algAES, algCFB, AlgECC, AlgECDSA, algKeyedHash,
               NistP256} :
       a \in Octets /\ Length(a) = 2 /\ Slice(a, 1, 2) = a
  /\ algAES # algNull /\ AlgECDSA # algNull /\ AlgECC # algKeyedHash /\ algNull # <<>>
  /\ Empty \in Octets /\ Length(Empty) = 2
  <1>1. \A n \in Nat : PutU16(n) \in Octets /\ Length(PutU16(n)) = 2
    BY U16s
  <1>2. ASSUME NEW a \in Octets, Length(a) = 2 PROVE Slice(a, 1, 2) = a
    BY <1>2, Lengths
  <1>3. \A n \in Nat : PutU16(n) = <<(n \div 256) % 256, n % 256>>
    BY DEF PutU16
  <1>4. PutU16(6) # PutU16(16) /\ PutU16(24) # PutU16(16) /\ PutU16(35) # PutU16(8)
        /\ PutU16(16) # <<>>
    BY DEF PutU16
  <1> QED
    BY <1>1, <1>2, <1>4 DEF algNull, algSHA256, algAES, algCFB, AlgECC, AlgECDSA,
                            algKeyedHash, NistP256, Empty

\* What is known of the beginning stays known of more.
LEMMA Prefix ==
  ASSUME NEW a \in Octets, NEW b \in Octets, Length(a) >= 2
  PROVE  Length(a \o b) >= 2 /\ Slice(a \o b, 1, 2) = Slice(a, 1, 2)
  <1>1. /\ Length(a) \in Nat /\ Length(b) \in Nat
        /\ Length(a \o b) = Length(a) + Length(b)
        /\ Length(a) > 1 => Slice(a \o b, 1, 2) = Slice(a, 1, 2)
    BY Beginning, Zenon
  <1>2. Length(a) > 1
    BY <1>1
  <1>3. Slice(a \o b, 1, 2) = Slice(a, 1, 2)
    BY <1>1, <1>2, Zenon
  <1>4. Length(a \o b) >= 2
    BY <1>1
  <1> QED
    BY <1>3, <1>4

\* A cipher or a scheme, or none.
LEMMA StartsAlgorithm ==
  ASSUME NEW octets \in Octets, Length(octets) >= 2
  PROVE  /\ octets = algNull =>
              Starts(<<"symmetric">>, <<octets>>, octets)
              /\ Starts(<<"scheme">>, <<octets>>, octets)
         /\ Slice(octets, 1, 2) # algNull /\ Length(octets) = 6 =>
              Starts(<<"symmetric">>, <<octets>>, octets)
         /\ Slice(octets, 1, 2) # algNull /\ Length(octets) = 4 =>
              Starts(<<"scheme">>, <<octets>>, octets)
  <1>1. "symmetric" \in Kinds /\ "scheme" \in Kinds
    BY DEF Kinds
  <1>2. ASSUME NEW rest \in Octets
        PROVE  /\ Size("symmetric", octets \o rest)
                    = <<0, IF Slice(octets, 1, 2) # algNull THEN 6 ELSE 2>>
               /\ Size("scheme", octets \o rest)
                    = <<0, IF Slice(octets, 1, 2) # algNull THEN 4 ELSE 2>>
    <2> DEFINE b == octets \o rest
    <2>1. Length(b) >= 2 /\ Slice(b, 1, 2) = Slice(octets, 1, 2)
      BY Prefix
    <2> HIDE DEF b
    <2>2. Len(b) > 1
      BY <2>1 DEF Length
    <2>3. SubSeq(b, 1, 2) = Slice(octets, 1, 2)
      BY <2>1, Zenon DEF Slice
    <2>4. /\ Size("symmetric", b)
               = <<0, IF Len(b) > 1 /\ SubSeq(b, 1, 2) # algNull THEN 6 ELSE 2>>
          /\ Size("scheme", b)
               = <<0, IF Len(b) > 1 /\ SubSeq(b, 1, 2) # algNull THEN 4 ELSE 2>>
      BY DEF Size
    <2>5. /\ Size("symmetric", b) = <<0, IF Slice(octets, 1, 2) # algNull THEN 6 ELSE 2>>
          /\ Size("scheme", b) = <<0, IF Slice(octets, 1, 2) # algNull THEN 4 ELSE 2>>
      BY <2>2, <2>3, <2>4, Zenon
    <2> QED
      BY <2>5 DEF b
  <1>3. algNull \in Octets /\ Length(algNull) = 2 /\ Slice(algNull, 1, 2) = algNull
    BY Algorithms
  <1>4. ASSUME octets = algNull
        PROVE  Starts(<<"symmetric">>, <<octets>>, octets)
               /\ Starts(<<"scheme">>, <<octets>>, octets)
    BY <1>1, <1>2, <1>3, <1>4, StartsWhole
  <1>5. ASSUME Slice(octets, 1, 2) # algNull, Length(octets) = 6
        PROVE  Starts(<<"symmetric">>, <<octets>>, octets)
    BY <1>1, <1>2, <1>5, StartsWhole
  <1>6. ASSUME Slice(octets, 1, 2) # algNull, Length(octets) = 4
        PROVE  Starts(<<"scheme">>, <<octets>>, octets)
    BY <1>1, <1>2, <1>6, StartsWhole
  <1> QED
    BY <1>4, <1>5, <1>6

\* Lists of PCRs and of digests, by the last octet of their counts.
LEMMA StartsList ==
  ASSUME NEW octets \in Octets, Length(octets) >= 4, At(octets, 4) \in Nat
  PROVE  /\ Length(octets) = 4 + 6 * At(octets, 4) =>
              Starts(<<"pcrs">>, <<octets>>, octets)
         /\ Length(octets) = 4 + At(octets, 4) * (2 + DigestSize) =>
              Starts(<<"digests">>, <<Slice(octets, 5, Length(octets))>>, octets)
  <1>1. "pcrs" \in Kinds /\ "digests" \in Kinds
    BY DEF Kinds
  <1>2. ASSUME NEW rest \in Octets
        PROVE  /\ Size("pcrs", octets \o rest) = <<0, 4 + 6 * At(octets, 4)>>
               /\ Size("digests", octets \o rest) = <<4, At(octets, 4) * (2 + DigestSize)>>
    <2> DEFINE b == octets \o rest
    <2>1. /\ Length(octets) \in Nat /\ Length(rest) \in Nat
          /\ Length(b) = Length(octets) + Length(rest)
          /\ \A i \in 1..Length(octets) : At(b, i) = At(octets, i)
      BY Beginning, Zenon
    <2> HIDE DEF b
    <2>2. 4 \in 1..Length(octets) /\ Length(b) >= 4
      BY <2>1
    <2>3. At(b, 4) = At(octets, 4)
      BY <2>1, <2>2, Zenon
    <2>4. Len(b) >= 4 /\ b[4] = At(octets, 4)
      BY <2>2, <2>3 DEF Length, At
    <2>5. /\ Size("pcrs", b) = <<0, 4 + 6 * At(octets, 4)>>
          /\ Size("digests", b) = <<4, At(octets, 4) * (2 + DigestSize)>>
      BY <2>4 DEF Size
    <2> QED
      BY <2>5 DEF b
  <1>3. ASSUME Length(octets) = 4 + 6 * At(octets, 4)
        PROVE  Starts(<<"pcrs">>, <<octets>>, octets)
    BY <1>1, <1>2, <1>3, StartsWhole
  <1>4. ASSUME Length(octets) = 4 + At(octets, 4) * (2 + DigestSize)
        PROVE  Starts(<<"digests">>, <<Slice(octets, 5, Length(octets))>>, octets)
    <2>1. PICK n \in Nat : n = At(octets, 4) * (2 + DigestSize)
      BY DigestSizeAssumption
    <2>2. \A rest \in Octets : Size("digests", octets \o rest) = <<4, n>>
      BY <1>2, <2>1
    <2>3. Len(octets) = 4 + n /\ Length(octets) = 4 + n /\ 4 + 1 = 5
      BY <1>4, <2>1 DEF Length
    <2>4. Starts(<<"digests">>, <<SubSeq(octets, 4 + 1, 4 + n)>>, octets)
      BY <1>1, <2>2, <2>3, StartsOne
    <2> QED
      BY <2>3, <2>4, Zenon DEF Slice
  <1> QED
    BY <1>3, <1>4

\* Fields, and the rest after them.
LEMMA FieldsRest ==
  ASSUME NEW kinds, NEW values, NEW octets, Starts(kinds, values, octets),
         NEW rest \in Octets
  PROVE  Fields(Append(kinds, "rest"), octets \o rest) = Append(values, rest)
  <1>1. kinds \in Seq(Kinds) /\ values \in Seq(Octets) /\ octets \in Octets
    BY DEF Starts
  <1> DEFINE all == Append(kinds, "rest")
  <1>3. "rest" \in Kinds /\ <<"rest">> \in Seq(Kinds) /\ all = kinds \o <<"rest">>
    BY <1>1, AppendIsConcat DEF Kinds
  <1>4. After(kinds, [got |-> <<>>, left |-> octets \o rest])
          = [got |-> <<>> \o values, left |-> rest]
    BY Lengths, <1>1, EmptySeq DEF Starts
  <1>5. <<>> \o values = values
    BY <1>1, ConcatEmptySeq
  <1>6. Taken([got |-> values, left |-> rest], "rest")
          = [got |-> Append(values, rest), left |-> <<>>]
    <2>1. Size("rest", rest) = <<0, Len(rest)>>
      BY DEF Size
    <2>2. rest # None
      BY NoneAssumption
    <2>3. Len(rest) \in Nat /\ SubSeq(rest, 1, Len(rest)) = rest
      BY LenProperties, SubSeqFull DEF Octets
    <2>4. PICK n \in Nat : n = Len(rest)
      BY <2>3
    <2>5. SubSeq(rest, n + 1, n) = <<>>
      BY SubSeqEmpty
    <2>6. Size("rest", rest) = <<0, n>> /\ SubSeq(rest, 1, n) = rest
      BY <2>1, <2>3, <2>4, Zenon
    <2>7. PICK h \in Nat : h = 0
      OBVIOUS
    <2>8. h + 1 = 1 /\ h + n = n /\ ~(n < n) /\ Size("rest", rest) = <<h, n>>
      BY <2>6, <2>7
    <2>9. SubSeq(rest, h + 1, h + n) = rest /\ SubSeq(rest, (h + n) + 1, n) = <<>>
          /\ ~(n < h + n)
      BY <2>5, <2>6, <2>8, Zenon
    <2>10. PICK x, y : x = SubSeq(rest, h + 1, h + n) /\ y = SubSeq(rest, (h + n) + 1, n)
      OBVIOUS
    <2>11. ~(Len(rest) < h + n) /\ <<h, n>>[1] = h /\ <<h, n>>[2] = n
      BY <2>4, <2>9
    <2>12. Taken([got |-> values, left |-> rest], "rest")
             = [got |-> Append(values, x), left |-> y]
      BY <2>2, <2>4, <2>8, <2>10, <2>11 DEF Taken
    <2> QED
      BY <2>9, <2>10, <2>12, Zenon
  <1>7. After(all, [got |-> <<>>, left |-> octets \o rest])
          = [got |-> Append(values, rest), left |-> <<>>]
    <2>0. PICK start : start = [got |-> <<>>, left |-> octets \o rest]
      OBVIOUS
    <2> HIDE DEF all
    <2>1. After(all, start) = After(<<"rest">>, After(kinds, start))
      BY <1>1, <1>3, AfterConcat
    <2>2. After(kinds, start) = [got |-> values, left |-> rest]
      BY <1>4, <1>5, <2>0
    <2>3. After(all, start) = Taken([got |-> values, left |-> rest], "rest")
      BY <2>1, <2>2, AfterFew, Zenon
    <2>4. After(all, start) = [got |-> Append(values, rest), left |-> <<>>]
      BY <1>6, <2>3
    <2> QED
      BY <2>0, <2>4
  <1>8. Len(all) \in Nat
    BY <1>1, <1>3, ConcatProperties, LenProperties
  <1> HIDE DEF all
  <1>9. Fields(all, octets \o rest) = Append(values, rest)
    BY <1>7, <1>8, FieldsGot, Zenon
  <1> QED
    BY <1>9 DEF all

-----------------------------------------------------------------------------
(* Fields in a row.                                                        *)

\* A string that has the elements of two others.
LEMMA Joined ==
  ASSUME NEW S, NEW x \in Seq(S), NEW y \in Seq(S), NEW z \in Seq(S),
         Len(x) + Len(y) = Len(z),
         \A i \in 1..Len(z) : z[i] = IF i <= Len(x) THEN x[i] ELSE y[i - Len(x)]
  PROVE  x \o y = z
  <1>1. PICK w : w = x \o y
    OBVIOUS
  <1>2. /\ w \in Seq(S) /\ Len(w) = Len(z)
        /\ \A i \in 1..Len(z) : w[i] = IF i <= Len(x) THEN x[i] ELSE y[i - Len(x)]
    BY <1>1, ConcatProperties
  <1>3. \A i \in 1..Len(w) : w[i] = z[i]
    BY <1>2
  <1>4. w = z
    BY <1>2, <1>3
  <1> QED
    BY <1>1, <1>4

\* One element more: 2.
LEMMA Join2 ==
  ASSUME NEW S, NEW a1 \in S, NEW a2 \in S
  PROVE  <<a1>> \o <<a2>> = <<a1, a2>>
  <1>1. PICK x, y, z : x = <<a1>> /\ y = <<a2>> /\ z = <<a1, a2>>
    OBVIOUS
  <1>2. /\ x \in Seq(S) /\ y \in Seq(S) /\ z \in Seq(S) /\ Len(x) + Len(y) = Len(z)
        /\ \A i \in 1..Len(z) : z[i] = IF i <= Len(x) THEN x[i] ELSE y[i - Len(x)]
    BY <1>1
  <1>3. x \o y = z
    BY <1>2, Joined
  <1> QED
    BY <1>1, <1>3

\* One element more: 3.
LEMMA Join3 ==
  ASSUME NEW S, NEW a1 \in S, NEW a2 \in S, NEW a3 \in S
  PROVE  <<a1, a2>> \o <<a3>> = <<a1, a2, a3>>
  <1>1. PICK x, y, z : x = <<a1, a2>> /\ y = <<a3>> /\ z = <<a1, a2, a3>>
    OBVIOUS
  <1>2. /\ x \in Seq(S) /\ y \in Seq(S) /\ z \in Seq(S) /\ Len(x) + Len(y) = Len(z)
        /\ \A i \in 1..Len(z) : z[i] = IF i <= Len(x) THEN x[i] ELSE y[i - Len(x)]
    BY <1>1
  <1>3. x \o y = z
    BY <1>2, Joined
  <1> QED
    BY <1>1, <1>3

\* One element more: 4.
LEMMA Join4 ==
  ASSUME NEW S, NEW a1 \in S, NEW a2 \in S, NEW a3 \in S, NEW a4 \in S
  PROVE  <<a1, a2, a3>> \o <<a4>> = <<a1, a2, a3, a4>>
  <1>1. PICK x, y, z : x = <<a1, a2, a3>> /\ y = <<a4>> /\ z = <<a1, a2, a3, a4>>
    OBVIOUS
  <1>2. /\ x \in Seq(S) /\ y \in Seq(S) /\ z \in Seq(S) /\ Len(x) + Len(y) = Len(z)
        /\ \A i \in 1..Len(z) : z[i] = IF i <= Len(x) THEN x[i] ELSE y[i - Len(x)]
    BY <1>1
  <1>3. x \o y = z
    BY <1>2, Joined
  <1> QED
    BY <1>1, <1>3

\* One element more: 5.
LEMMA Join5 ==
  ASSUME NEW S, NEW a1 \in S, NEW a2 \in S, NEW a3 \in S, NEW a4 \in S, NEW a5 \in S
  PROVE  <<a1, a2, a3, a4>> \o <<a5>> = <<a1, a2, a3, a4, a5>>
  <1>1. PICK x, y, z : x = <<a1, a2, a3, a4>> /\ y = <<a5>> /\ z = <<a1, a2, a3, a4, a5>>
    OBVIOUS
  <1>2. /\ x \in Seq(S) /\ y \in Seq(S) /\ z \in Seq(S) /\ Len(x) + Len(y) = Len(z)
        /\ \A i \in 1..Len(z) : z[i] = IF i <= Len(x) THEN x[i] ELSE y[i - Len(x)]
    BY <1>1
  <1>3. x \o y = z
    BY <1>2, Joined
  <1> QED
    BY <1>1, <1>3

\* One element more: 6.
LEMMA Join6 ==
  ASSUME NEW S, NEW a1 \in S, NEW a2 \in S, NEW a3 \in S, NEW a4 \in S, NEW a5 \in S, NEW a6 \in S
  PROVE  <<a1, a2, a3, a4, a5>> \o <<a6>> = <<a1, a2, a3, a4, a5, a6>>
  <1>1. PICK x, y, z : x = <<a1, a2, a3, a4, a5>> /\ y = <<a6>> /\ z = <<a1, a2, a3, a4, a5, a6>>
    OBVIOUS
  <1>2. /\ x \in Seq(S) /\ y \in Seq(S) /\ z \in Seq(S) /\ Len(x) + Len(y) = Len(z)
        /\ \A i \in 1..Len(z) : z[i] = IF i <= Len(x) THEN x[i] ELSE y[i - Len(x)]
    BY <1>1
  <1>3. x \o y = z
    BY <1>2, Joined
  <1> QED
    BY <1>1, <1>3

\* What a field is of.
LEMMA StartsTypes ==
  ASSUME NEW k, NEW v, NEW o, Starts(<<k>>, <<v>>, o)
  PROVE  k \in Kinds /\ v \in Octets
  BY DEF Starts

\* Two fields.
LEMMA StartsTwo ==
  ASSUME NEW k1, NEW v1, NEW o1, Starts(<<k1>>, <<v1>>, o1),
         NEW k2, NEW v2, NEW o2, Starts(<<k2>>, <<v2>>, o2)
  PROVE  Starts(<<k1, k2>>, <<v1, v2>>,
                o1 \o o2)
  <1>1. /\ k1 \in Kinds /\ k2 \in Kinds
        /\ v1 \in Octets /\ v2 \in Octets
    BY StartsTypes, Zenon
  <1>2. <<k1>> \o <<k2>> = <<k1, k2>>
    BY <1>1, Join2
  <1>5. <<v1>> \o <<v2>> = <<v1, v2>>
    BY <1>1, Join2
  <1>4. Starts(<<k1>> \o <<k2>>, <<v1>> \o <<v2>>,
               o1 \o o2)
    BY StartsConcat, Zenon
  <1> QED
    BY <1>2, <1>4, <1>5, Zenon

\* Three fields.
LEMMA StartsThree ==
  ASSUME NEW k1, NEW v1, NEW o1, Starts(<<k1>>, <<v1>>, o1),
         NEW k2, NEW v2, NEW o2, Starts(<<k2>>, <<v2>>, o2),
         NEW k3, NEW v3, NEW o3, Starts(<<k3>>, <<v3>>, o3)
  PROVE  Starts(<<k1, k2, k3>>, <<v1, v2, v3>>,
                o1 \o o2 \o o3)
  <1>1. /\ k1 \in Kinds /\ k2 \in Kinds /\ k3 \in Kinds
        /\ v1 \in Octets /\ v2 \in Octets /\ v3 \in Octets
    BY StartsTypes, Zenon
  <1>2. <<k1, k2>> \o <<k3>> = <<k1, k2, k3>>
    BY <1>1, Join3
  <1>5. <<v1, v2>> \o <<v3>> = <<v1, v2, v3>>
    BY <1>1, Join3
  <1>3. Starts(<<k1, k2>>, <<v1, v2>>, o1 \o o2)
    BY StartsTwo, Zenon
  <1>4. Starts(<<k1, k2>> \o <<k3>>, <<v1, v2>> \o <<v3>>,
               o1 \o o2 \o o3)
    BY <1>3, StartsConcat, Zenon
  <1> QED
    BY <1>2, <1>4, <1>5, Zenon

\* Four fields.
LEMMA StartsFour ==
  ASSUME NEW k1, NEW v1, NEW o1, Starts(<<k1>>, <<v1>>, o1),
         NEW k2, NEW v2, NEW o2, Starts(<<k2>>, <<v2>>, o2),
         NEW k3, NEW v3, NEW o3, Starts(<<k3>>, <<v3>>, o3),
         NEW k4, NEW v4, NEW o4, Starts(<<k4>>, <<v4>>, o4)
  PROVE  Starts(<<k1, k2, k3, k4>>, <<v1, v2, v3, v4>>,
                o1 \o o2 \o o3 \o o4)
  <1>1. /\ k1 \in Kinds /\ k2 \in Kinds /\ k3 \in Kinds /\ k4 \in Kinds
        /\ v1 \in Octets /\ v2 \in Octets /\ v3 \in Octets /\ v4 \in Octets
    BY StartsTypes, Zenon
  <1>2. <<k1, k2, k3>> \o <<k4>> = <<k1, k2, k3, k4>>
    BY <1>1, Join4
  <1>5. <<v1, v2, v3>> \o <<v4>> = <<v1, v2, v3, v4>>
    BY <1>1, Join4
  <1>3. Starts(<<k1, k2, k3>>, <<v1, v2, v3>>, o1 \o o2 \o o3)
    BY StartsThree, Zenon
  <1>4. Starts(<<k1, k2, k3>> \o <<k4>>, <<v1, v2, v3>> \o <<v4>>,
               o1 \o o2 \o o3 \o o4)
    BY <1>3, StartsConcat, Zenon
  <1> QED
    BY <1>2, <1>4, <1>5, Zenon

\* Five fields.
LEMMA StartsFive ==
  ASSUME NEW k1, NEW v1, NEW o1, Starts(<<k1>>, <<v1>>, o1),
         NEW k2, NEW v2, NEW o2, Starts(<<k2>>, <<v2>>, o2),
         NEW k3, NEW v3, NEW o3, Starts(<<k3>>, <<v3>>, o3),
         NEW k4, NEW v4, NEW o4, Starts(<<k4>>, <<v4>>, o4),
         NEW k5, NEW v5, NEW o5, Starts(<<k5>>, <<v5>>, o5)
  PROVE  Starts(<<k1, k2, k3, k4, k5>>, <<v1, v2, v3, v4, v5>>,
                o1 \o o2 \o o3 \o o4 \o o5)
  <1>1. /\ k1 \in Kinds /\ k2 \in Kinds /\ k3 \in Kinds /\ k4 \in Kinds /\ k5 \in Kinds
        /\ v1 \in Octets /\ v2 \in Octets /\ v3 \in Octets /\ v4 \in Octets /\ v5 \in Octets
    BY StartsTypes, Zenon
  <1>2. <<k1, k2, k3, k4>> \o <<k5>> = <<k1, k2, k3, k4, k5>>
    BY <1>1, Join5
  <1>5. <<v1, v2, v3, v4>> \o <<v5>> = <<v1, v2, v3, v4, v5>>
    BY <1>1, Join5
  <1>3. Starts(<<k1, k2, k3, k4>>, <<v1, v2, v3, v4>>, o1 \o o2 \o o3 \o o4)
    BY StartsFour, Zenon
  <1>4. Starts(<<k1, k2, k3, k4>> \o <<k5>>, <<v1, v2, v3, v4>> \o <<v5>>,
               o1 \o o2 \o o3 \o o4 \o o5)
    BY <1>3, StartsConcat, Zenon
  <1> QED
    BY <1>2, <1>4, <1>5, Zenon

\* Six fields.
LEMMA StartsSix ==
  ASSUME NEW k1, NEW v1, NEW o1, Starts(<<k1>>, <<v1>>, o1),
         NEW k2, NEW v2, NEW o2, Starts(<<k2>>, <<v2>>, o2),
         NEW k3, NEW v3, NEW o3, Starts(<<k3>>, <<v3>>, o3),
         NEW k4, NEW v4, NEW o4, Starts(<<k4>>, <<v4>>, o4),
         NEW k5, NEW v5, NEW o5, Starts(<<k5>>, <<v5>>, o5),
         NEW k6, NEW v6, NEW o6, Starts(<<k6>>, <<v6>>, o6)
  PROVE  Starts(<<k1, k2, k3, k4, k5, k6>>, <<v1, v2, v3, v4, v5, v6>>,
                o1 \o o2 \o o3 \o o4 \o o5 \o o6)
  <1>1. /\ k1 \in Kinds /\ k2 \in Kinds /\ k3 \in Kinds /\ k4 \in Kinds /\ k5 \in Kinds /\ k6 \in Kinds
        /\ v1 \in Octets /\ v2 \in Octets /\ v3 \in Octets /\ v4 \in Octets /\ v5 \in Octets /\ v6 \in Octets
    BY StartsTypes, Zenon
  <1>2. <<k1, k2, k3, k4, k5>> \o <<k6>> = <<k1, k2, k3, k4, k5, k6>>
    BY <1>1, Join6
  <1>5. <<v1, v2, v3, v4, v5>> \o <<v6>> = <<v1, v2, v3, v4, v5, v6>>
    BY <1>1, Join6
  <1>3. Starts(<<k1, k2, k3, k4, k5>>, <<v1, v2, v3, v4, v5>>, o1 \o o2 \o o3 \o o4 \o o5)
    BY StartsFive, Zenon
  <1>4. Starts(<<k1, k2, k3, k4, k5>> \o <<k6>>, <<v1, v2, v3, v4, v5>> \o <<v6>>,
               o1 \o o2 \o o3 \o o4 \o o5 \o o6)
    BY <1>3, StartsConcat, Zenon
  <1> QED
    BY <1>2, <1>4, <1>5, Zenon

-----------------------------------------------------------------------------
(* Strings in a row.                                                       *)

\* The joined strings up to each of the first n.
Flattens(f, seqs, n) ==
  f = [i \in 1..n |-> IF i = 1 THEN seqs[i] ELSE f[i - 1] \o seqs[i]]

\* There is one such function at most.
LEMMA FlattensUnique ==
  ASSUME NEW seqs, NEW n \in Nat, NEW f, NEW g, Flattens(f, seqs, n), Flattens(g, seqs, n)
  PROVE  f = g
  <1>1. /\ f = [i \in 1..n |-> IF i = 1 THEN seqs[i] ELSE f[i - 1] \o seqs[i]]
        /\ g = [i \in 1..n |-> IF i = 1 THEN seqs[i] ELSE g[i - 1] \o seqs[i]]
    BY DEF Flattens
  <1> DEFINE S == {m \in Nat : m \in 1..n => f[m] = g[m]}
  <1>2. 0 \in S
    OBVIOUS
  <1>3. ASSUME NEW m \in S PROVE m + 1 \in S
    <2>1. m \in Nat /\ m + 1 \in Nat
      OBVIOUS
    <2>2. CASE m + 1 \in 1..n /\ m = 0
      BY <1>1, <2>2
    <2>3. CASE m + 1 \in 1..n /\ m # 0
      <3>1. m \in 1..n /\ m + 1 # 1 /\ (m + 1) - 1 = m
        BY <2>1, <2>3
      <3>2. f[m] = g[m]
        BY <3>1
      <3>3. PICK i : i = m + 1
        OBVIOUS
      <3>4. i \in 1..n /\ i # 1 /\ i - 1 = m
        BY <2>3, <3>1, <3>3
      <3>5. f[i] = f[i - 1] \o seqs[i] /\ g[i] = g[i - 1] \o seqs[i]
        BY <1>1, <3>4
      <3>6. f[i] = g[i]
        BY <3>2, <3>4, <3>5, Zenon
      <3> QED
        BY <2>1, <3>3, <3>6
    <2> QED
      BY <2>1, <2>2, <2>3
  <1> HIDE DEF S
  <1>4. S = Nat
    BY <1>2, <1>3, Induction DEF S
  <1>5. \A i \in 1..n : f[i] = g[i]
    BY <1>4 DEF S
  <1> QED
    BY <1>1, <1>5

\* The last of them is the string of all.
LEMMA FlattenIs ==
  ASSUME NEW seqs, Len(seqs) \in Nat \ {0}, NEW f, Flattens(f, seqs, Len(seqs))
  PROVE  FlattenSeq(seqs) = f[Len(seqs)]
  <1> DEFINE g == CHOOSE g : Flattens(g, seqs, Len(seqs))
  <1>1. Flattens(g, seqs, Len(seqs))
    OBVIOUS
  <1>2. g = f
    BY <1>1, FlattensUnique
  <1>3. g = CHOOSE h : h = [i \in 1..Len(seqs) |-> IF i = 1 THEN seqs[i]
                                                   ELSE h[i - 1] \o seqs[i]]
    BY Zenon DEF Flattens
  <1> HIDE DEF g
  <1>4. FlattenSeq(seqs) = IF Len(seqs) = 0 THEN seqs ELSE g[Len(seqs)]
    BY <1>3 DEF FlattenSeq
  <1> QED
    BY <1>2, <1>4

\* One string, and two.
LEMMA FlattenFew ==
  ASSUME NEW x, NEW y
  PROVE  /\ FlattenSeq(<<>>) = <<>>
         /\ FlattenSeq(<<x>>) = x
         /\ FlattenSeq(<<x, y>>) = x \o y
  <1>1. FlattenSeq(<<>>) = <<>>
    BY DEF FlattenSeq
  <1>2. FlattenSeq(<<x>>) = x
    <2> DEFINE f == [i \in 1..1 |-> x]
    <2>1. Flattens(f, <<x>>, 1)
      BY DEF Flattens
    <2>2. Len(<<x>>) = 1 /\ f[1] = x
      OBVIOUS
    <2> HIDE DEF f
    <2>3. PICK s, n : s = <<x>> /\ n = Len(s)
      OBVIOUS
    <2>4. n = 1 /\ n \in Nat \ {0} /\ f[n] = x
      BY <2>2, <2>3
    <2>5. Flattens(f, s, n)
      BY <2>1, <2>3, <2>4, Zenon
    <2>6. FlattenSeq(s) = f[n]
      BY <2>3, <2>4, <2>5, FlattenIs, Zenon
    <2> QED
      BY <2>3, <2>4, <2>6, Zenon
  <1>3. FlattenSeq(<<x, y>>) = x \o y
    <2> DEFINE f == [i \in 1..2 |-> IF i = 1 THEN x ELSE x \o y]
    <2>1. \A i \in 1..2 : f[i] = IF i = 1 THEN <<x, y>>[i] ELSE f[i - 1] \o <<x, y>>[i]
      OBVIOUS
    <2>2. Flattens(f, <<x, y>>, 2)
      BY <2>1 DEF Flattens
    <2>3. Len(<<x, y>>) = 2 /\ f[2] = x \o y
      OBVIOUS
    <2> HIDE DEF f
    <2>4. PICK s, n : s = <<x, y>> /\ n = Len(s)
      OBVIOUS
    <2>5. n = 2 /\ n \in Nat \ {0} /\ f[n] = x \o y
      BY <2>3, <2>4
    <2>6. Flattens(f, s, n)
      BY <2>2, <2>4, <2>5, Zenon
    <2>7. FlattenSeq(s) = f[n]
      BY <2>4, <2>5, <2>6, FlattenIs, Zenon
    <2> QED
      BY <2>4, <2>5, <2>7, Zenon
  <1> QED
    BY <1>1, <1>2, <1>3

\* A string of strings is a string.
LEMMA FlattenType ==
  ASSUME NEW seqs \in Seq(Octets)
  PROVE  FlattenSeq(seqs) \in Octets
  <1> DEFINE n == Len(seqs)
  <1>1. n \in Nat /\ \A i \in 1..n : seqs[i] \in Octets
    BY ElementOfSeq, LenProperties
  <1>2. CASE n = 0
    BY <1>2, Lengths, EmptySeq DEF FlattenSeq
  <1>3. CASE n # 0
    <2> DEFINE S == {m \in Nat : m \in 1..n => \E f : Flattens(f, seqs, m) /\ f[m] \in Octets}
    <2>1. 0 \in S
      OBVIOUS
    <2>2. ASSUME NEW m \in S, m + 1 \in 1..n
          PROVE  \E f : Flattens(f, seqs, m + 1) /\ f[m + 1] \in Octets
      <3>1. m \in Nat
        OBVIOUS
      <3>2. CASE m = 0
        <4> DEFINE f == [i \in 1..1 |-> seqs[1]]
        <4>1. Flattens(f, seqs, 1)
          BY DEF Flattens
        <4>2. f[1] \in Octets
          BY <1>1, <1>3
        <4> QED
          BY <3>2, <4>1, <4>2
      <3>3. CASE m # 0
        <4>1. m \in 1..n
          BY <1>1, <2>2, <3>1, <3>3
        <4>2. PICK f : Flattens(f, seqs, m) /\ f[m] \in Octets
          BY <4>1
        <4>3. f = [i \in 1..m |-> IF i = 1 THEN seqs[i] ELSE f[i - 1] \o seqs[i]]
          BY <4>2 DEF Flattens
        <4> DEFINE g == [i \in 1..(m + 1) |-> IF i = m + 1 THEN f[m] \o seqs[m + 1]
                                              ELSE f[i]]
        <4>4. ASSUME NEW i \in 1..(m + 1)
              PROVE  g[i] = IF i = 1 THEN seqs[i] ELSE g[i - 1] \o seqs[i]
          <5>1. CASE i = m + 1
            <6>1. i # 1 /\ i - 1 = m /\ m \in 1..(m + 1) /\ m # m + 1
              BY <5>1, <3>1, <3>3
            <6> QED
              BY <5>1, <6>1
          <5>2. CASE i = 1
            <6>1. i # m + 1 /\ i \in 1..m
              BY <5>2, <3>1, <3>3
            <6> QED
              BY <4>3, <5>2, <6>1
          <5>3. CASE i # m + 1 /\ i # 1
            <6>1. i \in 1..m /\ i - 1 \in 1..(m + 1) /\ i - 1 # m + 1
              BY <5>3, <3>1, <3>3
            <6>2. g[i] = f[i] /\ g[i - 1] = f[i - 1]
              BY <5>3, <6>1
            <6>3. f[i] = f[i - 1] \o seqs[i]
              BY <4>3, <5>3, <6>1
            <6> QED
              BY <5>3, <6>2, <6>3, Zenon
          <5> QED
            BY <5>1, <5>2, <5>3
        <4>7. g = [i \in 1..(m + 1) |-> g[i]] /\ g[m + 1] = f[m] \o seqs[m + 1]
          <5>1. PICK e, t : e = m + 1 /\ t = f[m] \o seqs[m + 1]
            OBVIOUS
          <5>2. e \in 1..e
            BY <3>1, <5>1
          <5>3. g = [i \in 1..e |-> IF i = e THEN t ELSE f[i]]
            BY <5>1, Zenon
          <5> HIDE DEF g
          <5>4. g = [i \in 1..e |-> g[i]] /\ g[e] = t
            BY <5>2, <5>3
          <5> QED
            BY <5>1, <5>4, Zenon
        <4> HIDE DEF g
        <4>5. Flattens(g, seqs, m + 1)
          <5>1. [i \in 1..(m + 1) |-> g[i]]
                  = [i \in 1..(m + 1) |-> IF i = 1 THEN seqs[i] ELSE g[i - 1] \o seqs[i]]
            BY <4>4, Zenon
          <5> QED
            BY <4>7, <5>1, Zenon DEF Flattens
        <4>6. g[m + 1] \in Octets
          <5>1. g[m + 1] = f[m] \o seqs[m + 1]
            BY <4>7
          <5>2. f[m] \o seqs[m + 1] \in Octets
            BY <1>1, <2>2, <4>2, ConcatType, Zenon
          <5> QED
            BY <5>1, <5>2, Zenon
        <4> QED
          BY <4>5, <4>6
      <3> QED
        BY <3>2, <3>3
    <2>3. \A m \in S : m + 1 \in S
      BY <2>2
    <2> HIDE DEF S
    <2>4. S = Nat
      BY <2>1, <2>3, Induction DEF S
    <2>5. PICK f : Flattens(f, seqs, n) /\ f[n] \in Octets
      BY <1>1, <1>3, <2>4 DEF S
    <2> QED
      BY <1>1, <1>3, <2>5, FlattenIs
  <1> QED
    BY <1>2, <1>3

-----------------------------------------------------------------------------
(* Bits.                                                                   *)

\* The powers of two in an octet.
LEMMA Powers ==
  /\ 2^0 = 1 /\ 2^1 = 2 /\ 2^2 = 4 /\ 2^3 = 8
  /\ 2^4 = 16 /\ 2^5 = 32 /\ 2^6 = 64 /\ 2^7 = 128
  BY SMT

\* One bit of a number, from what is above it and below.
LEMMA OneBit ==
  ASSUME NEW d \in Nat \ {0}, NEW above \in Nat, NEW bit \in 0..1, NEW below \in 0..(d - 1)
  PROVE  ((d * (2 * above + bit) + below) \div d) % 2 = bit
  <1>1. PICK q \in Nat : q = 2 * above + bit
    OBVIOUS
  <1>2. (d * q + below) \div d = q
    BY Remainder
  <1>3. (2 * above + bit) % 2 = bit
    BY Remainder
  <1> QED
    BY <1>1, <1>2, <1>3

\* An octet has the bits that it is made of.
LEMMA OctetBits ==
  ASSUME NEW bits
  PROVE  /\ OctetOf(bits) \in Octet
         /\ \A k \in 0..7 : (OctetOf(bits) \div 2^k) % 2 = 1 <=> k \in bits
  <1> DEFINE b(k) == IF k \in bits THEN 1 ELSE 0
  <1>1. PICK b0 \in 0..1, b1 \in 0..1, b2 \in 0..1, b3 \in 0..1,
             b4 \in 0..1, b5 \in 0..1, b6 \in 0..1, b7 \in 0..1 :
          /\ b0 = b(0) /\ b1 = b(1) /\ b2 = b(2) /\ b3 = b(3)
          /\ b4 = b(4) /\ b5 = b(5) /\ b6 = b(6) /\ b7 = b(7)
    OBVIOUS
  <1>2. PICK o : o = OctetOf(bits)
    OBVIOUS
  <1>3. o = b0 + 2 * b1 + 4 * b2 + 8 * b3 + 16 * b4 + 32 * b5 + 64 * b6 + 128 * b7
    <2>1. /\ (IF 0 \in bits THEN 2^0 ELSE 0) = b0
          /\ (IF 1 \in bits THEN 2^1 ELSE 0) = 2 * b1
          /\ (IF 2 \in bits THEN 2^2 ELSE 0) = 4 * b2
          /\ (IF 3 \in bits THEN 2^3 ELSE 0) = 8 * b3
          /\ (IF 4 \in bits THEN 2^4 ELSE 0) = 16 * b4
          /\ (IF 5 \in bits THEN 2^5 ELSE 0) = 32 * b5
          /\ (IF 6 \in bits THEN 2^6 ELSE 0) = 64 * b6
          /\ (IF 7 \in bits THEN 2^7 ELSE 0) = 128 * b7
      BY <1>1, Powers
    <2> QED
      BY <1>2, <2>1 DEF OctetOf
  <1>4. o \in Octet
    BY <1>3 DEF Octet
  <1>5. /\ (o \div 1) % 2 = b0 /\ (o \div 2) % 2 = b1
        /\ (o \div 4) % 2 = b2 /\ (o \div 8) % 2 = b3
        /\ (o \div 16) % 2 = b4 /\ (o \div 32) % 2 = b5
        /\ (o \div 64) % 2 = b6 /\ (o \div 128) % 2 = b7
    BY <1>3
  <1>6. /\ 0 \in bits <=> (o \div 2^0) % 2 = 1
        /\ 1 \in bits <=> (o \div 2^1) % 2 = 1
        /\ 2 \in bits <=> (o \div 2^2) % 2 = 1
        /\ 3 \in bits <=> (o \div 2^3) % 2 = 1
        /\ 4 \in bits <=> (o \div 2^4) % 2 = 1
        /\ 5 \in bits <=> (o \div 2^5) % 2 = 1
        /\ 6 \in bits <=> (o \div 2^6) % 2 = 1
        /\ 7 \in bits <=> (o \div 2^7) % 2 = 1
    BY <1>1, <1>5, Powers
  <1>7. \A k \in 0..7 : k = 0 \/ k = 1 \/ k = 2 \/ k = 3 \/ k = 4 \/ k = 5 \/ k = 6 \/ k = 7
    BY SMT
  <1>8. ASSUME NEW k \in 0..7
        PROVE  (o \div 2^k) % 2 = 1 <=> k \in bits
    <2>1. CASE k \in {0, 1, 2, 3}
      BY <1>6, <2>1, Zenon
    <2>2. CASE k \in {4, 5, 6, 7}
      BY <1>6, <2>2, Zenon
    <2> QED
      BY <1>7, <2>1, <2>2
  <1> QED
    BY <1>2, <1>4, <1>8, Zenon

\* The octets of a mask.
LEMMA MaskBits ==
  ASSUME NEW bits
  PROVE  /\ Attributes(bits) \in Octets /\ Length(Attributes(bits)) = 4
         /\ {k \in 0..31 : (At(Attributes(bits), 4 - (k \div 8)) \div 2^(k % 8)) % 2 = 1}
              = bits \cap (0..31)
  <1>1. \A b : OctetOf(b) \in Octet
    BY OctetBits
  <1>2. PICK a : a = Attributes(bits)
    OBVIOUS
  <1>3. a = [i \in 1..4 |-> OctetOf({k \in 0..7 : 8 * (4 - i) + k \in bits})]
    BY <1>2, Zenon DEF Attributes
  <1>4. a \in Octets /\ Length(a) = 4
    BY <1>1, <1>3 DEF Octets, Length
  <1>5. ASSUME NEW k \in 0..31
        PROVE  (At(a, 4 - (k \div 8)) \div 2^(k % 8)) % 2 = 1 <=> k \in bits
    <2>1. PICK i, j : i = 4 - (k \div 8) /\ j = k % 8
      OBVIOUS
    <2>2. i \in 1..4 /\ j \in 0..7 /\ 8 * (4 - i) + j = k
      BY <2>1
    <2>3. PICK b : b = {n \in 0..7 : 8 * (4 - i) + n \in bits}
      OBVIOUS
    <2>4. a[i] = OctetOf(b)
      BY <1>3, <2>2, <2>3
    <2>5. j \in b <=> k \in bits
      BY <2>2, <2>3
    <2>6. (OctetOf(b) \div 2^j) % 2 = 1 <=> j \in b
      BY <2>2, OctetBits, Zenon
    <2> QED
      BY <2>1, <2>4, <2>5, <2>6, Zenon DEF At
  <1>6. {k \in 0..31 : (At(a, 4 - (k \div 8)) \div 2^(k % 8)) % 2 = 1} = bits \cap (0..31)
    BY <1>5, Zenon
  <1> QED
    BY <1>2, <1>4, <1>6, Zenon

\* And of a bitmap.
LEMMA BitmapOctets ==
  ASSUME NEW pcrs
  PROVE  bitmap(pcrs) \in Octets /\ Length(bitmap(pcrs)) = 3
  <1>1. \A b : OctetOf(b) \in Octet
    BY OctetBits
  <1>2. bitmap(pcrs) = [i \in 1..3 |-> OctetOf({k \in 0..7 : 8 * (i - 1) + k \in pcrs})]
    BY Zenon DEF bitmap, pcrSelectSize
  <1> QED
    BY <1>1, <1>2 DEF Octets, Length

-----------------------------------------------------------------------------
(* Selections of PCRs.                                                     *)

\* The octets of a bank.
BankOctets(b) == b.hash \o <<pcrSelectSize>> \o bitmap(b.pcrs)

\* There are six.
LEMMA BankLength ==
  ASSUME NEW b, b.hash \in Octets, Length(b.hash) = 2
  PROVE  BankOctets(b) \in Octets /\ Length(BankOctets(b)) = 6
  <1>1. <<3>> \in Octets /\ Length(<<3>>) = 1
    <2>1. 3 \in Octet
      BY DEF Octet
    <2> QED
      BY <2>1, FewOctets, Zenon
  <1>2. bitmap(b.pcrs) \in Octets /\ Length(bitmap(b.pcrs)) = 3
    BY BitmapOctets
  <1>3. PICK a : a = b.hash \o <<3>>
    OBVIOUS
  <1>4. a \in Octets /\ Length(a) = 2 + 1
    BY <1>1, <1>3, Longer, Zenon
  <1>5. /\ a \o bitmap(b.pcrs) \in Octets
        /\ Length(a \o bitmap(b.pcrs)) = (2 + 1) + 3
    BY <1>2, <1>4, Longer, Zenon
  <1>6. Length(a \o bitmap(b.pcrs)) = 6
    BY <1>5
  <1> QED
    BY <1>3, <1>5, <1>6, Zenon DEF BankOctets, pcrSelectSize

\* A list whose count is n and whose banks are in these octets.
LEMMA ListOctets ==
  ASSUME NEW n \in Octet, NEW banks \in Octets, Length(banks) = 6 * n
  PROVE  /\ Starts(<<"pcrs">>, <<PutU32(n) \o banks>>, PutU32(n) \o banks)
         /\ PutU32(n) \o banks \in Octets
  <1>1. PutU32(n) \in Octets /\ Length(PutU32(n)) = 4 /\ At(PutU32(n), 4) = n
    <2>1. n \in Nat /\ n % 256 = n
      BY DEF Octet
    <2> QED
      BY <2>1, U32s
  <1>2. PICK o : o = PutU32(n) \o banks
    OBVIOUS
  <1>3. /\ o \in Octets /\ Length(o) = Length(PutU32(n)) + Length(banks)
        /\ \A i \in 1..Length(PutU32(n)) : At(o, i) = At(PutU32(n), i)
    BY <1>1, <1>2, Beginning, Zenon
  <1>4. 4 \in 1..Length(PutU32(n)) /\ n \in Nat
    BY <1>1 DEF Octet
  <1>5. At(o, 4) = n
    BY <1>1, <1>3, <1>4, Zenon
  <1>6. Length(o) = 4 + 6 * At(o, 4) /\ Length(o) >= 4 /\ At(o, 4) \in Nat
    BY <1>1, <1>3, <1>4, <1>5
  <1>7. Starts(<<"pcrs">>, <<o>>, o)
    BY <1>3, <1>6, StartsList, Zenon
  <1> QED
    BY <1>2, <1>3, <1>7, Zenon

-----------------------------------------------------------------------------
(* What is read of each command.                                           *)

\* No parameters.
LEMMA NoParameters ==
  Starts(<<>>, <<>>, <<>>) /\ \A o \in Octets : o \o <<>> = o
  <1>1. \A o \in Octets : o \o <<>> = o
    BY ConcatEmptySeq DEF Octets
  <1> QED
    BY <1>1, StartsEmpty

\* Integers as parameters.
LEMMA NumberParameters ==
  /\ \A n \in Nat : Starts(<<"u16">>, <<PutU16(n)>>, PutU16(n))
  /\ \A n \in Nat : Starts(<<"u32">>, <<PutU32(n)>>, PutU32(n))
  /\ \A n \in Octet : Starts(<<"u8">>, << <<n>> >>, <<n>>)
  <1>1. ASSUME NEW n \in Nat
        PROVE  Starts(<<"u16">>, <<PutU16(n)>>, PutU16(n))
               /\ Starts(<<"u32">>, <<PutU32(n)>>, PutU32(n))
    BY U16s, U32s, StartsNumber
  <1>2. ASSUME NEW n \in Octet
        PROVE  Starts(<<"u8">>, << <<n>> >>, <<n>>)
    BY FewOctets, StartsNumber
  <1> QED
    BY <1>1, <1>2

\* Buffers as parameters.
IsBuffer(x) == x \in Octets /\ Length(x) \in Sizes

\* A TPM2B as a parameter, and an empty one.
LEMMA BufferParameters ==
  /\ \A x : IsBuffer(x) => Starts(<<"2b">>, <<x>>, MarshalTPM2B(x))
  /\ Starts(<<"2b">>, << <<>> >>, Empty)
  /\ IsBuffer(<<>>) /\ MarshalTPM2B(<<>>) = Empty
  <1>1. 0 \in Sizes
    BY DEF Sizes
  <1>2. IsBuffer(<<>>)
    BY <1>1, Lengths, Zenon DEF IsBuffer
  <1> QED
    BY <1>2, StartsBuffer, Zenon DEF IsBuffer

\* Fields, and octets that are read as one more field.
LEMMA FieldsLast ==
  ASSUME NEW kinds, NEW values, NEW octets, Starts(kinds, values, octets),
         NEW k \in Kinds, NEW rest \in Octets, NEW t,
         t = Taken([got |-> values, left |-> rest], k), t.left # <<>>
  PROVE  Fields(kinds \o <<k>>, octets \o rest) = None
  <1>1. /\ kinds \in Seq(Kinds) /\ values \in Seq(Octets) /\ octets \in Octets
        /\ <<k>> \in Seq(Kinds)
    BY DEF Starts
  <1>2. After(kinds, [got |-> <<>>, left |-> octets \o rest])
          = [got |-> <<>> \o values, left |-> rest]
    BY Lengths, <1>1, EmptySeq DEF Starts
  <1>3. <<>> \o values = values
    BY <1>1, ConcatEmptySeq
  <1>4. PICK all : all = kinds \o <<k>>
    OBVIOUS
  <1>5. PICK start : start = [got |-> <<>>, left |-> octets \o rest]
    OBVIOUS
  <1>6. After(all, start) = After(<<k>>, After(kinds, start))
    BY <1>1, <1>4, AfterConcat
  <1>7. After(kinds, start) = [got |-> values, left |-> rest]
    BY <1>2, <1>3, <1>5
  <1>8. After(all, start) = t
    BY <1>6, <1>7, AfterFew, Zenon
  <1>9. Len(all) \in Nat
    BY <1>1, <1>4, ConcatProperties, LenProperties
  <1> QED
    BY <1>4, <1>5, <1>8, <1>9, FieldsAfter

\* Octets that are too few or too many for a field.
LEMMA TakenBad ==
  ASSUME NEW k, NEW rest \in Octets, NEW g, NEW h \in Nat, NEW n \in Nat,
         Size(k, rest) = <<h, n>>, h + n # Length(rest)
  PROVE  Taken([got |-> g, left |-> rest], k).left # <<>>
  <1>1. <<>> \in Octets /\ None \notin Octets /\ Length(rest) \in Nat
    BY Lengths, NoneAssumption, Zenon
  <1>2. PICK m \in Nat : m = Length(rest)
    BY <1>1
  <1>3. Len(rest) = m
    BY <1>2, Zenon DEF Length
  <1>4. PICK size : size = <<h, n>>
    OBVIOUS
  <1>5. size[1] = h /\ size[2] = n
    BY <1>4
  <1>6. PICK read : read = [got |-> g, left |-> rest]
    OBVIOUS
  <1>7. read.left = rest
    BY <1>6
  <1>8. CASE m < h + n
    <2>1. Taken(read, k) = [read EXCEPT !.left = None]
      BY <1>3, <1>4, <1>5, <1>7, <1>8 DEF Taken
    <2>2. [read EXCEPT !.left = None].left = None
      BY <1>6
    <2> QED
      BY <1>1, <1>6, <2>1, <2>2
  <1>9. CASE h + n < m
    <2>1. PICK x, y : x = SubSeq(rest, h + 1, h + n) /\ y = SubSeq(rest, (h + n) + 1, m)
      OBVIOUS
    <2>2. rest # None /\ ~(m < h + n)
      BY <1>1, <1>9
    <2>3. Taken(read, k) = [got |-> Append(g, x), left |-> y]
      BY <1>3, <1>4, <1>5, <1>6, <1>7, <2>1, <2>2 DEF Taken
    <2>4. Len(y) = m - (h + n)
      <3>1. rest \in Seq(Octet)
        BY DEF Octets
      <3>2. (h + n) + 1 \in 1..(m + 1) /\ (h + n) + 1 \in 1..m /\ m \in ((h + n) + 1)..Len(rest)
        BY <1>3, <1>9
      <3> QED
        BY <1>3, <1>9, <2>1, <3>1, <3>2, SubSeqProperties
    <2>5. y # <<>>
      BY <1>9, <2>4
    <2> QED
      BY <1>6, <2>3, <2>5
  <1> QED
    BY <1>2, <1>8, <1>9

\* The most octets that a TPM2B holds.
Most == 65535

\* A string has as many octets as a TPM2B holds when its length is a size.
LEMMA Limits ==
  /\ Most \in Nat /\ 400 <= Most
  /\ \A n : n \in Sizes <=> n \in Nat /\ n <= Most
  <1>1. \A n : n \in Sizes <=> n \in Nat /\ n <= Most
    BY SMT DEF Sizes, Most
  <1>2. Most \in Nat /\ 400 <= Most
    BY SMT DEF Most
  <1> QED
    BY <1>1, <1>2, Zenon

\* Buffers and what a TPM2B makes of them.
LEMMA Buffers ==
  /\ \A x : IsBuffer(x) =>
       /\ MarshalTPM2B(x) \in Octets
       /\ Length(MarshalTPM2B(x)) = 2 + Length(x)
  /\ \A x, n : x \in Octets /\ Length(x) <= Most => IsBuffer(x)
  /\ \A x : IsBuffer(x) => x \in Octets /\ Length(x) \in Nat /\ Length(x) <= Most
  <1>1. ASSUME NEW x, IsBuffer(x)
        PROVE  /\ MarshalTPM2B(x) \in Octets
               /\ Length(MarshalTPM2B(x)) = 2 + Length(x)
    <2>1. x \in Octets /\ Length(x) \in Nat
      BY <1>1, Lengths, Zenon DEF IsBuffer
    <2>2. PICK n \in Nat : n = Len(x)
      BY <2>1 DEF Length
    <2>3. PICK p : p = PutU16(n)
      OBVIOUS
    <2>4. p \in Octets /\ Length(p) = 2
      BY <2>3, U16s
    <2>5. p \o x \in Octets /\ Length(p \o x) = Length(p) + Length(x)
      BY <2>1, <2>4, Longer, Zenon
    <2>6. MarshalTPM2B(x) = p \o x
      BY <2>2, <2>3, Zenon DEF MarshalTPM2B
    <2>7. Length(p \o x) = 2 + Length(x)
      BY <2>4, <2>5
    <2> QED
      BY <2>5, <2>6, <2>7, Zenon
  <1>2. ASSUME NEW x, x \in Octets, Length(x) <= Most
        PROVE  IsBuffer(x)
    BY <1>2, Lengths, Limits, SMT DEF IsBuffer
  <1>3. ASSUME NEW x, IsBuffer(x)
        PROVE  x \in Octets /\ Length(x) \in Nat /\ Length(x) <= Most
    BY <1>3, Limits, SMT DEF IsBuffer
  <1> QED
    BY <1>1, <1>2, <1>3

-----------------------------------------------------------------------------
(* Public areas.                                                           *)

\* A digest is a string of octets.
LEMMA Digests ==
  /\ \A d \in Digest : d \in Octets /\ Length(d) = DigestSize /\ IsBuffer(d)
  /\ Hashes => \A x \in Octets : Hash(x) \in Digest
  /\ DigestSize \in Nat /\ DigestSize <= 64
  <1>1. DigestSize \in Nat /\ DigestSize <= 64 /\ DigestSize <= Most
    <2>1. DigestSize \in Nat \ {0} /\ DigestSize <= 64
      BY DigestSizeAssumption, DigestAssumption, Zenon
    <2> QED
      BY <2>1, SMT DEF Most
  <1>2. ASSUME NEW d \in Digest
        PROVE  d \in Octets /\ Length(d) = DigestSize
    BY <1>1 DEF Digest, Octets, Length
  <1>3. ASSUME NEW d \in Digest
        PROVE  IsBuffer(d)
    <2>1. d \in Octets /\ Length(d) <= Most
      BY <1>1, <1>2
    <2> QED
      BY <2>1, Buffers, Zenon
  <1>4. Hashes => \A x \in Octets : Hash(x) \in Digest
    BY Zenon DEF Hashes
  <1> QED
    BY <1>1, <1>2, <1>3, <1>4, Zenon

\* The fields of two strings.
LEMMA FieldsTwice ==
  ASSUME NEW ka, NEW va, NEW oa, Starts(ka, va, oa),
         NEW kb, NEW vb, NEW ob, Starts(kb, vb, ob)
  PROVE  Fields(ka \o kb, oa \o ob) = va \o vb
  <1>1. Starts(ka \o kb, va \o vb, oa \o ob)
    BY StartsConcat, Zenon
  <1> QED
    BY <1>1, StartsFields, Zenon

-----------------------------------------------------------------------------
(* The keys of the device.                                                 *)

\* The octets of a coordinate.
LEMMA Coordinates ==
  ASSUME NEW n \in Nat
  PROVE  IsBuffer(PutU16(n)) /\ Length(PutU16(n)) = 2
  <1>1. PutU16(n) \in Octets /\ Length(PutU16(n)) = 2
    BY U16s
  <1>2. Length(PutU16(n)) <= Most
    BY <1>1, Limits, SMT DEF Most
  <1> QED
    BY <1>1, <1>2, Buffers, Zenon

\* The coordinates of a key are numbers below the prime.
LEMMA PointsOfKeys ==
  ASSUME NEW n \in Nat
  PROVE  PointX(n) \in Nat /\ PointY(n) \in Nat /\ PointX(n) < Prime /\ PointY(n) < Prime
  <1>1. Prime \in Nat \ {0}
    BY PrimeAssumption
  <1>2. PICK m : m = Prime - n
    OBVIOUS
  <1>3. m \in Int
    BY <1>1, <1>2
  <1>4. n % Prime \in 0..(Prime - 1) /\ m % Prime \in 0..(Prime - 1)
    BY <1>1, <1>3, Division
  <1> QED
    BY <1>1, <1>2, <1>4 DEF PointX, PointY

-----------------------------------------------------------------------------
(* Numbers and their octets.                                               *)

\* SetBytes is the last of a run that adds an octet at a time.
Digits(f, b, n) ==
  f = [i \in 0..n |-> IF i = 0 THEN 0 ELSE (256 * f[i - 1] + b[i]) % Prime]

\* The number of a string is found digit by digit.
LEMMA SetBytesIs ==
  ASSUME NEW b, NEW f, Digits(f, b, Len(b))
  PROVE  \E g : Digits(g, b, Len(b)) /\ SetBytes(b) = g[Len(b)]
  <1> DEFINE g == CHOOSE g : Digits(g, b, Len(b))
  <1>1. Digits(g, b, Len(b))
    OBVIOUS
  <1>2. g = CHOOSE h : h = [i \in 0..Len(b) |-> IF i = 0 THEN 0
                                                ELSE (256 * h[i - 1] + b[i]) % Prime]
    BY Zenon DEF Digits
  <1> HIDE DEF g
  <1>3. SetBytes(b) = g[Len(b)]
    BY <1>2 DEF SetBytes
  <1> QED
    BY <1>1, <1>3

\* The numbers of no octet, of one and of two.
LEMMA SetBytesFew ==
  /\ SetBytes(<<>>) = 0
  /\ \A a \in Octet : SetBytes(<<a>>) = a
  /\ \A a, c \in Octet : SetBytes(<<a, c>>) = (256 * a + c) % Prime
  <1>0. Prime \in Nat /\ 256 < Prime
    BY PrimeAssumption
  <1>1. SetBytes(<<>>) = 0
    <2>1. PICK b, n : b = <<>> /\ n = Len(b)
      OBVIOUS
    <2>2. n = 0
      BY <2>1
    <2> DEFINE f == [i \in 0..0 |-> 0]
    <2>3. Digits(f, b, 0)
      BY DEF Digits
    <2>4. PICK g : Digits(g, b, 0) /\ SetBytes(b) = g[0]
      BY <2>1, <2>2, <2>3, SetBytesIs
    <2>5. g[0] = 0
      BY <2>4 DEF Digits
    <2> QED
      BY <2>1, <2>4, <2>5, Zenon
  <1>2. ASSUME NEW a \in Octet
        PROVE  SetBytes(<<a>>) = a
    <2>1. PICK b, n : b = <<a>> /\ n = Len(b)
      OBVIOUS
    <2>2. n = 1 /\ b[1] = a /\ a \in 0..255
      BY <2>1 DEF Octet
    <2>3. (256 * 0 + a) % Prime = a
      BY <1>0, <2>2, Small
    <2> DEFINE f == [i \in 0..1 |-> IF i = 0 THEN 0 ELSE a]
    <2>4. f = [i \in 0..1 |-> IF i = 0 THEN 0 ELSE (256 * f[i - 1] + b[i]) % Prime]
      <3>1. \A i \in 0..1 : i # 0 => i = 1 /\ f[i - 1] = 0 /\ b[i] = a
        BY <2>2
      <3> QED
        BY <2>3, <3>1
    <2>5. Digits(f, b, 1)
      BY <2>4, Zenon DEF Digits
    <2>6. PICK g : Digits(g, b, 1) /\ SetBytes(b) = g[1]
      BY <2>1, <2>2, <2>5, SetBytesIs
    <2>7. g[0] = 0 /\ g[1] = (256 * g[0] + b[1]) % Prime
      <3>1. \A i \in 0..1 : g[i] = IF i = 0 THEN 0 ELSE (256 * g[i - 1] + b[i]) % Prime
        BY <2>6 DEF Digits
      <3>2. g[0] = 0
        BY <3>1
      <3>3. g[1] = (256 * g[1 - 1] + b[1]) % Prime
        BY <3>1
      <3> QED
        BY <3>2, <3>3
    <2>8. g[1] = a
      BY <2>2, <2>3, <2>7
    <2> QED
      BY <2>1, <2>6, <2>8, Zenon
  <1>3. ASSUME NEW a \in Octet, NEW c \in Octet
        PROVE  SetBytes(<<a, c>>) = (256 * a + c) % Prime
    <2>1. PICK b, n : b = <<a, c>> /\ n = Len(b)
      OBVIOUS
    <2>2. n = 2 /\ b[1] = a /\ b[2] = c /\ a \in 0..255 /\ c \in 0..255
      BY <2>1 DEF Octet
    <2>3. (256 * 0 + a) % Prime = a
      BY <1>0, <2>2, Small
    <2> DEFINE f == [i \in 0..2 |-> IF i = 0 THEN 0 ELSE IF i = 1 THEN a
                                    ELSE (256 * a + c) % Prime]
    <2>4. f = [i \in 0..2 |-> IF i = 0 THEN 0 ELSE (256 * f[i - 1] + b[i]) % Prime]
      <3>1. \A i \in 0..2 : i # 0 => \/ i = 1 /\ f[i - 1] = 0 /\ b[i] = a
                                     \/ i = 2 /\ f[i - 1] = a /\ b[i] = c
        BY <2>2
      <3> QED
        BY <2>3, <3>1
    <2>5. Digits(f, b, 2)
      BY <2>4, Zenon DEF Digits
    <2>6. PICK g : Digits(g, b, 2) /\ SetBytes(b) = g[2]
      BY <2>1, <2>2, <2>5, SetBytesIs
    <2>7. g[1] = (256 * 0 + b[1]) % Prime /\ g[2] = (256 * g[1] + b[2]) % Prime
      <3>1. \A i \in 0..2 : g[i] = IF i = 0 THEN 0 ELSE (256 * g[i - 1] + b[i]) % Prime
        BY <2>6 DEF Digits
      <3>2. g[0] = 0
        BY <3>1
      <3>3. g[1] = (256 * g[1 - 1] + b[1]) % Prime /\ g[2] = (256 * g[2 - 1] + b[2]) % Prime
        BY <3>1
      <3> QED
        BY <3>2, <3>3
    <2>8. g[2] = (256 * a + c) % Prime
      BY <2>2, <2>3, <2>7
    <2> QED
      BY <2>1, <2>6, <2>8, Zenon
  <1> QED
    BY <1>1, <1>2, <1>3

\* The two octets of a number.
LEMMA TwoOctets ==
  ASSUME NEW n \in Nat, n < Prime
  PROVE  \E a, c \in Octet : /\ a = n \div 256 /\ c = n % 256 /\ PutU16(n) = <<a, c>>
                             /\ 256 * a + c = n
  <1>1. Prime \in Nat /\ Prime < 65536
    BY PrimeAssumption, SMT
  <1>2. PICK q, r : q = n \div 256 /\ r = n % 256
    OBVIOUS
  <1>3. n = 256 * q + r /\ q \in Int /\ r \in 0..255 /\ q >= 0
    <2>1. PICK d \in Nat \ {0} : d = 256
      OBVIOUS
    <2>2. q = n \div d /\ r = n % d /\ n \in Int
      BY <1>2, <2>1
    <2>3. /\ n = d * (n \div d) + (n % d)
          /\ n \div d \in Int /\ n % d \in 0..(d - 1)
          /\ n >= 0 => n \div d >= 0
      BY <2>2, Division, Zenon
    <2>4. n = d * q + r /\ q \in Int /\ r \in 0..(d - 1) /\ q >= 0
      BY <2>2, <2>3
    <2> QED
      BY <2>1, <2>4
  <1>4. q \in 0..255
    BY <1>1, <1>3
  <1>5. q % 256 = q
    BY <1>4, Small
  <1>6. PutU16(n) = <<q, r>>
    BY <1>2, <1>5, Zenon DEF PutU16
  <1>7. q \in Octet /\ r \in Octet
    BY <1>3, <1>4 DEF Octet
  <1> QED
    BY <1>2, <1>3, <1>6, <1>7

\* A number is read of its octets, however many there are, and leftPad makes two
\* of them.
LEMMA NumberOctets ==
  ASSUME NEW n \in Nat, n < Prime, NEW b \in {Bytes(n), PutU16(n)}
  PROVE  SetBytes(b) = n /\ leftPad(b, FieldBytes) = PutU16(n)
  <1>1. PICK a, c \in Octet : /\ a = n \div 256 /\ c = n % 256 /\ PutU16(n) = <<a, c>>
                              /\ 256 * a + c = n
    BY TwoOctets
  <1>2. n % Prime = n
    BY PrimeAssumption, Small
  <1>3. SetBytes(PutU16(n)) = n /\ leftPad(PutU16(n), FieldBytes) = PutU16(n)
    <2>1. SetBytes(<<a, c>>) = (256 * a + c) % Prime
      BY SetBytesFew
    <2>2. SetBytes(<<a, c>>) = n
      <3>1. (256 * a + c) % Prime = n % Prime
        BY <1>1, Zenon
      <3> QED
        BY <1>2, <2>1, <3>1, Zenon
    <2>3. PICK o : o = <<a, c>>
      OBVIOUS
    <2>4. Len(o) = 2 /\ o \in Octets
      BY <2>3, FewOctets DEF Length
    <2>5. SubSeq(o, 1, Len(o)) = o
      BY <2>4, Lengths, Zenon DEF Slice, Length
    <2>6. leftPad(o, 2) = SubSeq(o, 1, Len(o))
      BY <2>4 DEF leftPad
    <2> QED
      BY <1>1, <2>2, <2>3, <2>5, <2>6 DEF FieldBytes
  <1>4. CASE n = 0
    <2>1. Bytes(n) = <<>>
      BY <1>4 DEF Bytes
    <2>2. leftPad(<<>>, 2) = [i \in 1..2 |-> 0] \o <<>>
      BY DEF leftPad
    <2>3. [i \in 1..2 |-> 0] = <<0, 0>> /\ a = 0 /\ c = 0
      BY <1>1, <1>4
    <2>4. <<0, 0>> \o <<>> = <<0, 0>>
      <3>1. 0 \in Octet
        BY DEF Octet
      <3>2. <<0, 0>> \in Octets
        BY <3>1, FewOctets, Zenon
      <3> QED
        BY <3>2, NoParameters, Zenon
    <2>5. leftPad(<<>>, 2) = PutU16(n)
      BY <1>1, <2>2, <2>3, <2>4
    <2>6. SetBytes(<<>>) = n
      BY <1>4, SetBytesFew
    <2> QED
      BY <1>3, <2>1, <2>5, <2>6 DEF FieldBytes
  <1>5. CASE n # 0 /\ n < 256
    <2>1. Bytes(n) = <<n>> /\ n \in Octet
      BY <1>5 DEF Bytes, Octet
    <2>2. a = 0 /\ c = n
      BY <1>1, <1>5, Small
    <2>3. PICK o : o = <<n>>
      OBVIOUS
    <2>4. leftPad(o, 2) = [i \in 1..1 |-> 0] \o o
      BY <2>3 DEF leftPad
    <2>5. [i \in 1..1 |-> 0] \o o = <<0, n>>
      <3>1. [i \in 1..1 |-> 0] = <<0>> /\ 0 \in Octet
        BY DEF Octet
      <3> QED
        BY <2>1, <2>3, <3>1, Join2
    <2>6. SetBytes(<<n>>) = n
      BY <2>1, SetBytesFew
    <2> QED
      BY <1>1, <1>3, <2>1, <2>2, <2>3, <2>4, <2>5, <2>6 DEF FieldBytes
  <1>6. CASE n # 0 /\ ~(n < 256)
    <2>1. Bytes(n) = PutU16(n)
      BY <1>6 DEF Bytes
    <2> QED
      BY <1>3, <2>1
  <1> QED
    BY <1>4, <1>5, <1>6

\* The point of a key is on the curve, and a point times a number is the same
\* whichever of the two was a number first.
LEMMA Congruent ==
  ASSUME NEW d \in Nat \ {0}, NEW k \in Nat, NEW e \in Nat
  PROVE  ((k % d) * e) % d = (k * e) % d
  <1>1. PICK q, r : q = k \div d /\ r = k % d
    OBVIOUS
  <1>2. k = d * q + r /\ q \in Int /\ r \in 0..(d - 1)
    BY <1>1, Division
  <1>3. PICK s : s = r * e
    OBVIOUS
  <1>4. s \in Int
    BY <1>2, <1>3
  <1>5. PICK t, u : t = s \div d /\ u = s % d
    OBVIOUS
  <1>6. s = d * t + u /\ t \in Int /\ u \in 0..(d - 1)
    BY <1>4, <1>5, Division
  <1>7. k * e = d * (q * e + t) + u
    <2>1. k * e = (d * q) * e + r * e
      BY <1>2
    <2>2. (d * q) * e = d * (q * e)
      BY <1>2
    <2>3. d * (q * e + t) = d * (q * e) + d * t
      BY <1>2, <1>6
    <2> QED
      BY <1>2, <1>3, <1>6, <2>1, <2>2, <2>3
  <1>8. PICK m : m = q * e + t
    OBVIOUS
  <1>9. m \in Int
    BY <1>2, <1>6, <1>8
  <1>10. (d * m + u) % d = u
    BY <1>6, <1>9, Remainder
  <1> QED
    BY <1>1, <1>3, <1>5, <1>7, <1>8, <1>10

\* Both sides multiply to the same point.
LEMMA SharedPoint ==
  ASSUME NEW k \in Nat, NEW e \in Nat
  PROVE  /\ ScalarMult(PointX(k), e) = ScalarMult(PointX(e), k)
         /\ ScalarMult(PointX(k), e) \in Nat /\ ScalarMult(PointX(k), e) < Prime
  <1>1. Prime \in Nat \ {0}
    BY PrimeAssumption
  <1>2. ((k % Prime) * e) % Prime = (k * e) % Prime
        /\ ((e % Prime) * k) % Prime = (e * k) % Prime
    BY <1>1, Congruent
  <1>3. k * e = e * k /\ k * e \in Int
    OBVIOUS
  <1>4. (k * e) % Prime \in 0..(Prime - 1)
    BY <1>1, <1>3, Division
  <1> QED
    BY <1>1, <1>2, <1>3, <1>4 DEF ScalarMult, PointX

\* The point of a private number is on the curve.
LEMMA OnCurve ==
  ASSUME NEW k \in Nat, k % Prime # 0
  PROVE  IsOnCurve(PointX(k), PointY(k))
  <1>1. Prime \in Nat \ {0}
    BY PrimeAssumption
  <1>2. PICK q, r : q = k \div Prime /\ r = k % Prime
    OBVIOUS
  <1>3. k = Prime * q + r /\ q \in Int /\ r \in 0..(Prime - 1) /\ r # 0
    BY <1>1, <1>2, Division
  <1>4. PICK m, s : m = 0 - q /\ s = Prime - r
    OBVIOUS
  <1>5. m \in Int /\ s \in 0..(Prime - 1) /\ Prime - k = Prime * m + s
    BY <1>1, <1>3, <1>4
  <1>6. (Prime - k) % Prime = s
    BY <1>1, <1>5, Remainder
  <1>7. r + s = Prime * 1 + 0 /\ 0 \in 0..(Prime - 1)
    BY <1>1, <1>3, <1>4
  <1>8. (Prime * 1 + 0) % Prime = 0
    BY <1>1, <1>7, Remainder
  <1>9. PointX(k) = r /\ PointY(k) = s
    BY <1>2, <1>6 DEF PointX, PointY
  <1> QED
    BY <1>3, <1>7, <1>8, <1>9 DEF IsOnCurve

-----------------------------------------------------------------------------
(* The cipher, the keys derived for it, and wraps.                         *)

\* An octet, a pad added and taken off.
LEMMA PadOff ==
  ASSUME NEW m \in Octet, NEW p \in Octet
  PROVE  /\ (m + p) % 256 \in Octet
         /\ (((m + p) % 256) + 256 - p) % 256 = m
  BY SMT DEF Octet

\* What is enciphered has as many octets, and is deciphered.
LEMMA CipherInverse ==
  ASSUME Hashes, NEW key \in Octets, NEW m \in Octets
  PROVE  /\ aesCFBZeroIV(key, m) \in Octets
         /\ Length(aesCFBZeroIV(key, m)) = Length(m)
         /\ Deciphered(key, aesCFBZeroIV(key, m)) = m
  <1>1. PICK pad, e : pad = Hash(key) /\ e = aesCFBZeroIV(key, m)
    OBVIOUS
  <1>2. pad \in [1..DigestSize -> Octet]
    BY <1>1, Digests, Zenon DEF Digest
  <1>3. ASSUME NEW i \in Nat PROVE pad[1 + (i % DigestSize)] \in Octet
    <2>1. DigestSize \in Nat \ {0}
      BY DigestSizeAssumption, Zenon
    <2>2. PICK r : r = i % DigestSize
      OBVIOUS
    <2>3. r \in 0..(DigestSize - 1)
      BY <2>1, <2>2, Division
    <2>4. 1 + r \in 1..DigestSize
      BY <2>1, <2>3
    <2> QED
      BY <1>2, <2>2, <2>4
  <1>4. PICK n \in Nat : m \in [1..n -> Octet] /\ n = Len(m)
    BY DEF Octets
  <1>5. e = [i \in 1..n |-> (m[i] + pad[1 + (i % DigestSize)]) % 256]
    BY <1>1, <1>4 DEF aesCFBZeroIV
  <1>6. \A i \in 1..n : /\ e[i] = (m[i] + pad[1 + (i % DigestSize)]) % 256
                        /\ m[i] \in Octet /\ pad[1 + (i % DigestSize)] \in Octet
    <2>1. \A i \in 1..n : i \in Nat
      OBVIOUS
    <2> QED
      BY <1>3, <1>4, <1>5, <2>1, Zenon
  <1>7. e \in [1..n -> Octet]
    <2>1. ASSUME NEW i \in 1..n PROVE e[i] \in Octet
      <3>1. PICK x, p, y : x = m[i] /\ p = pad[1 + (i % DigestSize)] /\ y = (x + p) % 256
        OBVIOUS
      <3>2. x \in Octet /\ p \in Octet /\ e[i] = y
        BY <1>6, <3>1, Zenon
      <3>3. y \in Octet
        BY <3>1, <3>2, PadOff
      <3> QED
        BY <3>2, <3>3, Zenon
    <2> QED
      BY <1>5, <2>1, Zenon
  <1>8. e \in Octets /\ Length(e) = Length(m)
    BY <1>4, <1>7 DEF Octets, Length
  <1>9. Deciphered(key, e) = m
    <2>1. PICK d : d = Deciphered(key, e)
      OBVIOUS
    <2>2. DOMAIN e = 1..n
      BY <1>7, Zenon
    <2>3. d = [i \in 1..n |-> (e[i] + 256 - pad[1 + (i % DigestSize)]) % 256]
      BY <1>1, <2>1, <2>2, Zenon DEF Deciphered
    <2>4. \A i \in 1..n : d[i] = (e[i] + 256 - pad[1 + (i % DigestSize)]) % 256
      BY <2>3, Zenon
    <2>5. ASSUME NEW i \in 1..n PROVE d[i] = m[i]
      <3>1. PICK x, p, y : x = m[i] /\ p = pad[1 + (i % DigestSize)] /\ y = (x + p) % 256
        OBVIOUS
      <3>2. x \in Octet /\ p \in Octet /\ e[i] = y
        BY <1>6, <3>1, Zenon
      <3>3. (y + 256 - p) % 256 = x
        BY <3>1, <3>2, PadOff
      <3>4. d[i] = (e[i] + 256 - pad[1 + (i % DigestSize)]) % 256
        BY <2>4, Zenon
      <3>5. d[i] = (y + 256 - p) % 256
        BY <3>1, <3>2, <3>4, Zenon
      <3> QED
        BY <3>1, <3>3, <3>5, Zenon
    <2>6. DOMAIN d = 1..n /\ DOMAIN m = 1..n
      BY <1>4, <2>3, Zenon
    <2>7. d = m
      BY <1>4, <2>3, <2>5, Zenon
    <2> QED
      BY <2>1, <2>7, Zenon
  <1> QED
    BY <1>1, <1>8, <1>9, Zenon

\* A code is a digest.
LEMMA Codes ==
  ASSUME Hashes, NEW key \in Octets, NEW x \in Octets
  PROVE  HMAC(key, x) \in Digest
  <1>1. 255 \in Octet
    BY DEF Octet
  <1>2. <<255>> \in Octets
    BY <1>1, FewOctets, Zenon
  <1>3. key \o <<255>> \in Octets
    BY <1>2, ConcatType, Zenon
  <1>4. key \o <<255>> \o x \in Octets
    BY <1>3, ConcatType, Zenon
  <1> QED
    BY <1>4, Digests, Zenon DEF HMAC

\* What is derived is octets.
LEMMA DerivedBlocks ==
  ASSUME Hashes, NEW d \in Derivation, NEW n \in Nat
  PROVE  Block(d, n) \in Digest
  <1>1. /\ d.kdf \in {"KDFa", "KDFe"} /\ d.key \in Octets /\ d.label \in Octets
        /\ d.partyU \in Octets /\ d.partyV \in Octets /\ d.bits \in Nat
    BY DEF Derivation
  <1>2. PICK key, l, u, v, c, b : /\ key = d.key /\ l = labelBytes(d.label) /\ u = d.partyU
                                  /\ v = d.partyV /\ c = PutU32(n) /\ b = PutU32(d.bits)
    OBVIOUS
  <1>3. c \in Octets /\ b \in Octets
    BY <1>1, <1>2, U32s
  <1>4. l \in Octets
    <2>1. 0 \in Octet
      BY DEF Octet
    <2>2. Append(d.label, 0) \in Octets
      BY <1>1, <2>1 DEF Octets
    <2> QED
      BY <1>1, <1>2, <2>2 DEF labelBytes
  <1>5. key \in Octets /\ u \in Octets /\ v \in Octets
    BY <1>1, <1>2, Zenon
  <1>6. c \o l \o u \o v \o b \in Octets
    BY <1>3, <1>4, <1>5, ConcatType
  <1>7. c \o key \o l \o u \o v \in Octets
    BY <1>3, <1>4, <1>5, ConcatType
  <1>8. HMAC(key, c \o l \o u \o v \o b) \in Digest
    BY <1>5, <1>6, Codes, Zenon
  <1>9. Hash(c \o key \o l \o u \o v) \in Digest
    BY <1>7, Digests, Zenon
  <1> QED
    BY <1>2, <1>8, <1>9, Zenon DEF Block

\* A key of 128 or of 256 bits is a string of octets.
LEMMA DerivedType ==
  ASSUME Hashes, NEW d \in Derivation, d.bits \in {128, 256}
  PROVE  Derived(d) \in Octets
  <1>1. ASSUME NEW i \in Nat \ {0}
        PROVE  StreamOctet(d, i) \in Octet
    <2>1. DigestSize \in Nat \ {0}
      BY DigestSizeAssumption, Zenon
    <2>2. PICK q, r : q = (i - 1) \div DigestSize /\ r = (i - 1) % DigestSize
      OBVIOUS
    <2>3. i - 1 \in Int /\ i - 1 >= 0
      OBVIOUS
    <2>4. q \in Int /\ r \in 0..(DigestSize - 1) /\ q >= 0
      BY <2>1, <2>2, <2>3, Division
    <2>5. 1 + q \in Nat /\ 1 + r \in 1..DigestSize
      BY <2>1, <2>4
    <2>6. Block(d, 1 + q) \in [1..DigestSize -> Octet]
      <3>1. Block(d, 1 + q) \in Digest
        BY <2>5, DerivedBlocks
      <3> QED
        BY <3>1, Zenon DEF Digest
    <2>7. Block(d, 1 + q)[1 + r] \in Octet
      <3>1. PICK block, j : block = Block(d, 1 + q) /\ j = 1 + r
        OBVIOUS
      <3>2. block \in [1..DigestSize -> Octet] /\ j \in 1..DigestSize
        BY <2>5, <2>6, <3>1, Zenon
      <3>3. block[j] \in Octet
        BY <3>2, Zenon
      <3> QED
        BY <3>1, <3>3, Zenon
    <2> QED
      BY <2>2, <2>7, Zenon DEF StreamOctet
  <1>2. PICK last \in Nat \ {0} : last = (d.bits + 7) \div 8 /\ 8 * last - d.bits = 0
    <2>1. (128 + 7) \div 8 = 16 /\ (256 + 7) \div 8 = 32
      BY SMT
    <2>2. CASE d.bits = 128
      BY <2>1, <2>2
    <2>3. CASE d.bits = 256
      BY <2>1, <2>3
    <2> QED
      BY <2>2, <2>3
  <1>3. PICK o : o = StreamOctet(d, last)
    OBVIOUS
  <1>4. 2^0 * (o \div 2^0) = o
    <2>1. o \in Octet
      BY <1>1, <1>3
    <2> QED
      BY <2>1, Powers DEF Octet
  <1>5. Derived(d) = [i \in 1..(last - 1) |-> StreamOctet(d, i)] \o <<o>>
    <2>1. PICK e : e = 8 * last - d.bits
      OBVIOUS
    <2>2. e = 0 /\ last # 0
      BY <1>2, <2>1
    <2>3. Derived(d) = [i \in 1..(last - 1) |-> StreamOctet(d, i)]
                         \o <<2^e * (StreamOctet(d, last) \div 2^e)>>
      BY <1>2, <2>1, <2>2, Zenon DEF Derived
    <2> QED
      BY <1>3, <1>4, <2>2, <2>3, Zenon
  <1>6. PICK s : s = [i \in 1..(last - 1) |-> StreamOctet(d, i)]
    OBVIOUS
  <1>7. s \in Octets
    <2>1. \A i \in 1..(last - 1) : i \in Nat \ {0}
      OBVIOUS
    <2>2. s \in [1..(last - 1) -> Octet]
      BY <1>1, <1>6, <2>1, Zenon
    <2>3. last - 1 \in Nat
      OBVIOUS
    <2> QED
      BY <2>2, <2>3 DEF Octets
  <1>8. <<o>> \in Octets
    BY <1>1, <1>3, FewOctets
  <1> QED
    <2>1. Derived(d) = s \o <<o>>
      BY <1>5, <1>6, Zenon
    <2>2. PICK t : t = <<o>>
      OBVIOUS
    <2>3. s \o t \in Octets
      BY <1>7, <1>8, <2>2, ConcatType, Zenon
    <2> QED
      BY <2>1, <2>2, <2>3, Zenon

\* The arguments of KDFe.
AreOctets(a, b, c, d) == a \in Octets /\ b \in Octets /\ c \in Octets /\ d \in Octets

\* A seed is octets.
LEMMA DerivedSeed ==
  ASSUME Hashes, NEW a, NEW b, NEW c, NEW d, AreOctets(a, b, c, d)
  PROVE  KDFe(a, b, c, d, 256) \in Octets
  <1> USE DEF AreOctets
  <1>1. PICK x : x = [kdf |-> "KDFe", key |-> a, label |-> b, partyU |-> c, partyV |-> d,
                      bits |-> 256]
    OBVIOUS
  <1>2. x \in Derivation /\ x.bits \in {128, 256}
    BY <1>1 DEF Derivation
  <1> QED
    BY <1>1, <1>2, DerivedType, Zenon DEF KDFe

\* The keys of a wrap are octets.
LEMMA DerivedKeys ==
  ASSUME Hashes, NEW a \in Octets, NEW b \in Octets
  PROVE  SymKey(a, b) \in Octets /\ HMACKey(a) \in Octets
  <1>1. labelStorage \in Octets /\ labelIntegrity \in Octets /\ <<>> \in Octets
    <2>1. 83 \in Octet /\ 89 \in Octet
      BY DEF Octet
    <2> QED
      BY <2>1, FewOctets, Lengths DEF labelStorage, labelIntegrity
  <1>2. SymKey(a, b) \in Octets
    <2>1. PICK y : y = [kdf |-> "KDFa", key |-> a, label |-> labelStorage, partyU |-> b,
                        partyV |-> <<>>, bits |-> 128]
      OBVIOUS
    <2>2. y \in Derivation /\ y.bits \in {128, 256}
      BY <1>1, <2>1 DEF Derivation
    <2>3. Derived(y) \in Octets
      BY <2>2, DerivedType, Zenon
    <2> QED
      BY <2>1, <2>3 DEF SymKey, KDFa
  <1>3. HMACKey(a) \in Octets
    <2>1. PICK y : y = [kdf |-> "KDFa", key |-> a, label |-> labelIntegrity, partyU |-> <<>>,
                        partyV |-> <<>>, bits |-> 256]
      OBVIOUS
    <2>2. y \in Derivation /\ y.bits \in {128, 256}
      BY <1>1, <2>1 DEF Derivation
    <2>3. Derived(y) \in Octets
      BY <2>2, DerivedType, Zenon
    <2> QED
      BY <2>1, <2>3 DEF HMACKey, KDFa
  <1> QED
    BY <1>2, <1>3, Zenon

\* What both sides know when they derive a seed.
SeedParts(label, k, eph, x, qeX) ==
  /\ label \in Octets /\ k \in Nat /\ eph \in Nat
  /\ x \in {Bytes(PointX(k)), PutU16(PointX(k))}
  /\ qeX = leftPad(Bytes(PointX(eph)), FieldBytes)

\* Both sides derive the same seed: the library of the point of the key, in
\* whatever octets it has it, and its own number; the device of the number of the
\* key and the point it is sent.
LEMMA SameSeed ==
  ASSUME Hashes, NEW label, NEW k, NEW eph, NEW x, NEW qeX, SeedParts(label, k, eph, x, qeX)
  PROVE  /\ qeX = PutU16(PointX(eph))
         /\ Seed(label, Bytes(ScalarMult(SetBytes(x), eph)), qeX, x)
              = KDFe(PutU16(ScalarMult(SetBytes(qeX), k)), label, qeX, PutU16(PointX(k)), 256)
         /\ Seed(label, Bytes(ScalarMult(SetBytes(x), eph)), qeX, x) \in Octets
  <1> USE DEF SeedParts
  <1>1. PICK a, b, z : a = PointX(k) /\ b = PointX(eph) /\ z = ScalarMult(a, eph)
    OBVIOUS
  <1>2. a \in Nat /\ a < Prime /\ b \in Nat /\ b < Prime
    BY <1>1, PointsOfKeys, Zenon
  <1>3. z \in Nat /\ z < Prime /\ z = ScalarMult(b, k)
    BY <1>1, SharedPoint, Zenon
  <1>4. SetBytes(x) = a /\ leftPad(x, FieldBytes) = PutU16(a)
    <2>1. x \in {Bytes(a), PutU16(a)}
      BY <1>1, Zenon
    <2> QED
      BY <1>2, <2>1, NumberOctets, Zenon
  <1>5. qeX = PutU16(b) /\ SetBytes(qeX) = b
    <2>1. Bytes(b) \in {Bytes(b), PutU16(b)} /\ PutU16(b) \in {Bytes(b), PutU16(b)}
      OBVIOUS
    <2>2. leftPad(Bytes(b), FieldBytes) = PutU16(b) /\ SetBytes(PutU16(b)) = b
      BY <1>2, <2>1, NumberOctets, Zenon
    <2> QED
      BY <1>1, <2>2, Zenon
  <1>6. leftPad(Bytes(z), FieldBytes) = PutU16(z)
    <2>1. Bytes(z) \in {Bytes(z), PutU16(z)}
      OBVIOUS
    <2> QED
      BY <1>3, <2>1, NumberOctets, Zenon
  <1>7. Seed(label, Bytes(z), qeX, x) = KDFe(PutU16(z), label, qeX, PutU16(a), 256)
    BY <1>4, <1>6, Zenon DEF Seed
  <1>8. KDFe(PutU16(z), label, qeX, PutU16(a), 256) \in Octets
    <2>1. PutU16(z) \in Octets
      BY <1>3, U16s, Zenon
    <2>2. PutU16(a) \in Octets
      BY <1>2, U16s, Zenon
    <2>3. qeX \in Octets
      <3>1. PutU16(b) \in Octets
        BY <1>2, U16s, Zenon
      <3> QED
        BY <1>5, <3>1, Zenon
    <2>4. AreOctets(PutU16(z), label, qeX, PutU16(a))
      BY <2>1, <2>2, <2>3, Zenon DEF AreOctets
    <2> QED
      BY <2>4, DerivedSeed, Zenon
  <1> QED
    BY <1>1, <1>3, <1>4, <1>5, <1>7, <1>8, Zenon

\* A string that starts with a buffer.
LEMMA BufferRest ==
  ASSUME NEW x, IsBuffer(x), NEW rest \in Octets
  PROVE  Fields(<<"2b", "rest">>, MarshalTPM2B(x) \o rest) = <<x, rest>>
  <1>1. Starts(<<"2b">>, <<x>>, MarshalTPM2B(x))
    BY BufferParameters, Zenon
  <1>2. Fields(Append(<<"2b">>, "rest"), MarshalTPM2B(x) \o rest) = Append(<<x>>, rest)
    <2>1. PICK kinds, values, octets :
            kinds = <<"2b">> /\ values = <<x>> /\ octets = MarshalTPM2B(x)
      OBVIOUS
    <2>2. Starts(kinds, values, octets)
      BY <1>1, <2>1, Zenon
    <2>3. rest \in Octets
      OBVIOUS
    <2>4. Fields(Append(kinds, "rest"), octets \o rest) = Append(values, rest)
      BY <2>2, <2>3, FieldsRest, ZenonT(60)
    <2> QED
      BY <2>1, <2>4, Zenon
  <1>3. Append(<<"2b">>, "rest") = <<"2b", "rest">>
    <2>1. PICK a, b : a = "2b" /\ b = "rest"
      OBVIOUS
    <2>2. a \in Kinds /\ b \in Kinds
      BY <2>1 DEF Kinds
    <2>3. <<a>> \in Seq(Kinds)
      BY <2>2
    <2>4. Append(<<a>>, b) = <<a>> \o <<b>>
      BY <2>2, <2>3, AppendIsConcat
    <2>5. <<a>> \o <<b>> = <<a, b>>
      BY <2>2, Join2
    <2> QED
      BY <2>1, <2>4, <2>5, Zenon
  <1>4. Append(<<x>>, rest) = <<x, rest>>
    <2>1. x \in Octets
      BY Buffers, Zenon
    <2>2. <<x>> \in Seq(Octets)
      BY <2>1
    <2>3. Append(<<x>>, rest) = <<x>> \o <<rest>>
      BY <2>1, <2>2, AppendIsConcat
    <2> QED
      BY <2>1, <2>3, Join2
  <1> QED
    BY <1>2, <1>3, <1>4, Zenon

\* One buffer, and two.
LEMMA BufferFields ==
  ASSUME NEW x, IsBuffer(x), NEW y, IsBuffer(y)
  PROVE  /\ Fields(<<"2b">>, MarshalTPM2B(x)) = <<x>>
         /\ Fields(<<"2b", "2b">>, MarshalTPM2B(x) \o MarshalTPM2B(y)) = <<x, y>>
  <1>1. Starts(<<"2b">>, <<x>>, MarshalTPM2B(x)) /\ Starts(<<"2b">>, <<y>>, MarshalTPM2B(y))
    BY BufferParameters, Zenon
  <1>2. Starts(<<"2b", "2b">>, <<x, y>>, MarshalTPM2B(x) \o MarshalTPM2B(y))
    BY <1>1, StartsTwo, Zenon
  <1> QED
    BY <1>1, <1>2, StartsFields

\* What is read of several fields is not None.
LEMMA FewFields ==
  ASSUME NEW x \in Octets, NEW y \in Octets
  PROVE  <<x>> # None /\ <<x, y>> # None
  <1>1. <<x>> \in Seq(Octets) /\ <<x, y>> \in Seq(Octets)
    OBVIOUS
  <1> QED
    BY <1>1, NoneAssumption, Zenon

\* The parts of a wrap.
WrapParts(label, x, k, eph, name, plain) ==
  /\ label \in Octets /\ name \in Octets /\ k \in Nat /\ eph \in Nat
  /\ x \in {Bytes(PointX(k)), PutU16(PointX(k))}
  /\ plain \in Octets /\ Length(plain) + 70 <= Most

\* The device takes out of a wrap what was put in it, when the Name is that of
\* the object and the number that of the key.
THEOREM WrapOpens ==
  ASSUME Hashes, NEW label, NEW x, NEW k, NEW eph, NEW name, NEW plain,
         WrapParts(label, x, k, eph, name, plain)
  PROVE  \E outer, secret :
           /\ IsBuffer(outer) /\ IsBuffer(secret)
           /\ Wrapped(label, x, eph, name, plain)
                = [blob |-> MarshalTPM2B(outer), secret |-> MarshalTPM2B(secret)]
           /\ Unwrapped(label, k, name, outer, secret) = plain
  <1>1. /\ label \in Octets /\ name \in Octets /\ k \in Nat /\ eph \in Nat
        /\ x \in {Bytes(PointX(k)), PutU16(PointX(k))}
        /\ plain \in Octets /\ Length(plain) + 70 <= Most
    BY Zenon DEF WrapParts
  <1>2. PICK qeX, qeY : /\ qeX = leftPad(Bytes(PointX(eph)), FieldBytes)
                        /\ qeY = leftPad(Bytes(PointY(eph)), FieldBytes)
    OBVIOUS
  <1>3. PICK seed : seed = Seed(label, Bytes(ScalarMult(SetBytes(x), eph)), qeX, x)
    OBVIOUS
  <1>4. /\ qeX = PutU16(PointX(eph)) /\ seed \in Octets
        /\ seed = KDFe(PutU16(ScalarMult(SetBytes(qeX), k)), label, qeX, PutU16(PointX(k)), 256)
    <2>1. SeedParts(label, k, eph, x, qeX)
      BY <1>1, <1>2, Zenon DEF SeedParts
    <2>2. /\ qeX = PutU16(PointX(eph))
          /\ Seed(label, Bytes(ScalarMult(SetBytes(x), eph)), qeX, x)
               = KDFe(PutU16(ScalarMult(SetBytes(qeX), k)), label, qeX, PutU16(PointX(k)), 256)
          /\ Seed(label, Bytes(ScalarMult(SetBytes(x), eph)), qeX, x) \in Octets
      BY <2>1, SameSeed, Zenon
    <2> QED
      BY <1>3, <2>2, Zenon
  <1>5. IsBuffer(qeX) /\ Length(qeX) = 2 /\ IsBuffer(qeY) /\ Length(qeY) = 2
    <2>1. PICK a, b : a = PointX(eph) /\ b = PointY(eph)
      OBVIOUS
    <2>2. a \in Nat /\ b \in Nat /\ b < Prime
      BY <1>1, <2>1, PointsOfKeys, Zenon
    <2>3. Bytes(b) \in {Bytes(b), PutU16(b)}
      OBVIOUS
    <2>4. qeY = PutU16(b)
      BY <1>2, <2>1, <2>2, <2>3, NumberOctets, Zenon
    <2> QED
      BY <1>4, <2>1, <2>2, <2>4, Coordinates, Zenon
  <1>6. IsBuffer(plain)
    <2>1. Length(plain) <= Most
      BY <1>1, Lengths, Limits, SMT
    <2> QED
      BY <1>1, <2>1, Buffers, Zenon
  <1>7. PICK m, enc, key, code : /\ m = MarshalTPM2B(plain) /\ key = SymKey(seed, name)
                                 /\ enc = aesCFBZeroIV(key, m)
                                 /\ code = HMAC(HMACKey(seed), enc \o name)
    OBVIOUS
  <1>8. m \in Octets /\ Length(m) = 2 + Length(plain) /\ Length(plain) \in Nat
    BY <1>6, <1>7, Buffers, Zenon
  <1>9. key \in Octets /\ HMACKey(seed) \in Octets
    <2>1. SymKey(seed, name) \in Octets /\ HMACKey(seed) \in Octets
      BY <1>1, <1>4, DerivedKeys, Zenon
    <2> QED
      BY <1>7, <2>1, Zenon
  <1>10. enc \in Octets /\ Length(enc) = Length(m) /\ Deciphered(key, enc) = m
    BY <1>7, <1>8, <1>9, CipherInverse, Zenon
  <1>11. code \in Digest /\ IsBuffer(code) /\ Length(code) = DigestSize
    <2>1. enc \o name \in Octets
      BY <1>1, <1>10, ConcatType, Zenon
    <2>2. code \in Digest
      BY <1>7, <1>9, <2>1, Codes, Zenon
    <2> QED
      BY <2>2, Digests, Zenon
  <1>12. PICK mc, outer, secret : /\ mc = MarshalTPM2B(code) /\ outer = mc \o enc
                                 /\ secret = ECCPoint(qeX, qeY)
    OBVIOUS
  <1>13. IsBuffer(outer)
    <2>1. mc \in Octets /\ Length(mc) = 2 + DigestSize
      BY <1>11, <1>12, Buffers
    <2>2. outer \in Octets /\ Length(outer) = Length(mc) + Length(enc)
      BY <1>10, <1>12, <2>1, Longer, Zenon
    <2>3. DigestSize \in Nat /\ DigestSize <= 64
      BY Digests, Zenon
    <2>4. Length(outer) <= Most
      BY <1>1, <1>8, <1>10, <2>1, <2>2, <2>3, Limits, SMT
    <2> QED
      BY <2>2, <2>4, Buffers, Zenon
  <1>14. IsBuffer(secret)
    <2>1. PICK mx, my : mx = MarshalTPM2B(qeX) /\ my = MarshalTPM2B(qeY)
      OBVIOUS
    <2>2. mx \in Octets /\ Length(mx) = 4 /\ my \in Octets /\ Length(my) = 4
      BY <1>5, <2>1, Buffers
    <2>3. secret = mx \o my
      BY <1>12, <2>1, Zenon DEF ECCPoint
    <2>4. secret \in Octets /\ Length(secret) = Length(mx) + Length(my)
      BY <2>2, <2>3, Longer, Zenon
    <2>5. Length(secret) <= Most
      BY <2>2, <2>4, Limits, SMT DEF Most
    <2> QED
      BY <2>4, <2>5, Buffers, Zenon
  <1>15. Wrapped(label, x, eph, name, plain)
           = [blob |-> MarshalTPM2B(outer), secret |-> MarshalTPM2B(secret)]
    BY <1>2, <1>3, <1>7, <1>12, Zenon DEF Wrapped
  <1>16. Unwrapped(label, k, name, outer, secret) = plain
    <2>1. PICK point, parts : point = <<qeX, qeY>> /\ parts = <<code, enc>>
      OBVIOUS
    <2>2. Fields(<<"2b", "2b">>, secret) = point /\ point # None /\ point[1] = qeX
      <3>1. Fields(<<"2b", "2b">>, secret) = point
        BY <1>5, <1>12, <2>1, BufferFields, Zenon DEF ECCPoint
      <3>2. qeX \in Octets /\ qeY \in Octets
        BY <1>5, Buffers, Zenon
      <3>3. point # None
        BY <2>1, <3>2, FewFields, Zenon
      <3>4. point[1] = qeX
        BY <2>1
      <3> QED
        BY <3>1, <3>3, <3>4
    <2>3. /\ Fields(<<"2b", "rest">>, outer) = parts /\ parts # None
          /\ parts[1] = code /\ parts[2] = enc
      <3>1. Fields(<<"2b", "rest">>, outer) = parts
        BY <1>10, <1>11, <1>12, <2>1, BufferRest, Zenon
      <3>2. code \in Octets
        BY <1>11, Buffers, Zenon
      <3>3. parts # None
        BY <1>10, <2>1, <3>2, FewFields, Zenon
      <3>4. parts[1] = code /\ parts[2] = enc
        BY <2>1
      <3> QED
        BY <3>1, <3>3, <3>4
    <2>4. PICK read : read = <<plain>>
      OBVIOUS
    <2>5. Fields(<<"2b">>, m) = read /\ read # None /\ read[1] = plain
      <3>1. Fields(<<"2b">>, m) = read
        BY <1>6, <1>7, <2>4, BufferFields, Zenon
      <3>2. read # None
        BY <1>1, <2>4, FewFields, Zenon
      <3>3. read[1] = plain
        BY <2>4
      <3> QED
        BY <3>1, <3>2, <3>3
    <2>6. KDFe(PutU16(ScalarMult(SetBytes(point[1]), k)), label, point[1], PutU16(PointX(k)), 256)
            = seed
      BY <1>4, <2>2, Zenon
    <2>7. Fields(<<"2b">>, Deciphered(SymKey(seed, name), parts[2])) = read
      BY <1>7, <1>10, <2>3, <2>5, Zenon
    <2>8. parts[1] = HMAC(HMACKey(seed), parts[2] \o name)
      BY <1>7, <2>3, Zenon
    <2>9. Unwrapped(label, k, name, outer, secret) = read[1]
      BY <2>2, <2>3, <2>5, <2>6, <2>7, <2>8, Zenon DEF Unwrapped
    <2> QED
      BY <2>5, <2>9, Zenon
  <1> QED
    BY <1>13, <1>14, <1>15, <1>16, Zenon
=============================================================================
