------------------------------ MODULE Replies ------------------------------
(***************************************************************************)
(* The parsers that turn the parameter octets of a reply into values.      *)
(*                                                                         *)
(* Each parser of the source reads a fixed layout from left to right and   *)
(* returns common.ErrShortBuffer as soon as a field does not fit in what   *)
(* is left.  Here a layout is a sequence of fields, and a parser a machine *)
(* that takes one field per step from the list of those still to be read.  *)
(* A reply may be cut anywhere, or be garbled; what a parser then does is  *)
(* what module MCReplies and the theorems of RepliesProofs are about.      *)
(***************************************************************************)
EXTENDS Layouts

\* A reply: which parser it is given to, its octets, and, when it is a reply a
\* device gives or such a reply cut short, what the device says in it, how the
\* parse has to end and with which values.
CONSTANT Inputs

Outcomes == {"done", "short", "unexpected", "any"}

VARIABLES
  input,                    \* the reply
  todo,                     \* the fields that are still to be read
  off,                      \* the octets read
  lim,                      \* the end of the buffer being read
  got,                      \* the values kept
  selected,                 \* the PCR indices of the selections kept
  status                    \* "parsing", or how the parser ended

vars == <<input, todo, off, lim, got, selected, status>>

layout(i) == Parsers[i.parser]

Whole(i) == Speech(layout(i), i.said)

\* The last thing the device says is one that the parser does not accept.
Refusal(i) ==
  LET n == Len(i.said)
  IN n > 0 /\ Refuses(layout(i)[n], i.said[n], Whole(i).values)

\* The device says what the layout calls for, or stops calling for it after
\* what the parser refuses.
Says(i) ==
  /\ i.said \in Seq(Seq(Seq(Seq(Octet))))
  /\ IF Refusal(i) THEN Len(i.said) <= Len(layout(i))
                   ELSE Len(i.said) = Len(layout(i))
  /\ \A n \in 1..Len(i.said) :
       \/ n = Len(i.said) /\ Refusal(i)
       \/ Fits(layout(i)[n], i.said[n], Whole(i).values)

\* A reply is short when it is cut within what the device says; otherwise
\* anything may follow, and the outcome is that of the whole.
Sent(i) ==
  /\ Says(i)
  /\ \/ i.outcome = "short" /\ IsStrictPrefix(i.octets, Whole(i).octets)
     \/ /\ i.outcome = IF Refusal(i) THEN "unexpected" ELSE "done"
        /\ IsPrefix(Whole(i).octets, i.octets)
  /\ i.outcome = "done" => i.values = Whole(i).values /\ i.pcrs = Whole(i).pcrs

ASSUME InputsAssumption ==
  \A i \in Inputs : /\ i.parser \in DOMAIN Parsers
                    /\ i.octets \in Seq(Octet)
                    /\ i.outcome \in Outcomes
                    /\ i.outcome # "any" => Sent(i)
-----------------------------------------------------------------------------
(* Reading integers, as package common does.                               *)

Has(n) == off + n <= lim
U8(i)  == input.octets[i + 1]

U16(i) == 256 * U8(i) + U8(i + 1)

\* A 32-bit count, cut at MaxCount: no reply is nearly as long.
Count(i) == IF U8(i) > 0 THEN MaxCount ELSE MaxSize * U8(i + 1) + U16(i + 2)

Octets(i, n) == SubSeq(input.octets, i + 1, i + n)

\* What is left of a list, and the end of a buffer.
Times(n, of) == [k |-> "times", n |-> n, of |-> of]
Close        == [k |-> "close"]

field == Head(todo)
Reading(k) == status = "parsing" /\ todo # <<>> /\ field.k = k

\* Mutant of Needs: a field that is only skipped is not checked.
Needs_SkipUnchecked ==
  CASE field.k = "int"          -> IF field.keep THEN field.w ELSE 0
    [] field.k = "expect"       -> Len(field.v)
    [] field.k \in {"2b", "buffer"} -> 2 + (IF Has(2) THEN U16(off) ELSE 0)
    [] field.k = "bitmap"       -> 1 + (IF Has(1) THEN U8(off) ELSE 0)
    [] field.k = "detail"       -> 2 + (IF Has(2) /\ Octets(off, 2) # algNull
                                        THEN field.w ELSE 0)
    [] field.k = "list"         -> 4
    [] OTHER                    -> 0

\* The octets a field takes.  A size that is itself cut off needs no more.
Needs ==
  CASE field.k = "int"          -> field.w
    [] field.k = "expect"       -> Len(field.v)
    [] field.k \in {"2b", "buffer"} -> 2 + (IF Has(2) THEN U16(off) ELSE 0)
    [] field.k = "bitmap"       -> 1 + (IF Has(1) THEN U8(off) ELSE 0)
    [] field.k = "detail"       -> 2 + (IF Has(2) /\ Octets(off, 2) # algNull
                                        THEN field.w ELSE 0)
    [] field.k = "list"         -> 4
    [] OTHER                    -> 0
-----------------------------------------------------------------------------
(* One action per kind of field.                                           *)

\* n octets are read, the values in kept are kept, and next comes next.
Take(n, kept, next) ==
  /\ Has(Needs)
  /\ off' = off + n
  /\ got' = got \o kept
  /\ todo' = next
  /\ UNCHANGED <<input, lim, selected, status>>

End(how) == status' = how /\ UNCHANGED <<input, todo, off, lim, got, selected>>

\* Mutant of GetInt: the caller ignores ok, and keeps a zero.
GetInt_OkIgnored ==
  /\ Reading("int")
  /\ IF Has(field.w)
     THEN Take(field.w, If(field.keep, Octets(off, field.w)), Tail(todo))
     ELSE /\ got' = got \o If(field.keep, <<0>>)
          /\ todo' = Tail(todo)
          /\ UNCHANGED <<input, off, lim, selected, status>>

GetInt ==
  /\ Reading("int")
  /\ Take(field.w, If(field.keep, Octets(off, field.w)), Tail(todo))

GetExpected ==
  /\ Reading("expect")
  /\ Has(Needs)
  /\ IF Octets(off, Len(field.v)) = field.v
     THEN Take(Len(field.v), <<>>, Tail(todo))
     ELSE End("unexpected")

UnmarshalTPM2B ==
  /\ Reading("2b")
  /\ Take(Needs, If(field.keep, Octets(off + 2, Needs - 2)), Tail(todo))

GetBitmap ==
  /\ Reading("bitmap")
  /\ Has(Needs)
  /\ off' = off + Needs
  /\ selected' = selected \o
       If(field.keep, pcrsFromBitmap(Octets(off + 1, Needs - 1)))
  /\ todo' = Tail(todo)
  /\ UNCHANGED <<input, lim, got, status>>

\* Mutant of GetDetail: the details are skipped even of the algorithm NULL.
GetDetail_Always ==
  /\ Reading("detail")
  /\ Take(2 + field.w, <<>>, Tail(todo))

GetDetail ==
  /\ Reading("detail")
  /\ Take(Needs, <<>>, Tail(todo))

\* The contents of a TPM2B are parsed as a buffer of their own.
Enter ==
  /\ Reading("buffer")
  /\ Has(Needs)
  /\ off' = off + 2
  /\ lim' = off + Needs
  /\ todo' = field.of \o <<Close>> \o Tail(todo)
  /\ UNCHANGED <<input, got, selected, status>>

Leave ==
  /\ Reading("close")
  /\ off' = lim
  /\ lim' = Len(input.octets)
  /\ todo' = Tail(todo)
  /\ UNCHANGED <<input, got, selected, status>>

GetCount ==
  /\ Reading("list")
  /\ Has(Needs)
  /\ Take(4, <<>>, <<Times(Count(off), field.of)>> \o Tail(todo))

\* for i < count.
Iterate ==
  /\ Reading("times")
  /\ Take(0, <<>>, IF field.n = 0 THEN Tail(todo)
                   ELSE field.of \o <<Times(field.n - 1, field.of)>> \o Tail(todo))

CheckFirst ==
  /\ Reading("first")
  /\ IF got # <<>> /\ Head(got) = field.v
     THEN Take(0, <<>>, Tail(todo))
     ELSE End("unexpected")

\* Mutant of ErrShortBuffer: the parser waits for more.
ErrShortBuffer_Awaited ==
  /\ status = "parsing" /\ todo # <<>>
  /\ ~Has(Needs)
  /\ UNCHANGED vars

ErrShortBuffer ==
  /\ status = "parsing" /\ todo # <<>>
  /\ ~Has(Needs)
  /\ End("short")

Return ==
  /\ status = "parsing" /\ todo = <<>>
  /\ End("done")

Init ==
  /\ input \in Inputs
  /\ todo = layout(input)
  /\ off = 0
  /\ lim = Len(input.octets)
  /\ got = <<>> /\ selected = <<>>
  /\ status = "parsing"

Next == \/ GetInt \/ GetExpected \/ UnmarshalTPM2B \/ GetBitmap \/ GetDetail
        \/ Enter \/ Leave \/ GetCount \/ Iterate \/ CheckFirst
        \/ ErrShortBuffer \/ Return

\* A parser is sequential code: it runs until it returns.
Spec == Init /\ [][Next]_vars /\ WF_vars(Next)
-----------------------------------------------------------------------------
(* Properties.                                                             *)

TypeOK ==
  /\ input.octets \in Seq(Octet)
  /\ off \in Nat /\ lim \in Nat
  /\ got \in Seq(Seq(Octet)) /\ selected \in Seq(SUBSET Nat)
  /\ status \in {"parsing", "done", "short", "unexpected"}

\* No slice past the end of a buffer, which would be a run-time panic: the
\* parser stays within the buffer it is in, and that within the reply, whatever
\* sizes and counts the reply claims.
InBounds == off <= lim /\ lim <= Len(input.octets)

\* Counts and sizes in a reply are claims.  What a parser keeps is bounded by
\* the octets it has read, not by what a count promises.
KeptIsPaidFor == Len(got) + Len(selected) <= off

\* A whole reply gives the values the device put into it (or the error that
\* the reply calls for), and a reply cut anywhere before the last field that
\* the parser needs gives ErrShortBuffer, never a value made of what is left.
Decodes ==
  (status # "parsing" /\ input.outcome # "any") =>
    /\ status = input.outcome
    /\ status = "done" => got = input.values /\ selected = input.pcrs

\* Every parse ends.
Finishes == <>(status # "parsing")
=============================================================================
