------------------------------- MODULE Vault -------------------------------
(***************************************************************************)
(* What PCR sealing promises, without keys, sessions or handles: a secret  *)
(* is kept for a set of PCRs and the values they are to have, and it is    *)
(* given out only at a moment when they have them.                         *)
(*                                                                         *)
(* Module Sealing (seal.go and import.go over a device) implements this.   *)
(***************************************************************************)
EXTENDS Integers, Sequences

CONSTANTS Callers, PCRs, Digests, Secrets, None

VARIABLES
  pcr,                      \* the measurements made in each PCR
  kept,                     \* the secrets, each with its condition
  result                    \* result[c]: what c was last given

vars == <<pcr, kept, result>>

\* A secret, the PCRs it depends on, and the values they are to have.
Entry == [secret : Secrets, sel : SUBSET PCRs,
          vals : [PCRs -> Seq(Digests) \cup {None}]]

Init == /\ pcr = [p \in PCRs |-> <<>>]
        /\ kept = {}
        /\ result = [c \in Callers |-> None]

Measure == /\ \E p \in PCRs, d \in Digests :
                pcr' = [pcr EXCEPT ![p] = Append(@, d)]
           /\ UNCHANGED <<kept, result>>

\* A reset clears the PCRs and whatever the program held.
Reset == /\ pcr' = [p \in PCRs |-> <<>>]
         /\ result' = [c \in Callers |-> None]
         /\ UNCHANGED kept

\* The program dies and is started again.
Crash == /\ result' = [c \in Callers |-> None]
         /\ UNCHANGED <<pcr, kept>>

\* A secret is kept, once.  The new entry is named through kept' because the
\* entries are too many to enumerate.
Keep == /\ \E e \in kept' :
             /\ e \in Entry
             /\ \A old \in kept : old.secret # e.secret
             /\ kept' = kept \cup {e}
        /\ UNCHANGED <<pcr, result>>

Release(c) == /\ \E e \in kept :
                   /\ \A p \in e.sel : pcr[p] = e.vals[p]
                   /\ result' = [result EXCEPT ![c] = e.secret]
              /\ UNCHANGED <<pcr, kept>>

\* c asks again, and what it was given before is gone.
Forget(c) == /\ result' = [result EXCEPT ![c] = None]
             /\ UNCHANGED <<pcr, kept>>

Next == \/ Measure \/ Reset \/ Crash \/ Keep
        \/ \E c \in Callers : Release(c) \/ Forget(c)

Spec == Init /\ [][Next]_vars
=============================================================================
