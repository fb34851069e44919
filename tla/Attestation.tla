---------------------------- MODULE Attestation ----------------------------
(***************************************************************************)
(* What remote attestation promises, without keys, nonces or messages: a   *)
(* verifier that asks learns values that the PCRs of the device had, all at *)
(* one moment, and that moment came after it asked.                        *)
(*                                                                         *)
(* Module Attesting (Quote and VerifyQuote over a device) implements this. *)
(***************************************************************************)
EXTENDS Integers, Sequences

CONSTANTS Verifiers, PCRs, Digests, None

VARIABLES
  pcr,                      \* the measurements made in each PCR
  seen,                     \* seen[v]: the PCR states since v asked, if it did
  verdict                   \* verdict[v]: what v learned, or None

vars == <<pcr, seen, verdict>>

\* The values of the PCRs in S, in the PCR state f.
Values(f, S) == [p \in PCRs |-> IF p \in S THEN f[p] ELSE None]

Init == /\ pcr = [p \in PCRs |-> <<>>]
        /\ seen = [v \in Verifiers |-> {}]
        /\ verdict = [v \in Verifiers |-> None]

\* The PCRs change, and those who wait for an answer may be told either state.
Become(f) == /\ pcr' = f
             /\ seen' = [v \in Verifiers |->
                          IF seen[v] = {} THEN {} ELSE seen[v] \cup {f}]
             /\ UNCHANGED verdict

Measure == \E p \in PCRs, d \in Digests :
             Become([pcr EXCEPT ![p] = Append(@, d)])

Reset == Become([p \in PCRs |-> <<>>])

Ask(v) == /\ seen' = [seen EXCEPT ![v] = {pcr}]
          /\ verdict' = [verdict EXCEPT ![v] = None]
          /\ UNCHANGED pcr

Learn(v) == /\ \E f \in seen[v], S \in SUBSET PCRs :
                 verdict' = [verdict EXCEPT ![v] = Values(f, S)]
            /\ seen' = [seen EXCEPT ![v] = {}]
            /\ UNCHANGED pcr

Next == \/ Measure \/ Reset
        \/ \E v \in Verifiers : Ask(v) \/ Learn(v)

Spec == Init /\ [][Next]_vars
=============================================================================
