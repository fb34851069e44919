---------------------------- MODULE CommandOnce ----------------------------
(***************************************************************************)
(* What the callers of one TPM command may rely on, whatever the transport *)
(* loses and however often the command layer sends it: the command takes   *)
(* effect at most once, a caller told that it succeeded knows that it took *)
(* effect, a caller told that the TPM refused it knows that it did not, and*)
(* any other error leaves both possible.                                   *)
(*                                                                         *)
(* Module Execute (tpm.go) implements this specification.                  *)
(***************************************************************************)
EXTENDS Naturals

CONSTANT Callers            \* the goroutines that issue commands

VARIABLES
  phase,                    \* phase[c]: "idle", or "pending" during a call
  effects,                  \* effects[c]: how often c's last command ran
  verdict                   \* verdict[c]: what the last call told c

vars == <<phase, effects, verdict>>

Init == /\ phase = [c \in Callers |-> "idle"]
        /\ effects = [c \in Callers |-> 0]
        /\ verdict = [c \in Callers |-> "none"]

\* c asks for a command.
Begin(c) == /\ phase[c] = "idle"
            /\ phase' = [phase EXCEPT ![c] = "pending"]
            /\ effects' = [effects EXCEPT ![c] = 0]
            /\ verdict' = [verdict EXCEPT ![c] = "none"]

\* The TPM runs the command, which it does once.
Effect(c) == /\ phase[c] = "pending"
             /\ effects[c] = 0
             /\ effects' = [effects EXCEPT ![c] = 1]
             /\ UNCHANGED <<phase, verdict>>

\* The call returns, with a verdict that is true of what the TPM did.
Finish(c) == /\ phase[c] = "pending"
             /\ \E v \in {"ok", "refused", "unknown"} :
                  /\ v = "ok" => effects[c] = 1
                  /\ v = "refused" => effects[c] = 0
                  /\ verdict' = [verdict EXCEPT ![c] = v]
             /\ phase' = [phase EXCEPT ![c] = "idle"]
             /\ UNCHANGED effects

Next == \E c \in Callers : Begin(c) \/ Effect(c) \/ Finish(c)

Spec == Init /\ [][Next]_vars
=============================================================================
