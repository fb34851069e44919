----------------------------- MODULE Activation -----------------------------
(***************************************************************************)
(* What credential activation promises, without keys, sessions or handles: *)
(* a credential is bound to an attestation key and to the device of an     *)
(* endorsement key, and it is recovered only by a program of a device that *)
(* is both and has both keys loaded.                                       *)
(*                                                                         *)
(* Module Activating (makecred.go and activate.go over a device) implements *)
(* this.                                                                   *)
(***************************************************************************)
CONSTANTS Callers, Devices, ThisDevice, Credentials, None

VARIABLES
  present,                  \* the keys of this device that are loaded
  bound,                    \* the credentials, each with its condition
  result                    \* result[c]: the credential c last recovered

vars == <<present, bound, result>>

Kinds == {"attestation", "endorsement"}

Key == [kind : Kinds, device : Devices]

\* A credential, the key it is to vouch for, and the key it is sent to.
Binding == [credential : Credentials, ak : Key, ek : Key]

Init == /\ present = {}
        /\ bound = {}
        /\ result = [c \in Callers |-> None]

LoadKey == /\ \E k \in Kinds : present' = present \cup {k}
           /\ UNCHANGED <<bound, result>>

\* The platform is reset: no key is loaded, and the program is gone.
Reset == /\ present' = {}
         /\ result' = [c \in Callers |-> None]
         /\ UNCHANGED bound

Crash == /\ result' = [c \in Callers |-> None]
         /\ UNCHANGED <<present, bound>>

\* A credential is bound once, by a verifier or by a program that forgets the
\* one it has.
Bind == /\ \E b \in Binding :
             /\ \A old \in bound : old.credential # b.credential
             /\ bound' = bound \cup {b}
        /\ \/ UNCHANGED result
           \/ \E c \in Callers : result' = [result EXCEPT ![c] = None]
        /\ UNCHANGED present

Recover(c) ==
  /\ present = Kinds
  /\ \E b \in bound :
       /\ b.ak = [kind |-> "attestation", device |-> ThisDevice]
       /\ b.ek = [kind |-> "endorsement", device |-> ThisDevice]
       /\ result' = [result EXCEPT ![c] = b.credential]
  /\ UNCHANGED <<present, bound>>

Forget(c) == /\ result' = [result EXCEPT ![c] = None]
             /\ UNCHANGED <<present, bound>>

Next == \/ LoadKey \/ Reset \/ Crash \/ Bind
        \/ \E c \in Callers : Recover(c) \/ Forget(c)

Spec == Init /\ [][Next]_vars
=============================================================================
