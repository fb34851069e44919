---------------------------- MODULE MCActivating ----------------------------
(* Instances of Activating for TLC.                                         *)
EXTENDS Activating, TLC

CONSTANT other

PublicOf(k, d, known) ==
  [key |-> [kind |-> k, device |-> d], supported |-> known]

\* The keys of this device, the endorsement key of another, and an area that
\* is refused.
SomePublics == {PublicOf("attestation", OwnKey, TRUE),
                PublicOf("endorsement", OwnKey, TRUE),
                PublicOf("endorsement", other, TRUE),
                PublicOf("attestation", OwnKey, FALSE)}

NoPCRs == {}

Symmetry == Permutations(Callers) \cup Permutations(Credentials)
              \cup Permutations(ObjectHandles)
              \cup Permutations(SessionHandles)
=============================================================================
