---------------------------- MODULE MCAttesting ----------------------------
(* Instances of Attesting for TLC.                                         *)
EXTENDS Attesting, TLC

CONSTANT d1

\* Both ends of the three-octet window.
EdgePCRs == {0, 23}

\* Two PCRs, and a list that runs over the end of the window.
EdgeSelections == {{0, 23}, {23, 24}}

\* Another device measured PCR 0 only.
OtherBoot == { [p \in PCRs |-> IF p = 0 THEN <<d1>> ELSE <<>>] }

Symmetry == Permutations(Verifiers) \cup Permutations(Nonces) \cup Permutations(ObjectHandles)
=============================================================================
