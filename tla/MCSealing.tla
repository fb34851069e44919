----------------------------- MODULE MCSealing -----------------------------
(* Instances of Sealing for TLC: the constants the configurations name, and *)
(* the symmetry of callers and handles.                                     *)
EXTENDS Sealing, TLC

CONSTANT d1

\* Both ends of the three-octet window.
EdgePCRs == {0, 23}

\* One selection inside the window, one that runs over its end.
EdgeSelections == {{0, 23}, {23, 24}}

\* Selections for reads that do not fit in one reply, and one that does.
WideSelections == {{0, 23}, {0}}

\* The state before any measurement, and the one after a boot measured PCR 0.
BootStates == { [p \in PCRs |-> <<>>],
                [p \in PCRs |-> IF p = 0 THEN <<d1>> ELSE <<>>] }

NoStates == {}

Symmetry == Permutations(Callers) \cup Permutations(ObjectHandles)
              \cup Permutations(SessionHandles)

HandleSymmetry == Permutations(ObjectHandles)
=============================================================================
