--------------------------- MODULE PCRSelections ---------------------------
(***************************************************************************)
(* PCR selections as pcr.go puts them on the wire.  A selection is a set of *)
(* indices here; module Wire has the octets.                               *)
(***************************************************************************)
EXTENDS Integers

pcrSelectSize == 3          \* octets of the pcrSelect bitmap

\* Mutants of bitmap: PCR 0 taken for no PCR; the upper bound left out.
bitmap_ZeroDropped(s) == {i \in s : ~(i <= 0 \/ i >= pcrSelectSize * 8)}
bitmap_Unbounded(s) == {i \in s : ~(i < 0)}

\* The selection that goes on the wire: indices outside the three octets are
\* dropped without an error.
bitmap(s) == {i \in s : ~(i < 0 \/ i >= pcrSelectSize * 8)}

\* The platform PCRs among the indices a caller asked for.
Platform(s) == s \cap (0..23)
=============================================================================
