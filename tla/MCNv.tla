-------------------------------- MODULE MCNv --------------------------------
(* An instance of Nv for TLC: one index of two cells.                       *)
EXTENDS Nv

FewData == {<<1>>, <<2, 1>>}
=============================================================================
