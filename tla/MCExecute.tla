----------------------------- MODULE MCExecute -----------------------------
(* Instances of Execute for TLC.  The callers are interchangeable, so the  *)
(* runs without liveness use symmetry.                                     *)
EXTENDS Execute, TLC

CallerSymmetry == Permutations(Callers)
=============================================================================
