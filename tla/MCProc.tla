------------------------------- MODULE MCProc -------------------------------
(* Instances of Proc for TLC.                                              *)
EXTENDS Proc, TLC

\* CPUs are alike.
Symmetry == Permutations(CPUs)
=============================================================================
