------------------------------- MODULE MCProc -------------------------------
(* Instances of Proc for TLC.                                              *)
EXTENDS Proc, TLC

\* The processors are interchangeable.
Symmetry == Permutations(CPUS)
=============================================================================
