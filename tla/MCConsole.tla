----------------------------- MODULE MCConsole ------------------------------
(* Symmetry of Console for TLC: the processes are alike.                   *)
EXTENDS Console, TLC

SymProcs == Permutations(Procs)
=============================================================================
