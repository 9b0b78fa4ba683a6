-------------------------------- MODULE MCLog -------------------------------
(* Instances of Log for TLC.                                               *)
EXTENDS Log, TLC

\* Processes and contents are interchangeable, and so are the blocks, but for
\* the one behind the log.
Symmetry ==
    Permutations(Procs) \cup Permutations(Blocks \ {Behind}) \cup Permutations(Vals)
=============================================================================
