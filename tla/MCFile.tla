------------------------------- MODULE MCFile -------------------------------
(* Instance of File for TLC.                                               *)
EXTENDS File

\* The words that the processes write are numbers of blocks, to tell a block
\* of data that is taken for an indirect one.
WordOf == [p1 |-> 4, p2 |-> 5]

\* One process writes two files through two places; parent and child write
\* through a shared one; both make, copy and close descriptors.
Uses == {[p1 |-> {"open", "create", "unlink", "close", "write", "read"}, p2 |-> {}],
         [p1 |-> {"create", "fork", "write", "close"}, p2 |-> {"write", "read", "exit"}],
         [p1 |-> {"create", "open", "unlink", "close", "fork"},
          p2 |-> {"dup", "pipe", "close", "exit"}]}
=============================================================================
