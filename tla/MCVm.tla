-------------------------------- MODULE MCVm --------------------------------
(* Instance of Vm for TLC.                                                 *)
EXTENDS Vm

Seg(vaddr, memsz, filesz) ==
    [vaddr |-> vaddr, memsz |-> memsz, filesz |-> filesz, short |-> FALSE]

\* Programs of one, two and three pages, one whose second segment is below
\* the first, and files that exec() refuses.
Files == {<<Seg(0, 1, 1)>>, <<Seg(0, 2, 1), Seg(2, 2, 2)>>, <<Seg(0, 4, 2), Seg(0, 1, 1)>>,
          <<>>, <<Seg(0, 6, 0)>>, <<Seg(0, 0, 0)>>, <<Seg(1, 2, 1)>>, <<Seg(0, 1, 2)>>, <<Seg(2, Wrap - 1, 0)>>,
          <<Seg(0, KERNBASE, 0)>>, <<[Seg(0, 2, 2) EXCEPT !.short = TRUE]>>}
=============================================================================
