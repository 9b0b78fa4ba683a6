----------------------------- MODULE BlockStore -----------------------------
(***************************************************************************)
(* What the buffer cache promises to the file system: the blocks of the    *)
(* disk as variables, each used by one process at a time and changed by    *)
(* that process alone.                                                     *)
(***************************************************************************)
CONSTANTS Procs, Blocks, Vals, NULL

VARIABLES mem,     \* the contents of the blocks
          holder   \* who uses the block

vars == <<mem, holder>>

Init ==
    /\ mem \in [Blocks -> Vals]
    /\ holder = [b \in Blocks |-> NULL]

Acquire(p, b) ==
    /\ holder[b] = NULL
    /\ holder' = [holder EXCEPT ![b] = p]
    /\ UNCHANGED mem

Write(p, b, v) ==
    /\ holder[b] = p
    /\ mem' = [mem EXCEPT ![b] = v]
    /\ UNCHANGED holder

Release(p, b) ==
    /\ holder[b] = p
    /\ holder' = [holder EXCEPT ![b] = NULL]
    /\ UNCHANGED mem

Next ==
    \E p \in Procs, b \in Blocks :
        \/ Acquire(p, b)
        \/ \E v \in Vals : Write(p, b, v)
        \/ Release(p, b)

Spec == Init /\ [][Next]_vars
=============================================================================
