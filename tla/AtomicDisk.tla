------------------------------ MODULE AtomicDisk ----------------------------
(***************************************************************************)
(* What the log of log.c promises to the file system: a disk whose         *)
(* durable contents change in one step, from one state in which no file    *)
(* system call is in progress to a later such state, and to which a crash  *)
(* returns.                                                                *)
(***************************************************************************)
EXTENDS Naturals

CONSTANTS Blocks, Vals

VARIABLES disk,    \* what a reboot would find
          mem,     \* what the running file system reads
          active   \* number of file system calls in progress

vars == <<disk, mem, active>>

Init ==
    /\ disk \in [Blocks -> Vals]
    /\ mem = disk
    /\ active = 0

Begin ==
    /\ active' = active + 1
    /\ UNCHANGED <<disk, mem>>

Write(b, v) ==
    /\ active > 0
    /\ mem' = [mem EXCEPT ![b] = v]
    /\ UNCHANGED <<disk, active>>

End ==
    /\ active > 0
    /\ active' = active - 1
    /\ UNCHANGED <<disk, mem>>

Commit ==
    /\ active = 0
    /\ disk' = mem
    /\ UNCHANGED <<mem, active>>

Crash ==
    /\ mem' = disk
    /\ active' = 0
    /\ UNCHANGED disk

Next ==
    \/ Begin
    \/ \E b \in Blocks, v \in Vals : Write(b, v)
    \/ End
    \/ Commit
    \/ Crash

Spec == Init /\ [][Next]_vars
=============================================================================
