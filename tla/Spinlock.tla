------------------------------ MODULE Spinlock ------------------------------
(***************************************************************************)
(* Spin locks and the masking of interrupts (spinlock.c), as steps of what *)
(* runs on a CPU.                                                          *)
(***************************************************************************)
EXTENDS Naturals, FiniteSets

CONSTANTS CPUs, Locks, FREE

ASSUME SpinlockAssumption == FREE \notin CPUs \cup Locks

VARIABLES
    lock,      \* the CPU that holds each lock, or FREE
    intr,      \* FL_IF of each CPU
    ncli, intena,
    want,      \* the lock that the CPU spins for, or FREE
    panic      \* the panics of acquire(), release(), popcli() and sched()

spinvars == <<lock, intr, ncli, intena, want, panic>>

SpinInit(on) ==
    /\ lock = [l \in Locks |-> FREE]
    /\ intr = [c \in CPUs |-> on]
    /\ ncli = [c \in CPUs |-> 0]
    /\ intena = [c \in CPUs |-> FALSE]
    /\ want = [c \in CPUs |-> FREE]
    /\ panic = FALSE

\* mycpu()->intena after pushcli()
Saved(c) == IF ncli[c] = 0 THEN intr[c] ELSE intena[c]

\* pushcli()
pushcli(c) ==
    /\ intena' = [intena EXCEPT ![c] = Saved(c)]
    /\ intr' = [intr EXCEPT ![c] = FALSE]
    /\ ncli' = [ncli EXCEPT ![c] = @ + 1]

\* popcli()
popcli(c) ==
    /\ ncli' = [ncli EXCEPT ![c] = @ - 1]
    /\ intr' = [intr EXCEPT ![c] = @ \/ (ncli[c] = 1 /\ intena[c])]

\* acquire() up to the loop, and its end.
Spin(c, l) ==
    /\ want[c] = FREE
    /\ pushcli(c)
    /\ want' = [want EXCEPT ![c] = l]
    /\ panic' = (panic \/ lock[l] = c)
    /\ UNCHANGED lock
Take(c, l) ==
    /\ want[c] = l /\ lock[l] = FREE
    /\ lock' = [lock EXCEPT ![l] = c]
    /\ want' = [want EXCEPT ![c] = FREE]
    /\ UNCHANGED <<intr, ncli, intena, panic>>

release(c, l) ==
    /\ lock' = [lock EXCEPT ![l] = FREE]
    /\ popcli(c)
    /\ panic' = (panic \/ lock[l] # c \/ intr[c] \/ ncli[c] = 0)
    /\ UNCHANGED <<intena, want>>
=============================================================================
