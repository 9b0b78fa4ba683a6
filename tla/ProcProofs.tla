----------------------------- MODULE ProcProofs -----------------------------
(***************************************************************************)
(* Proofs of the invariants of Proc for any number of CPUs, slots, pids    *)
(* and channels.                                                           *)
(***************************************************************************)
EXTENDS Proc, TLAPS

\* A process that exists owns a kernel stack, so the scheduler never
\* switches to a stack that is not there.
LiveStack == \A s \in Slots : Live(s) => kstack[s]

\* A zombie never left exit(): it has no fork() in progress.
ZombieInExit == \A s \in Slots : state[s] = "ZOMBIE" => pc[s] = "exit"

\* Nobody kills init, so init never comes to exit().
InitAlive ==
    /\ initproc \in Slots
    /\ pid[initproc] = 1
    /\ ~killed[initproc]
    /\ pc[initproc] # "exit"
    /\ Live(initproc) /\ state[initproc] # "ZOMBIE"

\* wait() sleeps on the process itself: the channel exit() and the
\* hand-over to init call wakeup1() with.
WaitChan ==
    \A s \in Slots : state[s] = "SLEEPING" /\ pc[s] = "wait" => chan[s] = s

\* No process is its own parent: the parent that exit() wakes is another one.
NotOwnParent == \A s \in Slots : parent[s] # s

IInv ==
    /\ TypeOK
    /\ CpuInv
    /\ EmbryoOwned
    /\ ZombieInExit
    /\ LiveStack
    /\ StackSafe
    /\ InitAlive
    /\ Orphans
    /\ NotOwnParent
    /\ WaitChan
    /\ NoMissedExit


-----------------------------------------------------------------------------

\* NULL is neither a process, nor a CPU, nor a channel.
LEMMA NullFresh ==
    NULL \notin Slots /\ NULL \notin CPUS /\ NULL \notin CHANS /\ Slots \cap CHANS = {}
BY ProcAssumption


\* main() leaves the machine in a state of the invariant.
LEMMA InitInv == Init => IInv
<1> SUFFICES ASSUME Init PROVE IInv
  OBVIOUS
<1>0. initproc \in Slots /\ NULL \notin Slots
  BY ProcAssumption DEF initproc, Slots
<1>1. TypeOK
  BY <1>0 DEF Init, TypeOK, procstate, Where, Control
<1>2. CpuInv
  BY <1>0 DEF Init, CpuInv, Runs
<1>3. EmbryoOwned
  BY <1>0 DEF Init, EmbryoOwned
<1>4. ZombieInExit /\ LiveStack /\ StackSafe
  BY <1>0 DEF Init, ZombieInExit, LiveStack, StackSafe, Live
<1>5. InitAlive
  BY <1>0 DEF Init, InitAlive, Live
<1>6. Orphans
  BY <1>0 DEF Init, Orphans, Live
<1>7. NotOwnParent /\ WaitChan /\ NoMissedExit
  BY <1>0 DEF Init, NotOwnParent, WaitChan, NoMissedExit
<1> QED
  BY <1>1, <1>2, <1>3, <1>4, <1>5, <1>6, <1>7 DEF IInv


\* The scheduler takes the lock.
LEMMA SchedAcquireInv ==
  ASSUME IInv, NEW c \in CPUS, SchedAcquire(c)
  PROVE  IInv'
<1>1. TypeOK'
  BY DEF SchedAcquire, TypeOK, procstate, Where, Control, IInv, table
<1>2. CpuInv'
  BY NullFresh DEF SchedAcquire, CpuInv, Runs, TypeOK, IInv, table
<1>3. /\ EmbryoOwned' /\ ZombieInExit' /\ LiveStack' /\ StackSafe'
      /\ InitAlive' /\ Orphans' /\ NotOwnParent' /\ WaitChan'
      /\ NoMissedExit'
  BY DEF SchedAcquire, IInv, table, EmbryoOwned, Live, ZombieInExit,
     LiveStack, StackSafe, InitAlive, Orphans, NotOwnParent, WaitChan,
     NoMissedExit, Kids, ZombieKids
<1> QED
  BY <1>1, <1>2, <1>3 DEF IInv

\* The process taken up is on no CPU: a CPU that is still switching away from
\* a process holds ptable.lock.
LEMMA DispatchInv ==
  ASSUME IInv, NEW c \in CPUS, NEW s \in Slots, Dispatch(c, s)
  PROVE  IInv'
<1>1. \A d \in CPUS : cpuproc[d] # s
  BY NullFresh DEF IInv, CpuInv, TypeOK, Control, Runs, Dispatch
<1>2. kstack[s]
  BY DEF IInv, LiveStack, Live, Dispatch
<1>3. TypeOK'
  BY DEF Dispatch, TypeOK, procstate, Where, Control, IInv
<1>4. CpuInv'
  BY <1>1, <1>2 DEF Dispatch, CpuInv, Runs, TypeOK, IInv
<1>5. EmbryoOwned'
  BY DEF Dispatch, EmbryoOwned, Live, TypeOK, IInv
<1>6. ZombieInExit'
  BY DEF Dispatch, ZombieInExit, TypeOK, IInv
<1>7. LiveStack'
  BY DEF Dispatch, LiveStack, Live, TypeOK, IInv
<1>8. StackSafe'
  BY <1>1, <1>2 DEF Dispatch, StackSafe, TypeOK, IInv
<1>9. InitAlive'
  BY DEF Dispatch, InitAlive, Live, TypeOK, IInv
<1>10. Orphans'
  BY DEF Dispatch, Orphans, Live, TypeOK, IInv
<1>11. WaitChan'
  BY DEF Dispatch, WaitChan, TypeOK, IInv
<1>12. NoMissedExit'
  BY DEF Dispatch, NoMissedExit, Kids, ZombieKids, TypeOK, IInv
<1>13. NotOwnParent'
  BY DEF Dispatch, IInv, NotOwnParent
<1> QED
  BY <1>3, <1>4, <1>5, <1>6, <1>7, <1>8, <1>9, <1>10, <1>11, <1>12, <1>13 DEF
     IInv

\* The scheduler lets go of the process it has come back from.
LEMMA SchedBackInv ==
  ASSUME IInv, NEW c \in CPUS, SchedBack(c)
  PROVE  IInv'
<1>1. TypeOK'
  BY DEF SchedBack, TypeOK, procstate, Where, Control, IInv, table
<1>2. CpuInv'
  BY DEF SchedBack, CpuInv, Runs, TypeOK, IInv, table
<1>3. StackSafe'
  BY DEF SchedBack, StackSafe, TypeOK, IInv, table
<1>4. /\ EmbryoOwned' /\ ZombieInExit' /\ LiveStack' /\ InitAlive'
      /\ Orphans' /\ NotOwnParent' /\ WaitChan' /\ NoMissedExit'
  BY DEF SchedBack, IInv, table, EmbryoOwned, Live, ZombieInExit, LiveStack,
     InitAlive, Orphans, NotOwnParent, WaitChan, NoMissedExit, Kids,
     ZombieKids
<1> QED
  BY <1>1, <1>2, <1>3, <1>4 DEF IInv

\* The end of the scan.
LEMMA SchedReleaseInv ==
  ASSUME IInv, NEW c \in CPUS, SchedRelease(c)
  PROVE  IInv'
<1>1. TypeOK'
  BY DEF SchedRelease, TypeOK, procstate, Where, Control, IInv, table
<1>2. CpuInv'
  BY DEF SchedRelease, CpuInv, Runs, TypeOK, IInv, table
<1>3. /\ EmbryoOwned' /\ ZombieInExit' /\ LiveStack' /\ StackSafe'
      /\ InitAlive' /\ Orphans' /\ NotOwnParent' /\ WaitChan'
      /\ NoMissedExit'
  BY DEF SchedRelease, IInv, table, EmbryoOwned, Live, ZombieInExit,
     LiveStack, StackSafe, InitAlive, Orphans, NotOwnParent, WaitChan,
     NoMissedExit, Kids, ZombieKids
<1> QED
  BY <1>1, <1>2, <1>3 DEF IInv

\* The dispatched process releases the lock.
LEMMA ResumeInv ==
  ASSUME IInv, NEW c \in CPUS, NEW s \in Slots, Resume(c, s)
  PROVE  IInv'
<1>1. TypeOK'
  BY DEF Resume, Runs, TypeOK, procstate, Where, Control, IInv
<1>2. CpuInv'
  BY DEF Resume, Runs, CpuInv, TypeOK, IInv
<1>3. EmbryoOwned'
  BY DEF Resume, Runs, EmbryoOwned, Live, TypeOK, IInv
<1>4. ZombieInExit'
  BY DEF Resume, Runs, ZombieInExit, TypeOK, IInv
<1>5. InitAlive'
  BY DEF Resume, Runs, InitAlive, Live, TypeOK, IInv
<1>6. WaitChan'
  BY DEF Resume, Runs, WaitChan, TypeOK, IInv
<1>7. NoMissedExit'
  BY DEF Resume, Runs, NoMissedExit, Kids, ZombieKids, TypeOK, IInv
<1>8. LiveStack' /\ StackSafe' /\ Orphans' /\ NotOwnParent'
  BY DEF Resume, Runs, IInv, LiveStack, Live, StackSafe, Orphans, NotOwnParent
<1> QED
  BY <1>1, <1>2, <1>3, <1>4, <1>5, <1>6, <1>7, <1>8 DEF IInv

\* System call entry; init is never killed.
LEMMA TrapSyscallInv ==
  ASSUME IInv, NEW c \in CPUS, NEW s \in Slots, TrapSyscall(c, s)
  PROVE  IInv'
<1>1. TypeOK'
  BY DEF TrapSyscall, Runs, TypeOK, procstate, Where, Control, IInv, table,
     cpu
<1>2. EmbryoOwned'
  BY DEF TrapSyscall, Runs, EmbryoOwned, Live, TypeOK, IInv, table, cpu
<1>3. ZombieInExit'
  BY DEF TrapSyscall, Runs, ZombieInExit, TypeOK, IInv, table, cpu
<1>4. InitAlive'
  BY DEF TrapSyscall, Runs, InitAlive, Live, TypeOK, IInv, table, cpu
<1>5. WaitChan'
  BY DEF TrapSyscall, Runs, WaitChan, TypeOK, IInv, table, cpu
<1>6. NoMissedExit'
  BY DEF TrapSyscall, Runs, NoMissedExit, Kids, ZombieKids, TypeOK, IInv,
     table, cpu
<1>7. CpuInv' /\ LiveStack' /\ StackSafe' /\ Orphans' /\ NotOwnParent'
  BY DEF TrapSyscall, Runs, IInv, table, cpu, CpuInv, LiveStack, Live,
     StackSafe, Orphans, NotOwnParent
<1> QED
  BY <1>1, <1>2, <1>3, <1>4, <1>5, <1>6, <1>7 DEF IInv

\* System call return; init is never killed.
LEMMA SysReturnInv ==
  ASSUME IInv, NEW c \in CPUS, NEW s \in Slots, SysReturn(c, s)
  PROVE  IInv'
<1>1. TypeOK'
  BY DEF SysReturn, Runs, TypeOK, procstate, Where, Control, IInv, table, cpu
<1>2. EmbryoOwned'
  BY DEF SysReturn, Runs, EmbryoOwned, Live, TypeOK, IInv, table, cpu
<1>3. ZombieInExit'
  BY DEF SysReturn, Runs, ZombieInExit, TypeOK, IInv, table, cpu
<1>4. InitAlive'
  BY DEF SysReturn, Runs, InitAlive, Live, TypeOK, IInv, table, cpu
<1>5. WaitChan'
  BY DEF SysReturn, Runs, WaitChan, TypeOK, IInv, table, cpu
<1>6. NoMissedExit'
  BY DEF SysReturn, Runs, NoMissedExit, Kids, ZombieKids, TypeOK, IInv, table,
     cpu
<1>7. CpuInv' /\ LiveStack' /\ StackSafe' /\ Orphans' /\ NotOwnParent'
  BY DEF SysReturn, Runs, IInv, table, cpu, CpuInv, LiveStack, Live,
     StackSafe, Orphans, NotOwnParent
<1> QED
  BY <1>1, <1>2, <1>3, <1>4, <1>5, <1>6, <1>7 DEF IInv

\* The clock finds a killed process.
LEMMA TickKilledInv ==
  ASSUME IInv, NEW c \in CPUS, NEW s \in Slots, TickKilled(c, s)
  PROVE  IInv'
<1>1. TypeOK'
  BY DEF TickKilled, Runs, TypeOK, procstate, Where, Control, IInv, table, cpu
<1>2. EmbryoOwned'
  BY DEF TickKilled, Runs, EmbryoOwned, Live, TypeOK, IInv, table, cpu
<1>3. ZombieInExit'
  BY DEF TickKilled, Runs, ZombieInExit, TypeOK, IInv, table, cpu
<1>4. InitAlive'
  BY DEF TickKilled, Runs, InitAlive, Live, TypeOK, IInv, table, cpu
<1>5. WaitChan'
  BY DEF TickKilled, Runs, WaitChan, TypeOK, IInv, table, cpu
<1>6. NoMissedExit'
  BY DEF TickKilled, Runs, NoMissedExit, Kids, ZombieKids, TypeOK, IInv,
     table, cpu
<1>7. CpuInv' /\ LiveStack' /\ StackSafe' /\ Orphans' /\ NotOwnParent'
  BY DEF TickKilled, Runs, IInv, table, cpu, CpuInv, LiveStack, Live,
     StackSafe, Orphans, NotOwnParent
<1> QED
  BY <1>1, <1>2, <1>3, <1>4, <1>5, <1>6, <1>7 DEF IInv

\* A fault of a process other than init.
LEMMA TrapFaultInv ==
  ASSUME IInv, NEW c \in CPUS, NEW s \in Slots, TrapFault(c, s)
  PROVE  IInv'
<1>1. TypeOK'
  BY DEF TrapFault, Runs, TypeOK, procstate, Where, Control, IInv, cpu
<1>2. EmbryoOwned'
  BY DEF TrapFault, Runs, EmbryoOwned, Live, TypeOK, IInv, cpu
<1>3. ZombieInExit'
  BY DEF TrapFault, Runs, ZombieInExit, TypeOK, IInv, cpu
<1>4. InitAlive'
  BY DEF TrapFault, Runs, InitAlive, Live, TypeOK, IInv, cpu
<1>5. WaitChan'
  BY DEF TrapFault, Runs, WaitChan, TypeOK, IInv, cpu
<1>6. NoMissedExit'
  BY DEF TrapFault, Runs, NoMissedExit, Kids, ZombieKids, TypeOK, IInv, cpu
<1>7. CpuInv' /\ LiveStack' /\ StackSafe' /\ Orphans' /\ NotOwnParent'
  BY DEF TrapFault, Runs, IInv, cpu, CpuInv, LiveStack, Live, StackSafe,
     Orphans, NotOwnParent
<1> QED
  BY <1>1, <1>2, <1>3, <1>4, <1>5, <1>6, <1>7 DEF IInv

\* Giving up the CPU.
LEMMA YieldInv ==
  ASSUME IInv, NEW c \in CPUS, NEW s \in Slots, yield(c, s)
  PROVE  IInv'
<1>1. state[s] = "RUNNING"
  BY DEF IInv, CpuInv, yield, Runs
<1>2. TypeOK'
  BY DEF yield, Runs, sched, TypeOK, procstate, Where, Control, IInv
<1>3. CpuInv'
  BY NullFresh DEF yield, Runs, sched, CpuInv, TypeOK, IInv
<1>4. EmbryoOwned'
  BY <1>1 DEF yield, Runs, sched, EmbryoOwned, Live, TypeOK, IInv
<1>5. ZombieInExit'
  BY DEF yield, Runs, sched, ZombieInExit, TypeOK, IInv
<1>6. LiveStack'
  BY <1>1 DEF yield, Runs, sched, LiveStack, Live, TypeOK, IInv
<1>7. InitAlive'
  BY DEF yield, Runs, sched, InitAlive, Live, TypeOK, IInv
<1>8. Orphans'
  BY <1>1 DEF yield, Runs, sched, Orphans, Live, TypeOK, IInv
<1>9. WaitChan'
  BY DEF yield, Runs, sched, WaitChan, TypeOK, IInv
<1>10. NoMissedExit'
  BY DEF yield, Runs, sched, NoMissedExit, Kids, ZombieKids, TypeOK, IInv
<1>11. StackSafe' /\ NotOwnParent'
  BY DEF yield, Runs, sched, IInv, StackSafe, NotOwnParent
<1> QED
  BY <1>2, <1>3, <1>4, <1>5, <1>6, <1>7, <1>8, <1>9, <1>10, <1>11 DEF IInv

\* The slot taken belongs to no other fork().
LEMMA AllocprocInv ==
  ASSUME IInv, NEW c \in CPUS, NEW s \in Slots, NEW n \in Slots, allocproc(c, s, n)
  PROVE  IInv'
<1>1. state[s] = "RUNNING"
  BY DEF IInv, CpuInv, allocproc, Runs
<1>2. TypeOK'
  BY DEF allocproc, Runs, TypeOK, procstate, Where, Control, IInv, cpu
<1>3. CpuInv'
  BY DEF allocproc, Runs, CpuInv, TypeOK, IInv, cpu
<1>4. EmbryoOwned'
  BY <1>1 DEF allocproc, Runs, EmbryoOwned, Live, TypeOK, IInv, cpu
<1>5. ZombieInExit'
  BY DEF allocproc, Runs, ZombieInExit, TypeOK, IInv, cpu
<1>6. LiveStack'
  BY DEF allocproc, Runs, LiveStack, Live, TypeOK, IInv, cpu
<1>7. InitAlive'
  BY DEF allocproc, Runs, InitAlive, Live, TypeOK, IInv, cpu
<1>8. Orphans'
  BY DEF allocproc, Runs, Orphans, Live, TypeOK, IInv, cpu
<1>9. WaitChan'
  BY DEF allocproc, Runs, WaitChan, TypeOK, IInv, cpu
<1>10. NoMissedExit'
  BY DEF allocproc, Runs, NoMissedExit, Kids, ZombieKids, TypeOK, IInv, cpu
<1>11. StackSafe' /\ NotOwnParent'
  BY DEF allocproc, Runs, IInv, cpu, StackSafe, NotOwnParent
<1> QED
  BY <1>2, <1>3, <1>4, <1>5, <1>6, <1>7, <1>8, <1>9, <1>10, <1>11 DEF IInv

\* The slot given back is an EMBRYO: nobody runs it and it is nobody's child.
LEMMA ForkFailInv ==
  ASSUME IInv, NEW c \in CPUS, NEW s \in Slots, ForkFail(c, s)
  PROVE  IInv'
<1>1. state[s] = "RUNNING"
  BY DEF IInv, CpuInv, ForkFail, Runs
<1>2. state[np[s]] = "EMBRYO" /\ np[s] \in Slots /\ np[np[s]] = NULL
  BY <1>1 DEF IInv, TypeOK, EmbryoOwned, Live, ForkFail
<1>3. np[s] # initproc /\ np[s] # s /\ parent[np[s]] = NULL
  BY <1>1, <1>2 DEF IInv, InitAlive, Orphans, Live
<1>4. TypeOK'
  BY DEF ForkFail, Runs, TypeOK, procstate, Where, Control, IInv, cpu
<1>5. CpuInv'
  BY <1>1, <1>2, <1>3 DEF ForkFail, Runs, CpuInv, TypeOK, IInv, cpu
<1>6. EmbryoOwned'
  BY NullFresh DEF ForkFail, Runs, EmbryoOwned, Live, TypeOK, IInv, cpu
<1>7. ZombieInExit'
  BY DEF ForkFail, Runs, ZombieInExit, TypeOK, IInv, cpu
<1>8. LiveStack'
  BY DEF ForkFail, Runs, LiveStack, Live, TypeOK, IInv, cpu
<1>9. InitAlive'
  BY <1>1, <1>2, <1>3 DEF ForkFail, Runs, InitAlive, Live, TypeOK, IInv, cpu
<1>10. Orphans'
  BY <1>1, <1>2, <1>3 DEF ForkFail, Runs, Orphans, Live, TypeOK, IInv, cpu
<1>11. WaitChan'
  BY DEF ForkFail, Runs, WaitChan, TypeOK, IInv, cpu
<1>12. NoMissedExit'
  BY DEF ForkFail, Runs, NoMissedExit, Kids, ZombieKids, TypeOK, IInv, cpu
<1>13. StackSafe' /\ NotOwnParent'
  BY DEF ForkFail, Runs, IInv, cpu, StackSafe, NotOwnParent
<1> QED
  BY <1>4, <1>5, <1>6, <1>7, <1>8, <1>9, <1>10, <1>11, <1>12, <1>13 DEF IInv

\* The child is nobody's before it becomes a child of s.
LEMMA ForkInv ==
  ASSUME IInv, NEW c \in CPUS, NEW s \in Slots, fork(c, s)
  PROVE  IInv'
<1>1. state[s] = "RUNNING"
  BY DEF IInv, CpuInv, fork, Runs
<1>2. state[np[s]] = "EMBRYO" /\ np[s] \in Slots /\ np[np[s]] = NULL
  BY <1>1 DEF IInv, TypeOK, EmbryoOwned, Live, fork
<1>3. np[s] # initproc /\ np[s] # s /\ parent[np[s]] = NULL
  BY <1>1, <1>2 DEF IInv, InitAlive, Orphans, Live
<1>4. TypeOK'
  BY DEF fork, Runs, TypeOK, procstate, Where, Control, IInv, cpu
<1>5. CpuInv'
  BY <1>1, <1>2, <1>3 DEF fork, Runs, CpuInv, TypeOK, IInv, cpu
<1>6. EmbryoOwned'
  BY NullFresh DEF fork, Runs, EmbryoOwned, Live, TypeOK, IInv, cpu
<1>7. ZombieInExit'
  BY DEF fork, Runs, ZombieInExit, TypeOK, IInv, cpu
<1>8. LiveStack'
  BY DEF fork, Runs, LiveStack, Live, TypeOK, IInv, cpu
<1>9. StackSafe'
  BY DEF fork, Runs, StackSafe, TypeOK, IInv, cpu
<1>10. InitAlive'
  BY DEF fork, Runs, InitAlive, Live, TypeOK, IInv, cpu
<1>11. Orphans'
  BY <1>1, <1>2, <1>3 DEF fork, Runs, Orphans, Live, TypeOK, IInv, cpu
<1>12. NotOwnParent'
  BY <1>1, <1>2, <1>3 DEF fork, Runs, NotOwnParent, TypeOK, IInv, cpu
<1>13. WaitChan'
  BY DEF fork, Runs, WaitChan, TypeOK, IInv, cpu
<1>14. NoMissedExit'
  BY <1>1, <1>2, <1>3, NullFresh DEF fork, Runs, NoMissedExit, Kids,
     ZombieKids, TypeOK, IInv, cpu
<1> QED
  BY <1>4, <1>5, <1>6, <1>7, <1>8, <1>9, <1>10, <1>11, <1>12, <1>13, <1>14 DEF
     IInv

\* Only other processes than init call exit().
LEMMA SysExitInv ==
  ASSUME IInv, NEW c \in CPUS, NEW s \in Slots, SysExit(c, s)
  PROVE  IInv'
<1>1. TypeOK'
  BY DEF SysExit, Runs, TypeOK, procstate, Where, Control, IInv, table, cpu
<1>2. EmbryoOwned'
  BY DEF SysExit, Runs, EmbryoOwned, Live, TypeOK, IInv, table, cpu
<1>3. ZombieInExit'
  BY DEF SysExit, Runs, ZombieInExit, TypeOK, IInv, table, cpu
<1>4. InitAlive'
  BY DEF SysExit, Runs, InitAlive, Live, TypeOK, IInv, table, cpu
<1>5. WaitChan'
  BY DEF SysExit, Runs, WaitChan, TypeOK, IInv, table, cpu
<1>6. NoMissedExit'
  BY DEF SysExit, Runs, NoMissedExit, Kids, ZombieKids, TypeOK, IInv, table,
     cpu
<1>7. CpuInv' /\ LiveStack' /\ StackSafe' /\ Orphans' /\ NotOwnParent'
  BY DEF SysExit, Runs, IInv, table, cpu, CpuInv, LiveStack, Live, StackSafe,
     Orphans, NotOwnParent
<1> QED
  BY <1>1, <1>2, <1>3, <1>4, <1>5, <1>6, <1>7 DEF IInv

\* The children go to init, who is alive, and who is told of zombies.
LEMMA ExitInv ==
  ASSUME IInv, NEW c \in CPUS, NEW s \in Slots, exit(c, s)
  PROVE  IInv'
<1>1. state[s] = "RUNNING" /\ s # initproc
  BY DEF IInv, CpuInv, InitAlive, exit, Runs
<1>2. state' = [k \in Slots |-> IF k = s THEN "ZOMBIE" ELSE
                            WakeInit(s, WakeParent(s))[k]]
  BY DEF exit, WakeInit, WakeParent, wakeup1
<1>3. \A k \in Slots \ {s} :
           \/ state'[k] = state[k]
           \/ state[k] = "SLEEPING" /\ state'[k] = "RUNNABLE"
  BY <1>2 DEF WakeInit, WakeParent, wakeup1
<1>4. state'[s] = "ZOMBIE"
  BY <1>2
<1>5. parent' = [k \in Slots |-> IF parent[k] = s THEN initproc ELSE parent[k]]
  BY DEF exit, Abandon, Kids
<1>6. /\ cpc' = [cpc EXCEPT ![c] = "swtch"] /\ lock' = c /\ lock = NULL
      /\ cpc[c] = "proc" /\ cpuproc[c] = s /\ pc[s] = "exit"
      /\ UNCHANGED <<pid, chan, killed, kstack, nextpid, cpuproc, pc, np>>
  BY DEF exit, sched, Runs
<1>7. initproc \in Slots /\ Live(initproc) /\ state[initproc] # "ZOMBIE"
  BY DEF IInv, InitAlive
<1>8. TypeOK'
  <2>1. state' \in [Slots -> procstate]
    BY <1>1, <1>2, <1>3, <1>4 DEF IInv, TypeOK, procstate
  <2>2. parent' \in [Slots -> Slots \cup {NULL}]
    BY <1>5, <1>7 DEF IInv, TypeOK
  <2>3. cpc' \in [CPUS -> Control] /\ lock' \in CPUS \cup {NULL}
    BY <1>6 DEF IInv, TypeOK, Control
  <2> QED
    BY <2>1, <2>2, <2>3, <1>6 DEF IInv, TypeOK
<1>9. CpuInv'
  BY <1>1, <1>3, <1>4, <1>5, <1>6, <1>7, NullFresh DEF IInv, CpuInv, TypeOK, Runs
<1>10. EmbryoOwned'
  BY <1>1, <1>3, <1>4, <1>5, <1>6, <1>7, NullFresh DEF IInv, EmbryoOwned, TypeOK, Live
<1>11. ZombieInExit'
  BY <1>1, <1>3, <1>4, <1>5, <1>6, <1>7, NullFresh DEF IInv, ZombieInExit
<1>12. LiveStack'
  BY <1>1, <1>3, <1>4, <1>5, <1>6, <1>7, NullFresh DEF IInv, LiveStack, Live
<1>13. InitAlive'
  BY <1>1, <1>3, <1>4, <1>5, <1>6, <1>7, NullFresh DEF IInv, InitAlive, Live
<1>14. Orphans'
  BY <1>1, <1>3, <1>4, <1>5, <1>6, <1>7, NullFresh DEF IInv, Orphans, Live, TypeOK
<1>15. NotOwnParent'
  BY <1>1, <1>3, <1>4, <1>5, <1>6, <1>7, NullFresh DEF IInv, NotOwnParent, Orphans
<1>16. WaitChan'
  BY <1>1, <1>3, <1>4, <1>5, <1>6, <1>7, NullFresh DEF IInv, WaitChan
<1>17. NoMissedExit'
  <2> SUFFICES ASSUME NEW w \in Slots, (state[w] = "SLEEPING" /\ pc[w] = "wait")'
             PROVE  (Kids(w) # {} /\ ZombieKids(w) = {} /\ ~killed[w])'
    BY DEF NoMissedExit
  <2>1. w # s /\ state[w] = "SLEEPING" /\ pc[w] = "wait" /\ chan[w] = w
    BY <1>3, <1>4, <1>6 DEF IInv, WaitChan
  <2>2. Kids(w) # {} /\ ZombieKids(w) = {} /\ ~killed[w]
    BY <2>1 DEF IInv, NoMissedExit
  <2>3. w # parent[s]
    BY <1>2, <2>1 DEF WakeInit, WakeParent, wakeup1
  <2>4. w = initproc => ZombieKids(s) = {}
    BY <1>2, <2>1 DEF WakeInit, WakeParent, wakeup1
  <2>5. Kids(w) \subseteq Kids(w)'
    BY <1>5, <2>1 DEF Kids
  <2>6. ZombieKids(w)' = {}
    <3> SUFFICES ASSUME NEW k \in Slots, parent'[k] = w, state'[k] = "ZOMBIE"
               PROVE  FALSE
      BY DEF ZombieKids, Kids
    <3>1. CASE k = s
      BY <3>1, <1>5, <2>3 DEF IInv, NotOwnParent
    <3>2. CASE k # s /\ parent[k] = s
      BY <3>2, <1>3, <1>5, <2>4 DEF ZombieKids, Kids
    <3>3. CASE k # s /\ parent[k] # s
      BY <3>3, <1>3, <1>5, <2>2 DEF ZombieKids, Kids
    <3> QED
      BY <3>1, <3>2, <3>3
  <2> QED
    BY <2>2, <2>5, <2>6, <1>6
<1>18. StackSafe'
  BY DEF exit, Runs, sched, WakeInit, WakeParent, wakeup1, Abandon, Kids,
     ZombieKids, IInv, StackSafe
<1> QED
  BY <1>8, <1>9, <1>10, <1>11, <1>12, <1>13, <1>14, <1>15, <1>16, <1>17, <1>18
     DEF IInv

\* The zombie is on no CPU, not even on one that is still leaving its stack.
LEMMA WaitReapInv ==
  ASSUME IInv, NEW c \in CPUS, NEW s \in Slots, NEW z \in Slots, WaitReap(c, s, z)
  PROVE  IInv'
<1>1. state[s] = "RUNNING"
  BY DEF IInv, CpuInv, WaitReap, InWait, Runs
<1>2. z \in Slots /\ state[z] = "ZOMBIE"
  BY DEF WaitReap, ZombieKids, Kids
<1>3. \A d \in CPUS : cpuproc[d] # z
  BY <1>1, <1>2, NullFresh DEF IInv, CpuInv, TypeOK, Control, Runs, WaitReap, InWait
<1>4. np[z] = NULL /\ z # initproc
  BY <1>2 DEF IInv, EmbryoOwned, ZombieInExit, InitAlive
<1>5. \A k \in Slots : parent[k] # z
  BY <1>2, NullFresh DEF IInv, Orphans
<1>6. TypeOK'
  BY DEF WaitReap, InWait, Runs, Kids, ZombieKids, TypeOK, procstate, Where,
     Control, IInv
<1>7. CpuInv'
  BY DEF WaitReap, InWait, Runs, Kids, ZombieKids, CpuInv, TypeOK, IInv
<1>8. EmbryoOwned'
  BY <1>1, <1>2, <1>3, <1>4, <1>5 DEF WaitReap, InWait, Runs, Kids,
     ZombieKids, EmbryoOwned, Live, TypeOK, IInv
<1>9. ZombieInExit'
  BY DEF WaitReap, InWait, Runs, Kids, ZombieKids, ZombieInExit, TypeOK, IInv
<1>10. LiveStack'
  BY DEF WaitReap, InWait, Runs, Kids, ZombieKids, LiveStack, Live, TypeOK,
     IInv
<1>11. StackSafe'
  BY <1>1, <1>2, <1>3, <1>4, <1>5 DEF WaitReap, InWait, Runs, Kids,
     ZombieKids, StackSafe, TypeOK, IInv
<1>12. InitAlive'
  BY DEF WaitReap, InWait, Runs, Kids, ZombieKids, InitAlive, Live, TypeOK,
     IInv
<1>13. Orphans'
  BY DEF WaitReap, InWait, Runs, Kids, ZombieKids, Orphans, Live, TypeOK, IInv
<1>14. NotOwnParent'
  BY NullFresh DEF WaitReap, InWait, Runs, Kids, ZombieKids, NotOwnParent,
     TypeOK, IInv
<1>15. WaitChan'
  BY DEF WaitReap, InWait, Runs, Kids, ZombieKids, WaitChan, TypeOK, IInv
<1>16. NoMissedExit'
  BY DEF WaitReap, InWait, Runs, Kids, ZombieKids, NoMissedExit, TypeOK, IInv
<1> QED
  BY <1>6, <1>7, <1>8, <1>9, <1>10, <1>11, <1>12, <1>13, <1>14, <1>15, <1>16
     DEF IInv

\* wait() without children.
LEMMA WaitNoneInv ==
  ASSUME IInv, NEW c \in CPUS, NEW s \in Slots, WaitNone(c, s)
  PROVE  IInv'
<1>1. TypeOK'
  BY DEF WaitNone, InWait, Runs, TypeOK, procstate, Where, Control, IInv
<1>2. CpuInv'
  BY DEF WaitNone, InWait, Runs, CpuInv, TypeOK, IInv
<1>3. EmbryoOwned'
  BY DEF WaitNone, InWait, Runs, EmbryoOwned, Live, TypeOK, IInv
<1>4. ZombieInExit'
  BY DEF WaitNone, InWait, Runs, ZombieInExit, TypeOK, IInv
<1>5. InitAlive'
  BY DEF WaitNone, InWait, Runs, InitAlive, Live, TypeOK, IInv
<1>6. WaitChan'
  BY DEF WaitNone, InWait, Runs, WaitChan, TypeOK, IInv
<1>7. NoMissedExit'
  BY DEF WaitNone, InWait, Runs, NoMissedExit, Kids, ZombieKids, TypeOK, IInv
<1>8. LiveStack' /\ StackSafe' /\ Orphans' /\ NotOwnParent'
  BY DEF WaitNone, InWait, Runs, IInv, LiveStack, Live, StackSafe, Orphans,
     NotOwnParent
<1> QED
  BY <1>1, <1>2, <1>3, <1>4, <1>5, <1>6, <1>7, <1>8 DEF IInv

\* wait() goes to sleep when there is nothing to miss.
LEMMA WaitSleepInv ==
  ASSUME IInv, NEW c \in CPUS, NEW s \in Slots, WaitSleep(c, s)
  PROVE  IInv'
<1>1. state[s] = "RUNNING"
  BY DEF IInv, CpuInv, WaitSleep, InWait, Runs
<1>2. TypeOK'
  BY DEF WaitSleep, InWait, Runs, sched, TypeOK, procstate, Where, Control,
     IInv
<1>3. CpuInv'
  BY NullFresh DEF WaitSleep, InWait, Runs, sched, CpuInv, TypeOK, IInv
<1>4. EmbryoOwned'
  BY <1>1 DEF WaitSleep, InWait, Runs, sched, EmbryoOwned, Live, TypeOK, IInv
<1>5. ZombieInExit'
  BY DEF WaitSleep, InWait, Runs, sched, ZombieInExit, TypeOK, IInv
<1>6. LiveStack'
  BY <1>1 DEF WaitSleep, InWait, Runs, sched, LiveStack, Live, TypeOK, IInv
<1>7. InitAlive'
  BY DEF WaitSleep, InWait, Runs, sched, InitAlive, Live, TypeOK, IInv
<1>8. Orphans'
  BY <1>1 DEF WaitSleep, InWait, Runs, sched, Orphans, Live, TypeOK, IInv
<1>9. WaitChan'
  BY DEF WaitSleep, InWait, Runs, sched, WaitChan, TypeOK, IInv
<1>10. NoMissedExit'
  BY DEF WaitSleep, InWait, Runs, sched, NoMissedExit, Kids, ZombieKids,
     TypeOK, IInv
<1>11. StackSafe' /\ NotOwnParent'
  BY DEF WaitSleep, InWait, Runs, sched, IInv, StackSafe, NotOwnParent
<1> QED
  BY <1>2, <1>3, <1>4, <1>5, <1>6, <1>7, <1>8, <1>9, <1>10, <1>11 DEF IInv

\* Sleep on a channel that is not a process.
LEMMA SleepInv ==
  ASSUME IInv, NEW c \in CPUS, NEW s \in Slots, NEW ch \in CHANS, sleep(c, s, ch)
  PROVE  IInv'
<1>1. state[s] = "RUNNING"
  BY DEF IInv, CpuInv, sleep, Runs
<1>2. TypeOK'
  BY DEF sleep, Runs, sched, TypeOK, procstate, Where, Control, IInv
<1>3. CpuInv'
  BY NullFresh DEF sleep, Runs, sched, CpuInv, TypeOK, IInv
<1>4. EmbryoOwned'
  BY <1>1 DEF sleep, Runs, sched, EmbryoOwned, Live, TypeOK, IInv
<1>5. ZombieInExit'
  BY DEF sleep, Runs, sched, ZombieInExit, TypeOK, IInv
<1>6. LiveStack'
  BY <1>1 DEF sleep, Runs, sched, LiveStack, Live, TypeOK, IInv
<1>7. InitAlive'
  BY DEF sleep, Runs, sched, InitAlive, Live, TypeOK, IInv
<1>8. Orphans'
  BY <1>1 DEF sleep, Runs, sched, Orphans, Live, TypeOK, IInv
<1>9. WaitChan'
  BY DEF sleep, Runs, sched, WaitChan, TypeOK, IInv
<1>10. NoMissedExit'
  BY DEF sleep, Runs, sched, NoMissedExit, Kids, ZombieKids, TypeOK, IInv
<1>11. StackSafe' /\ NotOwnParent'
  BY DEF sleep, Runs, sched, IInv, StackSafe, NotOwnParent
<1> QED
  BY <1>2, <1>3, <1>4, <1>5, <1>6, <1>7, <1>8, <1>9, <1>10, <1>11 DEF IInv

\* Waking the sleepers on a channel.
LEMMA WakeupInv ==
  ASSUME IInv, NEW ch \in CHANS, wakeup(ch)
  PROVE  IInv'
<1>1. TypeOK'
  BY DEF wakeup, wakeup1, TypeOK, procstate, Where, Control, IInv, cpu
<1>2. CpuInv'
  BY DEF wakeup, wakeup1, CpuInv, Runs, TypeOK, IInv, cpu
<1>3. EmbryoOwned'
  BY DEF wakeup, wakeup1, EmbryoOwned, Live, TypeOK, IInv, cpu
<1>4. ZombieInExit'
  BY DEF wakeup, wakeup1, ZombieInExit, TypeOK, IInv, cpu
<1>5. LiveStack'
  BY DEF wakeup, wakeup1, LiveStack, Live, TypeOK, IInv, cpu
<1>6. InitAlive'
  BY DEF wakeup, wakeup1, InitAlive, Live, TypeOK, IInv, cpu
<1>7. Orphans'
  BY DEF wakeup, wakeup1, Orphans, Live, TypeOK, IInv, cpu
<1>8. WaitChan'
  BY DEF wakeup, wakeup1, WaitChan, TypeOK, IInv, cpu
<1>9. NoMissedExit'
  BY DEF wakeup, wakeup1, NoMissedExit, Kids, ZombieKids, TypeOK, IInv, cpu
<1>10. StackSafe' /\ NotOwnParent'
  BY DEF wakeup, wakeup1, IInv, cpu, StackSafe, NotOwnParent
<1> QED
  BY <1>1, <1>2, <1>3, <1>4, <1>5, <1>6, <1>7, <1>8, <1>9, <1>10 DEF IInv

\* The victim is not init, and a sleeping victim is woken.
LEMMA KillInv ==
  ASSUME IInv, NEW c \in CPUS, NEW s \in Slots, NEW n \in KillPids, NEW t \in Slots, kill(c, s, n, t)
  PROVE  IInv'
<1>1. t # initproc
  BY ProcAssumption DEF IInv, InitAlive, kill
<1>2. TypeOK'
  BY DEF kill, Runs, WakeVictim, TypeOK, procstate, Where, Control, IInv, cpu
<1>3. CpuInv'
  BY DEF kill, Runs, WakeVictim, CpuInv, TypeOK, IInv, cpu
<1>4. EmbryoOwned'
  BY DEF kill, Runs, WakeVictim, EmbryoOwned, Live, TypeOK, IInv, cpu
<1>5. ZombieInExit'
  BY DEF kill, Runs, WakeVictim, ZombieInExit, TypeOK, IInv, cpu
<1>6. LiveStack'
  BY DEF kill, Runs, WakeVictim, LiveStack, Live, TypeOK, IInv, cpu
<1>7. InitAlive'
  BY <1>1 DEF kill, Runs, WakeVictim, InitAlive, Live, TypeOK, IInv, cpu
<1>8. Orphans'
  BY DEF kill, Runs, WakeVictim, Orphans, Live, TypeOK, IInv, cpu
<1>9. WaitChan'
  BY DEF kill, Runs, WakeVictim, WaitChan, TypeOK, IInv, cpu
<1>10. NoMissedExit'
  BY DEF kill, Runs, WakeVictim, NoMissedExit, Kids, ZombieKids, TypeOK, IInv,
     cpu
<1>11. StackSafe' /\ NotOwnParent'
  BY DEF kill, Runs, WakeVictim, IInv, cpu, StackSafe, NotOwnParent
<1> QED
  BY <1>2, <1>3, <1>4, <1>5, <1>6, <1>7, <1>8, <1>9, <1>10, <1>11 DEF IInv
\* Every step of the system preserves the invariant.
LEMMA NextInv == IInv /\ [Next]_vars => IInv'
<1> SUFFICES ASSUME IInv, [Next]_vars PROVE IInv'
  OBVIOUS
<1>1. CASE UNCHANGED vars
  BY <1>1 DEF vars, table, cpu, IInv, TypeOK, CpuInv, EmbryoOwned, ZombieInExit,
     LiveStack, StackSafe, InitAlive, Orphans, NotOwnParent, WaitChan, NoMissedExit, Live, Runs,
     Kids, ZombieKids
<1>2. CASE \E c \in CPUS : Scheduler(c)
  BY <1>2, SchedAcquireInv, DispatchInv, SchedBackInv, SchedReleaseInv DEF Scheduler
<1>3. CASE \E c \in CPUS, s \in Slots : Process(c, s)
  <2> PICK c \in CPUS, s \in Slots : Process(c, s)
    BY <1>3
  <2>1. CASE Resume(c, s) \/ yield(c, s)
    BY <2>1, ResumeInv, YieldInv
  <2>2. CASE \/ TrapSyscall(c, s) \/ SysReturn(c, s) \/ TickKilled(c, s)
             \/ TrapFault(c, s) \/ SysExit(c, s)
    BY <2>2, TrapSyscallInv, SysReturnInv, TickKilledInv, TrapFaultInv, SysExitInv
  <2>3. CASE ForkFail(c, s) \/ fork(c, s) \/ \E n \in Slots : allocproc(c, s, n)
    BY <2>3, ForkFailInv, ForkInv, AllocprocInv
  <2>4. CASE exit(c, s)
    BY <2>4, ExitInv
  <2>5. CASE \/ WaitNone(c, s) \/ WaitSleep(c, s)
             \/ \E z \in Slots : WaitReap(c, s, z)
    BY <2>5, WaitNoneInv, WaitSleepInv, WaitReapInv
  <2>6. CASE \E ch \in CHANS : sleep(c, s, ch)
    BY <2>6, SleepInv
  <2>7. CASE \E n \in KillPids, t \in Slots : kill(c, s, n, t)
    BY <2>7, KillInv
  <2> QED
    BY <2>1, <2>2, <2>3, <2>4, <2>5, <2>6, <2>7 DEF Process
<1>4. CASE \E ch \in CHANS : wakeup(ch)
  BY <1>4, WakeupInv
<1> QED
  BY <1>1, <1>2, <1>3, <1>4 DEF Next

\* The inductive invariant holds in every reachable state.
THEOREM Invariance == Spec => []IInv
BY InitInv, NextInv, PTL DEF Spec

-----------------------------------------------------------------------------
\* Type correctness, whatever the CPUs and processes do.
THEOREM TypeCorrect == Spec => []TypeOK
<1>1. IInv => TypeOK
  BY DEF IInv
<1> QED
  BY <1>1, Invariance, PTL

\* The hand-over of ptable.lock through sched() and scheduler() keeps every
\* process on at most one CPU and RUNNING exactly while a CPU executes it.
THEOREM HandOver == Spec => []CpuInv
<1>1. IInv => CpuInv
  BY DEF IInv
<1> QED
  BY <1>1, Invariance, PTL

\* wait() never frees the kernel stack a CPU is still on.
THEOREM StacksInUse == Spec => []StackSafe
<1>1. IInv => StackSafe
  BY DEF IInv
<1> QED
  BY <1>1, Invariance, PTL

\* An EMBRYO belongs to exactly one fork().
THEOREM OneForkPerEmbryo == Spec => []EmbryoOwned
<1>1. IInv => EmbryoOwned
  BY DEF IInv
<1> QED
  BY <1>1, Invariance, PTL

\* Every process but init always has a parent that can reap it.
THEOREM ParentsAlive == Spec => []Orphans
<1>1. IInv => Orphans
  BY DEF IInv
<1> QED
  BY <1>1, Invariance, PTL

\* No exit and no kill is missed by a process asleep in wait().
THEOREM ExitsNoticed == Spec => []NoMissedExit
<1>1. IInv => NoMissedExit
  BY DEF IInv
<1> QED
  BY <1>1, Invariance, PTL

\* init, who inherits every orphan, never exits (exit() would panic).
THEOREM InitNeverExits == Spec => [](state[initproc] \notin {"UNUSED", "EMBRYO", "ZOMBIE"})
<1>1. IInv => state[initproc] \notin {"UNUSED", "EMBRYO", "ZOMBIE"}
  BY DEF IInv, InitAlive, Live
<1> QED
  BY <1>1, Invariance, PTL

=============================================================================
