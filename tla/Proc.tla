-------------------------------- MODULE Proc --------------------------------
(***************************************************************************)
(* The process table of proc.c: fork, exit, wait, kill, sleep, wakeup,     *)
(* yield and the scheduler loop, run by several CPUs that share            *)
(* ptable.lock, together with the part of trap() that decides when a       *)
(* process enters the kernel, is preempted or is forced to exit.           *)
(*                                                                         *)
(* A critical section of ptable.lock with no context switch inside is one  *)
(* action.  A section that ends in sched() leaves the lock held: the       *)
(* scheduler of the same CPU inherits it (control "swtch"), clears         *)
(* c->proc, goes on scanning and either dispatches another process, which  *)
(* inherits the lock in turn and releases it, or releases it itself.       *)
(*                                                                         *)
(* The scheduling policy is left open: any RUNNABLE process may be chosen. *)
(* Modules Sched and Mlfq model the four policies.                         *)
(***************************************************************************)
EXTENDS Naturals, FiniteSets

CONSTANTS NPROC,     \* number of slots of ptable.proc
          CPUS,      \* the processors
          CHANS,     \* sleep channels that are not processes (buffers, ticks)
          KillPids,  \* pids that programs pass to kill()
          MaxPid,    \* bound: the last pid allocproc hands out
          NULL

Slots == 1..NPROC

ASSUME ProcAssumption ==
    /\ NPROC \in Nat \ {0}
    /\ MaxPid \in Nat
    /\ KillPids \subseteq Nat \ {1}    \* nobody kills init: exit() panics
    /\ NULL \notin Slots \cup CPUS \cup CHANS
    /\ Slots \cap CHANS = {}

initproc == 1        \* userinit() finds the table empty and takes slot 1

VARIABLES
    state,    \* p->state
    pid,      \* p->pid
    parent,   \* p->parent
    chan,     \* p->chan: NULL, a channel of CHANS or a process (wait)
    killed,   \* p->killed
    kstack,   \* does the slot own a kernel stack
    nextpid,
    lock,     \* the CPU that holds ptable.lock, or NULL
    cpuproc,  \* c->proc
    cpc,      \* what a CPU executes: its scheduler or the process c->proc
    pc,       \* where the process is, see Where
    np        \* the slot that fork() is filling

table == <<state, pid, parent, chan, killed, kstack, nextpid>>
cpu   == <<lock, cpuproc, cpc>>
vars  == <<table, cpu, pc, np>>

procstate == {"UNUSED", "EMBRYO", "SLEEPING", "RUNNABLE", "RUNNING", "ZOMBIE"}

\* "new"    created, has not run forkret() yet
\* "user"   user mode             "kernel" inside a system call
\* "fork"   in fork(), np is an EMBRYO
\* "wait"   asleep in wait() or waitx(), which sleep on ptable.lock itself
\* "exit"   in exit(), before it takes ptable.lock for the last time
Where == {"new", "user", "kernel", "fork", "wait", "exit"}

\* "idle"  scheduler(), lock not held     "sched" scheduler(), scanning
\* "swtch" back in scheduler() from sched(), c->proc not yet cleared
\* "proc"  running the process c->proc
Control == {"idle", "sched", "swtch", "proc"}

Live(s) == state[s] \notin {"UNUSED", "EMBRYO"}

\* CPU c executes process s.
Runs(c, s) == cpc[c] = "proc" /\ cpuproc[c] = s

-----------------------------------------------------------------------------
(* The operators named Bad... are faulty variants of the operator that      *)
(* follows them.  Nothing uses them: the properties must fail when one of   *)
(* them takes the place of the original.                                    *)

\* Faulty: ptable.lock is released before swtch().
BadSchedUnlocked(c) ==
    /\ lock' = NULL
    /\ cpc' = [cpc EXCEPT ![c] = "swtch"]
    /\ UNCHANGED cpuproc

\* Faulty: the lock records the process instead of the CPU.
BadSchedOwner(c) ==
    /\ lock' = cpuproc[c]
    /\ cpc' = [cpc EXCEPT ![c] = "swtch"]
    /\ UNCHANGED cpuproc

(* sched(): the process on c gives its CPU to the scheduler, which         *)
(* inherits ptable.lock.                                                   *)
sched(c) ==
    /\ lock' = c
    /\ cpc' = [cpc EXCEPT ![c] = "swtch"]
    /\ UNCHANGED cpuproc

\* wakeup1(): the table st with every sleeper on ch made RUNNABLE.
wakeup1(st, ch) ==
    [s \in Slots |-> IF st[s] = "SLEEPING" /\ chan[s] = ch
                     THEN "RUNNABLE" ELSE st[s]]

-----------------------------------------------------------------------------
(* scheduler()                                                             *)

SchedAcquire(c) ==
    /\ cpc[c] = "idle"
    /\ lock = NULL
    /\ lock' = c
    /\ cpc' = [cpc EXCEPT ![c] = "sched"]
    /\ UNCHANGED <<table, cpuproc, pc, np>>

\* c->proc = p; p->state = RUNNING; swtch().  The lock goes with the process.
Dispatch(c, s) ==
    /\ cpc[c] = "sched"
    /\ state[s] = "RUNNABLE"
    /\ state' = [state EXCEPT ![s] = "RUNNING"]
    /\ cpuproc' = [cpuproc EXCEPT ![c] = s]
    /\ cpc' = [cpc EXCEPT ![c] = "proc"]
    /\ UNCHANGED <<pid, parent, chan, killed, kstack, nextpid, lock, pc, np>>

\* Back from swtch(): c->proc = 0, and on with the loop.
SchedBack(c) ==
    /\ cpc[c] = "swtch"
    /\ cpuproc' = [cpuproc EXCEPT ![c] = NULL]
    /\ cpc' = [cpc EXCEPT ![c] = "sched"]
    /\ UNCHANGED <<table, lock, pc, np>>

SchedRelease(c) ==
    /\ cpc[c] = "sched"
    /\ lock' = NULL
    /\ cpc' = [cpc EXCEPT ![c] = "idle"]
    /\ UNCHANGED <<table, cpuproc, pc, np>>

(* A dispatched process continues in forkret(), after sched() in yield()   *)
(* or after sched() in sleep(): it releases ptable.lock and clears chan.   *)
(* A process preempted in user mode then meets the last test of trap().    *)
Resume(c, s) ==
    /\ Runs(c, s)
    /\ lock = c
    /\ pc[s] # "wait"
    /\ lock' = NULL
    /\ chan' = [chan EXCEPT ![s] = NULL]
    /\ pc' = [pc EXCEPT ![s] = CASE @ = "new" -> "user"
                                 [] @ = "user" /\ killed[s] -> "exit"
                                 [] OTHER -> @]
    /\ UNCHANGED <<state, pid, parent, killed, kstack, nextpid, cpuproc, cpc, np>>

-----------------------------------------------------------------------------
(* trap()                                                                  *)

\* A system call: a process already killed exits at once.
TrapSyscall(c, s) ==
    /\ Runs(c, s)
    /\ lock # c
    /\ pc[s] = "user"
    /\ pc' = [pc EXCEPT ![s] = IF killed[s] THEN "exit" ELSE "kernel"]
    /\ UNCHANGED <<table, cpu, np>>

\* The end of a system call, with the second test of p->killed.
SysReturn(c, s) ==
    /\ Runs(c, s)
    /\ lock # c
    /\ pc[s] = "kernel"
    /\ pc' = [pc EXCEPT ![s] = IF killed[s] THEN "exit" ELSE "user"]
    /\ UNCHANGED <<table, cpu, np>>

\* A clock interrupt in user mode forces a killed process to exit.
TickKilled(c, s) ==
    /\ Runs(c, s)
    /\ lock # c
    /\ pc[s] = "user"
    /\ killed[s]
    /\ pc' = [pc EXCEPT ![s] = "exit"]
    /\ UNCHANGED <<table, cpu, np>>

\* An exception in user mode: the process "misbehaved" and must exit.
TrapFault(c, s) ==
    /\ Runs(c, s)
    /\ lock # c
    /\ pc[s] = "user"
    /\ s # initproc
    /\ killed' = [killed EXCEPT ![s] = TRUE]
    /\ pc' = [pc EXCEPT ![s] = "exit"]
    /\ UNCHANGED <<state, pid, parent, chan, kstack, nextpid, cpu, np>>

\* A clock interrupt otherwise ends in yield(), in user mode or in the
\* kernel.  A kill() may have come after the first test of p->killed.
yield(c, s) ==
    /\ Runs(c, s)
    /\ lock = NULL
    /\ state' = [state EXCEPT ![s] = "RUNNABLE"]
    /\ sched(c)
    /\ UNCHANGED <<pid, parent, chan, killed, kstack, nextpid, pc, np>>

-----------------------------------------------------------------------------
(* fork()                                                                  *)

\* allocproc(): the first UNUSED slot becomes an EMBRYO with a new pid.
\* p->killed is not assigned.
allocproc(c, s, n) ==
    /\ Runs(c, s)
    /\ lock = NULL
    /\ pc[s] = "kernel"
    /\ nextpid <= MaxPid
    /\ state[n] = "UNUSED"
    /\ \A m \in Slots : state[m] = "UNUSED" => n <= m
    /\ state' = [state EXCEPT ![n] = "EMBRYO"]
    /\ pid' = [pid EXCEPT ![n] = nextpid]
    /\ nextpid' = nextpid + 1
    /\ np' = [np EXCEPT ![s] = n]
    /\ pc' = [pc EXCEPT ![s] = "fork"]
    /\ UNCHANGED <<parent, chan, killed, kstack, cpu>>

\* Faulty: the slot of the child that cannot be built stays an EMBRYO.
BadForkFail(c, s) ==
    /\ Runs(c, s)
    /\ lock # c
    /\ pc[s] = "fork"
    /\ np' = [np EXCEPT ![s] = NULL]
    /\ pc' = [pc EXCEPT ![s] = "kernel"]
    /\ UNCHANGED <<table, cpu>>

\* kalloc() or copyuvm() finds no memory.  The slot is given back without
\* ptable.lock and keeps its pid; the kernel stack, if any, is freed.
ForkFail(c, s) ==
    /\ Runs(c, s)
    /\ lock # c
    /\ pc[s] = "fork"
    /\ state' = [state EXCEPT ![np[s]] = "UNUSED"]
    /\ np' = [np EXCEPT ![s] = NULL]
    /\ pc' = [pc EXCEPT ![s] = "kernel"]
    /\ UNCHANGED <<pid, parent, chan, killed, kstack, nextpid, cpu>>

\* The rest of fork(): stack and address space are there, np->parent is
\* set and np becomes RUNNABLE.
fork(c, s) ==
    /\ Runs(c, s)
    /\ lock = NULL
    /\ pc[s] = "fork"
    /\ state' = [state EXCEPT ![np[s]] = "RUNNABLE"]
    /\ parent' = [parent EXCEPT ![np[s]] = s]
    /\ kstack' = [kstack EXCEPT ![np[s]] = TRUE]
    /\ pc' = [pc EXCEPT ![s] = "kernel", ![np[s]] = "new"]
    /\ np' = [np EXCEPT ![s] = NULL]
    /\ UNCHANGED <<pid, chan, killed, nextpid, cpu>>

-----------------------------------------------------------------------------
(* exit()                                                                  *)

\* sys_exit().  init never calls it: exit() would panic.
SysExit(c, s) ==
    /\ Runs(c, s)
    /\ lock # c
    /\ pc[s] = "kernel"
    /\ s # initproc
    /\ pc' = [pc EXCEPT ![s] = "exit"]
    /\ UNCHANGED <<table, cpu, np>>

Kids(s) == {k \in Slots : parent[k] = s}

ZombieKids(s) == {k \in Kids(s) : state[k] = "ZOMBIE"}

\* Faulty: the abandoned children keep their parent.
BadAbandon(s) == parent

\* The children of s pass to init...
Abandon(s) == [k \in Slots |-> IF k \in Kids(s) THEN initproc ELSE parent[k]]

\* Faulty: the parent is not woken.
BadWakeParent(s) == state

\* The parent might be sleeping in wait().
WakeParent(s) == wakeup1(state, parent[s])

\* ...and init is woken if one of them is a zombie.
WakeInit(s, st) == IF ZombieKids(s) # {} THEN wakeup1(st, initproc) ELSE st

\* The last section: wake the parent, hand the children to init (waking it
\* if one of them is a zombie), become a ZOMBIE and leave for good.
exit(c, s) ==
    /\ Runs(c, s)
    /\ lock = NULL
    /\ pc[s] = "exit"
    /\ state' = [WakeInit(s, WakeParent(s)) EXCEPT ![s] = "ZOMBIE"]
    /\ parent' = Abandon(s)
    /\ sched(c)
    /\ UNCHANGED <<pid, chan, killed, kstack, nextpid, pc, np>>

-----------------------------------------------------------------------------
(* wait() and waitx() scan the table with ptable.lock held: freshly        *)
(* acquired on a call, inherited from the scheduler after a sleep.         *)
InWait(c, s) ==
    /\ Runs(c, s)
    /\ \/ pc[s] = "kernel" /\ lock = NULL
       \/ pc[s] = "wait" /\ lock = c

\* The first zombie child is freed and its slot cleared.
WaitReap(c, s, z) ==
    /\ InWait(c, s)
    /\ z \in ZombieKids(s)
    /\ \A k \in ZombieKids(s) : z <= k
    /\ state' = [state EXCEPT ![z] = "UNUSED"]
    /\ pid' = [pid EXCEPT ![z] = 0]
    /\ parent' = [parent EXCEPT ![z] = NULL]
    /\ killed' = [killed EXCEPT ![z] = FALSE]
    /\ kstack' = [kstack EXCEPT ![z] = FALSE]
    /\ chan' = [chan EXCEPT ![s] = NULL]
    /\ pc' = [pc EXCEPT ![s] = "kernel"]
    /\ lock' = NULL
    /\ UNCHANGED <<nextpid, cpuproc, cpc, np>>

\* No children, or killed: return -1.
WaitNone(c, s) ==
    /\ InWait(c, s)
    /\ ZombieKids(s) = {}
    /\ Kids(s) = {} \/ killed[s]
    /\ chan' = [chan EXCEPT ![s] = NULL]
    /\ pc' = [pc EXCEPT ![s] = "kernel"]
    /\ lock' = NULL
    /\ UNCHANGED <<state, pid, parent, killed, kstack, nextpid, cpuproc, cpc, np>>

\* sleep(curproc, &ptable.lock)
WaitSleep(c, s) ==
    /\ InWait(c, s)
    /\ ZombieKids(s) = {}
    /\ Kids(s) # {} /\ ~killed[s]
    /\ chan' = [chan EXCEPT ![s] = s]
    /\ state' = [state EXCEPT ![s] = "SLEEPING"]
    /\ pc' = [pc EXCEPT ![s] = "wait"]
    /\ sched(c)
    /\ UNCHANGED <<pid, parent, killed, kstack, nextpid, np>>

-----------------------------------------------------------------------------
\* sleep() on a channel guarded by a lock other than ptable.lock, in a
\* system call or while exit() closes files.
sleep(c, s, ch) ==
    /\ Runs(c, s)
    /\ lock = NULL
    /\ pc[s] \in {"kernel", "exit"}
    /\ chan' = [chan EXCEPT ![s] = ch]
    /\ state' = [state EXCEPT ![s] = "SLEEPING"]
    /\ sched(c)
    /\ UNCHANGED <<pid, parent, killed, kstack, nextpid, pc, np>>

\* wakeup(), from an interrupt handler or another process.
wakeup(ch) ==
    /\ lock = NULL
    /\ state' = wakeup1(state, ch)
    /\ UNCHANGED <<pid, parent, chan, killed, kstack, nextpid, cpu, pc, np>>

\* Faulty: a sleeping victim is left asleep.
BadWakeVictim(t) == state

WakeVictim(t) ==
    [state EXCEPT ![t] = IF @ = "SLEEPING" THEN "RUNNABLE" ELSE @]

\* kill(n): the first slot that holds pid n, whatever its state.
kill(c, s, n, t) ==
    /\ Runs(c, s)
    /\ lock = NULL
    /\ pc[s] = "kernel"
    /\ pid[t] = n
    /\ \A m \in Slots : pid[m] = n => t <= m
    /\ killed' = [killed EXCEPT ![t] = TRUE]
    /\ state' = WakeVictim(t)
    /\ UNCHANGED <<pid, parent, chan, kstack, nextpid, cpu, pc, np>>

-----------------------------------------------------------------------------
\* main() has run userinit(); every CPU is about to enter scheduler().
Init ==
    /\ state = [s \in Slots |-> IF s = initproc THEN "RUNNABLE" ELSE "UNUSED"]
    /\ pid = [s \in Slots |-> IF s = initproc THEN 1 ELSE 0]
    /\ parent = [s \in Slots |-> NULL]
    /\ chan = [s \in Slots |-> NULL]
    /\ killed = [s \in Slots |-> FALSE]
    /\ kstack = [s \in Slots |-> s = initproc]
    /\ nextpid = 2
    /\ lock = NULL
    /\ cpuproc = [c \in CPUS |-> NULL]
    /\ cpc = [c \in CPUS |-> "idle"]
    /\ pc = [s \in Slots |-> "new"]
    /\ np = [s \in Slots |-> NULL]

Scheduler(c) ==
    \/ SchedAcquire(c)
    \/ \E s \in Slots : Dispatch(c, s)
    \/ SchedBack(c)
    \/ SchedRelease(c)

Process(c, s) ==
    \/ Resume(c, s)
    \/ TrapSyscall(c, s)
    \/ SysReturn(c, s)
    \/ TickKilled(c, s)
    \/ TrapFault(c, s)
    \/ yield(c, s)
    \/ \E n \in Slots : allocproc(c, s, n)
    \/ ForkFail(c, s)
    \/ fork(c, s)
    \/ SysExit(c, s)
    \/ exit(c, s)
    \/ \E z \in Slots : WaitReap(c, s, z)
    \/ WaitNone(c, s)
    \/ WaitSleep(c, s)
    \/ \E ch \in CHANS : sleep(c, s, ch)
    \/ \E n \in KillPids, t \in Slots : kill(c, s, n, t)

Next ==
    \/ \E c \in CPUS : Scheduler(c)
    \/ \E c \in CPUS, s \in Slots : Process(c, s)
    \/ \E ch \in CHANS : wakeup(ch)

Spec == Init /\ [][Next]_vars

(* The fairness of a machine with one CPU.  The scheduler, and a process    *)
(* that holds ptable.lock, keep running; the scan of the table reaches      *)
(* every RUNNABLE slot again and again; the clock ticks, so a process does  *)
(* not keep the CPU; a killed process gets on with leaving the kernel:      *)
(* system calls end, with an error when the caller is killed; the events    *)
(* that processes sleep for come; init calls wait() for ever (init.c).      *)
Leave(c, s) ==
    \/ TickKilled(c, s)
    \/ SysReturn(c, s)
    \/ ForkFail(c, s)
    \/ fork(c, s)
    \/ exit(c, s)

Fairness ==
    /\ \A c \in CPUS :
          /\ WF_vars(SchedAcquire(c) \/ SchedBack(c) \/ SchedRelease(c))
          /\ WF_vars(\E s \in Slots : yield(c, s))
          /\ SF_vars(TrapSyscall(c, initproc)
                     \/ fork(c, initproc) \/ ForkFail(c, initproc))
          /\ SF_vars(\E z \in Slots : WaitReap(c, initproc, z))
    /\ \A c \in CPUS, s \in Slots :
          /\ SF_vars(Dispatch(c, s))
          /\ WF_vars(Resume(c, s) \/ WaitNone(c, s) \/ WaitSleep(c, s)
                     \/ \E z \in Slots : WaitReap(c, s, z))
    /\ \A c \in CPUS, s \in Slots \ {initproc} : SF_vars(Leave(c, s))
    /\ \A ch \in CHANS : SF_vars(wakeup(ch))

FairSpec == Spec /\ Fairness

-----------------------------------------------------------------------------
(* Properties                                                              *)

\* Every variable keeps the values the C declarations allow.
TypeOK ==
    /\ state \in [Slots -> procstate]
    /\ pid \in [Slots -> Nat]
    /\ parent \in [Slots -> Slots \cup {NULL}]
    /\ chan \in [Slots -> Slots \cup CHANS \cup {NULL}]
    /\ killed \in [Slots -> BOOLEAN]
    /\ kstack \in [Slots -> BOOLEAN]
    /\ nextpid \in Nat
    /\ lock \in CPUS \cup {NULL}
    /\ cpuproc \in [CPUS -> Slots \cup {NULL}]
    /\ cpc \in [CPUS -> Control]
    /\ pc \in [Slots -> Where]
    /\ np \in [Slots -> Slots \cup {NULL}]

\* No process is on two CPUs, a process is RUNNING exactly while some CPU
\* executes it, and between sched() and the scheduler's release the CPU
\* that switches is the one that holds ptable.lock.
CpuInv ==
    /\ \A c, d \in CPUS :
          cpuproc[c] = cpuproc[d] /\ cpuproc[c] # NULL => c = d
    /\ \A s \in Slots : state[s] = "RUNNING" <=> \E c \in CPUS : Runs(c, s)
    /\ \A c \in CPUS : cpc[c] \in {"sched", "swtch"} => lock = c
    /\ \A c \in CPUS : cpuproc[c] = NULL <=> cpc[c] \in {"idle", "sched"}

\* While c->proc is p, the CPU runs on p's kernel stack or is just leaving
\* it: wait() on another CPU has not freed that stack.
StackSafe ==
    \A c \in CPUS : cpuproc[c] # NULL => kstack[cpuproc[c]]

\* A process asleep in wait() has been told of every exit and kill: it has
\* children, none of them a zombie, and it has not been killed.
NoMissedExit ==
    \A s \in Slots :
        state[s] = "SLEEPING" /\ pc[s] = "wait" =>
            /\ Kids(s) # {}
            /\ ZombieKids(s) = {}
            /\ ~killed[s]

\* Every process but init has a parent that can still wait for it: a live
\* process that is not a zombie.  No free slot or embryo has a parent.
Orphans ==
    \A s \in Slots :
        IF Live(s) /\ s # initproc
        THEN parent[s] \in Slots /\ Live(parent[s]) /\ state[parent[s]] # "ZOMBIE"
        ELSE parent[s] = NULL

\* An EMBRYO belongs to exactly one fork() in progress, so no two parents
\* fill the same slot and no slot is left an EMBRYO for ever.
EmbryoOwned ==
    /\ \A s \in Slots : state[s] = "EMBRYO" <=> \E f \in Slots : np[f] = s
    /\ \A f, g \in Slots : np[f] = np[g] /\ np[f] # NULL => f = g
    /\ \A f \in Slots : np[f] # NULL <=> pc[f] = "fork" /\ Live(f)

\* A process that is killed exits, wherever the kill() meets it: asleep, in
\* user mode, in a system call, in wait(), in the middle of fork().
KilledExits ==
    \A s \in Slots \ {initproc} :
        killed[s] /\ Live(s) ~> state[s] \in {"ZOMBIE", "UNUSED"}

\* A zombie that has been handed to init, or is a child of init, is reaped.
OrphansReaped ==
    \A s \in Slots :
        state[s] = "ZOMBIE" /\ parent[s] = initproc ~> state[s] = "UNUSED"

\* kill() marks "the process with the given pid", so a process is not killed
\* when it is born.  The code does not keep this: kill() also matches free
\* slots, by pid 0 or by the pid that a failed fork() left behind, and
\* allocproc() does not clear killed.
BornAlive ==
    [][\A s \in Slots : state[s] = "UNUSED" /\ state'[s] = "EMBRYO" => ~killed'[s]]_vars
=============================================================================
