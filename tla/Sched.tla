-------------------------------- MODULE Sched -------------------------------
(***************************************************************************)
(* The table-scanning schedulers of proc.c: DEFAULT (round robin), FCFS    *)
(* (first come first served) and PBS (priorities).  The scan of            *)
(* scheduler() is a loop over the table that is interrupted by every       *)
(* process it runs: position, mxprt and the inherited ptable.lock survive  *)
(* in the scheduler's frame while the process changes the table.           *)
(*                                                                         *)
(* The part of scheduler() between two context switches is one action: it  *)
(* holds ptable.lock throughout.  Module Proc shows what the table does    *)
(* under any policy; here its operations only serve to change who is       *)
(* RUNNABLE.                                                               *)
(***************************************************************************)
EXTENDS Naturals, FiniteSets

CONSTANTS POLICIES,  \* the values of the build flag SCHEDULER to look at
          NPROC,     \* number of slots of ptable.proc
          CPUS,      \* the processors
          Prios,     \* the priorities that fork and set_priority assign
          MXPRT,     \* where the search for the best priority starts (200)
          MX2,       \* where the search after a run starts (101)
          MaxTicks,  \* bound: ticks stops here
          NULL

Slots == 1..NPROC

ASSUME SchedAssumption ==
    /\ POLICIES \subseteq {"DEFAULT", "FCFS", "PBS"}
    /\ NPROC \in Nat \ {0}
    /\ Prios \subseteq Nat
    /\ MXPRT \in Nat /\ MX2 \in Nat /\ MaxTicks \in Nat
    /\ NULL \notin Slots \cup CPUS

VARIABLES
    policy,    \* SCHEDULER; chosen when the kernel is built
    state,     \* p->state
    priority,  \* p->priority
    ctime,     \* p->ctime
    ticks,
    lock,      \* the CPU that holds ptable.lock, or NULL
    cproc,     \* c->proc
    cpc,       \* what the CPU does, see below
    pos,       \* next position of the scan of scheduler()
    mxprt      \* best priority found by the first loop of PBS

procs == <<state, priority, ctime, ticks>>
cpu   == <<lock, cproc, cpc, pos, mxprt>>
vars  == <<policy, procs, cpu>>

initproc == 1

\* What a CPU does:
\* "idle"  scheduler(), interrupts on     "scan"  scheduler(), scanning
\* "swtch" back in scheduler()            "proc"  running c->proc
\* "tick"  c->proc is in trap() and has decided to yield
\* "stray" so has the interrupted idle loop, for a process left in c->proc
\* "lost"  it has done so; what follows is undefined

Runnable == {s \in Slots : state[s] = "RUNNABLE"}

\* The least number in S, or top if there is none below it.
Least(S, top) ==
    CHOOSE m \in S \cup {top} : m <= top /\ \A n \in S : m <= n

-----------------------------------------------------------------------------
(* scheduler().  The operators named Bad... are faulty variants of the     *)
(* operator that follows them; nothing uses them.                          *)

Acquire(c) ==
    /\ cpc[c] = "idle"
    /\ lock = NULL
    /\ lock' = c
    /\ cpc' = [cpc EXCEPT ![c] = "scan"]
    /\ pos' = [pos EXCEPT ![c] = 1]
    /\ mxprt' = [mxprt EXCEPT ![c] =
                    IF policy = "PBS"
                    THEN Least({priority[s] : s \in Runnable}, MXPRT) ELSE @]
    /\ UNCHANGED <<procs, cproc>>

\* Faulty: "<" for "==".
BadEligibleStrict(c, s) ==
    s \in Runnable /\ s >= pos[c] /\ priority[s] < mxprt[c]

\* Would the scan stop at s?
Eligible(c, s) ==
    /\ s \in Runnable
    /\ s >= pos[c]
    /\ policy = "FCFS" => \A t \in Runnable : ctime[s] <= ctime[t]
    /\ policy = "PBS" => priority[s] = mxprt[c]

\* The scan goes on to the first slot it stops at.
Dispatch(c, s) ==
    /\ cpc[c] = "scan"
    /\ Eligible(c, s)
    /\ \A t \in Slots : Eligible(c, t) => s <= t
    /\ state' = [state EXCEPT ![s] = "RUNNING"]
    /\ cproc' = [cproc EXCEPT ![c] = s]
    /\ cpc' = [cpc EXCEPT ![c] = "proc"]
    /\ pos' = [pos EXCEPT ![c] = s + 1]
    /\ lock' = NULL
    /\ UNCHANGED <<priority, ctime, ticks, mxprt>>

\* The scan has reached the end of the table.
Release(c) ==
    /\ cpc[c] = "scan"
    /\ \A s \in Slots : ~Eligible(c, s)
    /\ cpc' = [cpc EXCEPT ![c] = "idle"]
    /\ lock' = NULL
    /\ UNCHANGED <<procs, cproc, pos, mxprt>>

\* Faulty: no second look at the priorities.
BadBetter(c) == FALSE

\* PBS looks at the priorities again (the loop on mx2).
Better(c) ==
    policy = "PBS" /\ Least({priority[s] : s \in Runnable}, MX2) < mxprt[c]

\* Faulty: the scan starts again from the first slot.
BadBack(c) ==
    /\ cpc[c] = "swtch"
    /\ cproc' = [cproc EXCEPT ![c] = NULL]
    /\ cpc' = [cpc EXCEPT ![c] = "idle"]
    /\ lock' = NULL
    /\ UNCHANGED <<procs, pos, mxprt>>

\* The process has come back.  c->proc = 0 and on with the scan; the scan of
\* FCFS is over, and PBS breaks out of it - before c->proc = 0 - when a
\* better process has become RUNNABLE.
Back(c) ==
    /\ cpc[c] = "swtch"
    /\ IF Better(c)
       THEN /\ cpc' = [cpc EXCEPT ![c] = "idle"]
            /\ lock' = NULL
            /\ UNCHANGED cproc
       ELSE /\ cproc' = [cproc EXCEPT ![c] = NULL]
            /\ cpc' = [cpc EXCEPT ![c] = IF policy = "FCFS" THEN "idle" ELSE "scan"]
            /\ lock' = IF policy = "FCFS" THEN NULL ELSE c
    /\ UNCHANGED <<procs, pos, mxprt>>

-----------------------------------------------------------------------------
(* The clock                                                               *)

NextTick == ticks' = IF ticks < MaxTicks THEN ticks + 1 ELSE ticks

\* Faulty: the comparison of check_priority() is the wrong way round.
BadMustYield(s) ==
    \/ policy = "DEFAULT"
    \/ policy = "PBS" /\ \E t \in Runnable : priority[t] >= priority[s]

\* trap(): DEFAULT always yields, FCFS never, PBS asks check_priority().
MustYield(s) ==
    \/ policy = "DEFAULT"
    \/ policy = "PBS" /\ \E t \in Runnable : priority[t] <= priority[s]

\* trap() takes c->proc for the process that was interrupted.  In the idle
\* loop there was none, but PBS may have left one there (see Back), and it may
\* be RUNNING again, on another CPU.
Interrupted(c) == cproc[c] # NULL /\ state[cproc[c]] = "RUNNING"

\* A clock interrupt of a process or of the idle loop.  check_priority() takes
\* and releases ptable.lock before yield() takes it again.
Tick(c) ==
    /\ cpc[c] \in {"proc", "idle"}
    /\ lock = NULL
    /\ NextTick
    /\ cpc' = [cpc EXCEPT ![c] =
                  IF ~(Interrupted(c) /\ MustYield(cproc[c])) THEN @
                  ELSE IF @ = "proc" THEN "tick" ELSE "stray"]
    /\ UNCHANGED <<state, priority, ctime, lock, cproc, pos, mxprt>>

\* The process on c leaves it in state st and passes ptable.lock on.  From the
\* idle loop swtch() goes to a context that the interrupt has overwritten.
Leave(c, st) ==
    /\ lock = NULL
    /\ lock' = c
    /\ state' = [state EXCEPT ![cproc[c]] = st]
    /\ cpc' = [cpc EXCEPT ![c] = IF @ = "stray" THEN "lost" ELSE "swtch"]
    /\ UNCHANGED <<priority, ctime, ticks, cproc, pos, mxprt>>

yield(c) == cpc[c] \in {"tick", "stray"} /\ Leave(c, "RUNNABLE")

-----------------------------------------------------------------------------
(* The process table                                                       *)

sleep(c) == cpc[c] = "proc" /\ Leave(c, "SLEEPING")

exit(c) == cpc[c] = "proc" /\ cproc[c] # initproc /\ Leave(c, "ZOMBIE")

wakeup(s) ==
    /\ lock = NULL
    /\ state[s] = "SLEEPING"
    /\ state' = [state EXCEPT ![s] = "RUNNABLE"]
    /\ UNCHANGED <<priority, ctime, ticks, cpu>>

\* wait() frees the slot of a zombie.
wait(c, s) ==
    /\ cpc[c] = "proc"
    /\ lock = NULL
    /\ state[s] = "ZOMBIE"
    /\ state' = [state EXCEPT ![s] = "UNUSED"]
    /\ UNCHANGED <<priority, ctime, ticks, cpu>>

\* fork(): the first free slot.  Its priority is 60, or pid/2 under PBS.
fork(c, s, v) ==
    /\ cpc[c] = "proc"
    /\ lock = NULL
    /\ state[s] = "UNUSED"
    /\ \A t \in Slots : state[t] = "UNUSED" => s <= t
    /\ state' = [state EXCEPT ![s] = "RUNNABLE"]
    /\ priority' = [priority EXCEPT ![s] = v]
    /\ ctime' = [ctime EXCEPT ![s] = ticks]
    /\ UNCHANGED <<ticks, cpu>>

\* set_priority(), by any process for any process.
set_priority(c, s, v) ==
    /\ cpc[c] = "proc"
    /\ lock = NULL
    /\ state[s] # "UNUSED"
    /\ priority' = [priority EXCEPT ![s] = v]
    /\ UNCHANGED <<state, ctime, ticks, cpu>>

-----------------------------------------------------------------------------
Init ==
    /\ policy \in POLICIES
    /\ state = [s \in Slots |-> IF s = initproc THEN "RUNNABLE" ELSE "UNUSED"]
    /\ priority \in {[s \in Slots |-> v] : v \in {p \in Prios : p < MX2}}
    /\ ctime = [s \in Slots |-> 0]
    /\ ticks = 0
    /\ lock = NULL
    /\ cproc = [c \in CPUS |-> NULL]
    /\ cpc = [c \in CPUS |-> "idle"]
    /\ pos = [c \in CPUS |-> 1]
    /\ mxprt = [c \in CPUS |-> MXPRT]

Scheduler(c) ==
    \/ Acquire(c)
    \/ \E s \in Slots : Dispatch(c, s)
    \/ Release(c)
    \/ Back(c)

Step ==
    \/ \E c \in CPUS :
          \/ Scheduler(c)
          \/ Tick(c)
          \/ yield(c)
          \/ sleep(c)
          \/ exit(c)
          \/ \E s \in Slots : wait(c, s)
          \/ \E s \in Slots, v \in Prios : fork(c, s, v)
          \/ \E s \in Slots, v \in Prios : set_priority(c, s, v)
    \/ \E s \in Slots : wakeup(s)

Next == Step /\ UNCHANGED policy

Spec == Init /\ [][Next]_vars

\* scheduler() keeps looking, the clock keeps ticking (one CPU).
Fairness == \A c \in CPUS : /\ WF_vars(Scheduler(c) /\ UNCHANGED policy)
                            /\ WF_vars(Tick(c) /\ UNCHANGED policy)
                            /\ WF_vars(yield(c) /\ UNCHANGED policy)

FairSpec == Spec /\ Fairness

-----------------------------------------------------------------------------
(* Properties                                                              *)

Dispatched(s) == state[s] = "RUNNABLE" /\ state'[s] = "RUNNING"

\* PBS: "always a process with higher priority will run first", although
\* mxprt was computed before other processes ran and priorities changed;
\* FCFS: "processes get opportunity to run based on their time of arrivals".
BestFirst ==
    [][\A s \in Slots : Dispatched(s) => \A t \in Runnable :
          /\ policy = "PBS" => priority[s] <= priority[t]
          /\ policy = "FCFS" => ctime[s] <= ctime[t]]_vars

\* Some process runs.
Busy == \E s \in Slots : state[s] = "RUNNING"

\* The CPU does not stay idle while there is a process to run.  The searches
\* of PBS start at MXPRT, and a process with a priority above is not found.
NeverIdle == (\E s \in Runnable : policy = "PBS" => priority[s] <= MXPRT) ~> Busy

\* The same without the exception: the scheduler "loops, doing: choose a
\* process to run; swtch to start running that process".
WorkConserving == Runnable # {} ~> Busy

\* A process in execution on a CPU is RUNNING, that is, no other CPU has given
\* it up: c->proc is "the process running on this cpu or null".
Executed == \A c \in CPUS : cpc[c] = "proc" => state[cproc[c]] = "RUNNING"

\* A better process is ready while s runs.
Outranked(s, t) ==
    policy = "PBS" /\ state[s] = "RUNNING" /\ state[t] = "RUNNABLE" /\ priority[t] < priority[s]

\* PBS: a process that runs while a better one is ready "will get preempted".
Preemptive == \A s, t \in Slots : Outranked(s, t) ~> ~Outranked(s, t)
=============================================================================
