----------------------------- MODULE SchedProofs ----------------------------
(***************************************************************************)
(* Proofs about Sched and SchedTurns for a table and priorities of any     *)
(* size; BestFirst for any number of CPUs.                                 *)
(***************************************************************************)
EXTENDS SchedTurns, WellFoundedInduction, TLAPS

\* A set of numbers that is not empty has a least element.
LEMMA LeastNumber ==
  ASSUME NEW T, T \subseteq Nat, T # {}
  PROVE  \E m \in T : \A n \in T : m <= n
<1> DEFINE R == OpToRel(<, Nat)
<1>1. IsWellFoundedOn(R, Nat)
  BY NatLessThanWellFounded
<1>2. \A x, y \in Nat : <<y, x>> \in R <=> y < x
  BY DEF OpToRel
<1> HIDE DEF R
<1>3. PICK m \in T : \A n \in T : ~(<<n, m>> \in R)
  BY <1>1, WFMin
<1>4. \A n \in T : m <= n
  <2>1. SUFFICES ASSUME NEW n \in T PROVE m <= n
    OBVIOUS
  <2>2. m \in Nat /\ n \in Nat /\ ~(n < m)
    BY <1>2, <1>3
  <2> QED
    BY <2>2
<1> QED
  BY <1>4

-----------------------------------------------------------------------------

\* Every variable has its type.
TypeOK ==
    /\ state \in [Slots -> {"UNUSED", "SLEEPING", "RUNNABLE", "RUNNING", "ZOMBIE"}]
    /\ priority \in [Slots -> Nat] /\ ctime \in [Slots -> Nat] /\ ticks \in Nat
    /\ lock \in CPUS \cup {NULL} /\ cproc \in [CPUS -> Slots \cup {NULL}]
    /\ cpc \in [CPUS -> {"idle", "scan", "swtch", "proc", "tick", "stray", "lost"}]
    /\ pos \in [CPUS -> Nat] /\ mxprt \in [CPUS -> Nat]

\* scheduler() holds ptable.lock while it scans and when swtch() returns, and
\* a CPU that has lost its way keeps it.
LockOK == \A c \in CPUS : cpc[c] \in {"scan", "swtch", "lost"} <=> lock = c

\* While PBS scans, no RUNNABLE process is better than mxprt.
BestKnown ==
    \A c \in CPUS : cpc[c] = "scan" /\ policy = "PBS" =>
        \A t \in Runnable : mxprt[c] <= priority[t]

IInv == TypeOK /\ LockOK /\ BestKnown

-----------------------------------------------------------------------------
\* The search for the best priority.
LEMMA LeastIs ==
  ASSUME NEW S, S \subseteq Nat, NEW top \in Nat
  PROVE  Least(S, top) \in Nat /\ \A n \in S : Least(S, top) <= n
<1>1. PICK m \in S \cup {top} : \A n \in S \cup {top} : m <= n
  <2>1. S \cup {top} \subseteq Nat /\ S \cup {top} # {}
    OBVIOUS
  <2> QED
    BY <2>1, LeastNumber
<1>2. \E x \in S \cup {top} : x <= top /\ \A n \in S : x <= n
  BY <1>1
<1>3. Least(S, top) \in S \cup {top} /\ \A n \in S : Least(S, top) <= n
  BY <1>2 DEF Least
<1> QED
  BY <1>3

\* The priorities of the RUNNABLE processes.
LEMMA LeastPriority ==
  ASSUME TypeOK, NEW top \in Nat
  PROVE  /\ Least({priority[s] : s \in Runnable}, top) \in Nat
         /\ \A t \in Runnable : Least({priority[s] : s \in Runnable}, top) <= priority[t]
<1> DEFINE P == {priority[s] : s \in Runnable}
<1>1. P \subseteq Nat /\ \A t \in Runnable : priority[t] \in P
  BY DEF TypeOK, Runnable
<1> HIDE DEF P
<1>2. Least(P, top) \in Nat /\ \A n \in P : Least(P, top) <= n
  BY <1>1, LeastIs
<1> QED
  BY <1>1, <1>2 DEF P

\* What BestKnown depends on.
LEMMA BestSame ==
  ASSUME BestKnown, LockOK', lock' = NULL
  PROVE  BestKnown'
BY SchedAssumption DEF BestKnown, LockOK

\* scheduler() takes ptable.lock.
LEMMA AcquireInv ==
  ASSUME IInv, NEW c \in CPUS, Acquire(c), UNCHANGED policy
  PROVE  IInv'
<1>1. TypeOK /\ LockOK
  BY DEF IInv
<1>2. mxprt' \in [CPUS -> Nat]
  <2>1. (IF policy = "PBS" THEN Least({priority[s] : s \in Runnable}, MXPRT)
                           ELSE mxprt[c]) \in Nat
    BY <1>1, LeastPriority, SchedAssumption DEF TypeOK
  <2> QED
    BY <1>1, <2>1 DEF TypeOK, Acquire
<1>3. TypeOK'
  BY <1>1, <1>2 DEF TypeOK, Acquire, procs
<1>4. LockOK'
  BY <1>1, SchedAssumption DEF TypeOK, LockOK, Acquire
<1>5. BestKnown'
  <2>1. \A d \in CPUS : cpc'[d] = "scan" => d = c
    BY <1>4 DEF LockOK, Acquire
  <2>2. Runnable' = Runnable /\ priority' = priority
    BY DEF Acquire, procs, Runnable
  <2>3. policy = "PBS" => mxprt'[c] = Least({priority[s] : s \in Runnable}, MXPRT)
    BY <1>1 DEF TypeOK, Acquire
  <2>4. policy = "PBS" => \A t \in Runnable : mxprt'[c] <= priority[t]
    BY <1>1, <2>3, LeastPriority, SchedAssumption
  <2> QED
    BY <2>1, <2>2, <2>4 DEF BestKnown
<1> QED
  BY <1>3, <1>4, <1>5 DEF IInv

\* A process is dispatched.
LEMMA DispatchInv ==
  ASSUME IInv, NEW c \in CPUS, NEW s \in Slots, Dispatch(c, s)
  PROVE  IInv'
<1>1. TypeOK /\ LockOK /\ BestKnown
  BY DEF IInv
<1>2. s + 1 \in Nat
  BY SchedAssumption DEF Slots
<1>3. TypeOK'
  BY <1>1, <1>2 DEF TypeOK, Dispatch
<1>4. LockOK'
  BY <1>1, SchedAssumption DEF TypeOK, LockOK, Dispatch
<1>5. BestKnown'
  BY <1>1, <1>4, BestSame DEF Dispatch
<1> QED
  BY <1>3, <1>4, <1>5 DEF IInv

\* The scan ends.
LEMMA ReleaseInv ==
  ASSUME IInv, NEW c \in CPUS, Release(c)
  PROVE  IInv'
<1>1. TypeOK /\ LockOK /\ BestKnown
  BY DEF IInv
<1>2. TypeOK'
  BY <1>1 DEF TypeOK, Release, procs
<1>3. LockOK'
  BY <1>1, SchedAssumption DEF TypeOK, LockOK, Release
<1>4. BestKnown'
  BY <1>1, <1>3, BestSame DEF Release
<1> QED
  BY <1>2, <1>3, <1>4 DEF IInv

\* The process has come back; PBS has looked at the priorities again.
LEMMA BackInv ==
  ASSUME IInv, NEW c \in CPUS, Back(c), UNCHANGED policy
  PROVE  IInv'
<1>1. TypeOK /\ LockOK /\ BestKnown
  BY DEF IInv
<1>2. TypeOK'
  BY <1>1 DEF TypeOK, Back, procs
<1>3. LockOK'
  BY <1>1, SchedAssumption DEF TypeOK, LockOK, Back
<1>4. CASE lock' = NULL
  BY <1>1, <1>2, <1>3, <1>4, BestSame DEF IInv
<1>5. CASE lock' # NULL
  <2>1. lock' = c /\ ~Better(c)
    BY <1>5 DEF Back
  <2>2. \A d \in CPUS : cpc'[d] = "scan" => d = c
    BY <1>3, <2>1 DEF LockOK
  <2>3. Runnable' = Runnable /\ priority' = priority /\ mxprt' = mxprt
    BY DEF Back, procs, Runnable
  <2>4. policy = "PBS" => \A t \in Runnable : mxprt[c] <= priority[t]
    <3>1. SUFFICES ASSUME policy = "PBS", NEW t \in Runnable
                   PROVE  mxprt[c] <= priority[t]
      OBVIOUS
    <3> DEFINE m == Least({priority[s] : s \in Runnable}, MX2)
    <3>2. m \in Nat /\ m <= priority[t]
      BY <1>1, LeastPriority, SchedAssumption
    <3>3. ~(m < mxprt[c])
      BY <2>1, <3>1 DEF Better
    <3> HIDE DEF m
    <3>4. mxprt[c] \in Nat /\ priority[t] \in Nat
      BY <1>1 DEF TypeOK, Runnable
    <3> QED
      BY <3>2, <3>3, <3>4
  <2>5. BestKnown'
    BY <2>2, <2>3, <2>4 DEF BestKnown
  <2> QED
    BY <1>2, <1>3, <2>5 DEF IInv
<1> QED
  BY <1>4, <1>5

\* A process gives up the CPU.
LEMMA LeaveInv ==
  ASSUME IInv, NEW c \in CPUS, cpc[c] \in {"proc", "tick", "stray"},
         NEW st \in {"RUNNABLE", "SLEEPING", "ZOMBIE"}, Leave(c, st)
  PROVE  IInv'
<1>1. TypeOK /\ LockOK
  BY DEF IInv
<1>2. TypeOK'
  BY <1>1 DEF TypeOK, Leave
<1>3. LockOK'
  BY <1>1, SchedAssumption DEF TypeOK, LockOK, Leave
<1>4. \A d \in CPUS : cpc'[d] # "scan"
  BY <1>1, SchedAssumption DEF TypeOK, LockOK, Leave
<1> QED
  BY <1>2, <1>3, <1>4 DEF IInv, BestKnown

\* The clock and the system calls, which need ptable.lock and leave it free.
Calls ==
    \/ \E c \in CPUS : \/ Tick(c)
                       \/ \E s \in Slots : wait(c, s)
                       \/ \E s \in Slots, v \in Prios : fork(c, s, v)
                       \/ \E s \in Slots, v \in Prios : set_priority(c, s, v)
    \/ \E s \in Slots : wakeup(s)

LEMMA CallsInv ==
  ASSUME IInv, Calls
  PROVE  IInv'
<1>1. TypeOK /\ LockOK /\ BestKnown
  BY DEF IInv
<1>2. lock = NULL /\ lock' = NULL
  BY DEF Calls, Tick, wait, fork, set_priority, wakeup, cpu
<1>3. TypeOK'
  <2>1. CASE \E c \in CPUS : Tick(c)
    BY <1>1, <2>1, SchedAssumption DEF TypeOK, Tick, NextTick
  <2>2. CASE \E c \in CPUS, s \in Slots : wait(c, s)
    BY <1>1, <2>2 DEF TypeOK, wait, cpu
  <2>3. CASE \E c \in CPUS, s \in Slots, v \in Prios : fork(c, s, v)
    BY <1>1, <2>3, SchedAssumption DEF TypeOK, fork, cpu
  <2>4. CASE \E c \in CPUS, s \in Slots, v \in Prios : set_priority(c, s, v)
    BY <1>1, <2>4, SchedAssumption DEF TypeOK, set_priority, cpu
  <2>5. CASE \E s \in Slots : wakeup(s)
    BY <1>1, <2>5 DEF TypeOK, wakeup, cpu
  <2> QED
    BY <2>1, <2>2, <2>3, <2>4, <2>5 DEF Calls
<1>4. LockOK'
  BY <1>1, <1>2 DEF TypeOK, LockOK, Calls, Tick, wait, fork, set_priority, wakeup, cpu
<1>5. BestKnown'
  BY <1>1, <1>2, <1>4, BestSame
<1> QED
  BY <1>3, <1>4, <1>5 DEF IInv

\* IInv is inductive.
LEMMA NextInv ==
  ASSUME IInv, [Next]_vars
  PROVE  IInv'
<1>1. CASE \E c \in CPUS : Scheduler(c) /\ UNCHANGED policy
  BY <1>1, AcquireInv, DispatchInv, ReleaseInv, BackInv DEF Scheduler
<1>2. CASE \E c \in CPUS : yield(c) \/ sleep(c) \/ exit(c)
  BY <1>2, LeaveInv DEF yield, sleep, exit
<1>3. CASE Calls
  BY <1>3, CallsInv
<1>4. CASE UNCHANGED vars
  BY <1>4 DEF IInv, TypeOK, LockOK, BestKnown, Runnable, vars, procs, cpu
<1> QED
  BY <1>1, <1>2, <1>3, <1>4 DEF Next, Step, Calls

\* Only Dispatch makes a RUNNABLE process RUNNING.
LEMMA OnlyDispatch ==
  ASSUME IInv, [Next]_vars, NEW s \in Slots, Dispatched(s)
  PROVE  \E c \in CPUS : Dispatch(c, s)
<1>1. TypeOK
  BY DEF IInv
<1>2. state[s] = "RUNNABLE" /\ state'[s] = "RUNNING"
  BY DEF Dispatched
<1>3. CASE \E c \in CPUS : Scheduler(c)
  <2>1. PICK c \in CPUS : Scheduler(c)
    BY <1>3
  <2>2. ~(UNCHANGED procs)
    BY <1>2 DEF procs
  <2>3. PICK t \in Slots : Dispatch(c, t)
    BY <2>1, <2>2 DEF Scheduler, Acquire, Release, Back
  <2>4. t = s
    BY <1>1, <1>2, <2>3 DEF TypeOK, Dispatch
  <2> QED
    BY <2>3, <2>4
<1>4. CASE \E c \in CPUS : yield(c) \/ sleep(c) \/ exit(c)
  BY <1>1, <1>2, <1>4 DEF TypeOK, yield, sleep, exit, Leave
<1>5. CASE Calls
  BY <1>1, <1>2, <1>5 DEF TypeOK, Calls, Tick, wait, fork, set_priority, wakeup
<1>6. CASE UNCHANGED vars
  BY <1>2, <1>6 DEF vars, procs
<1> QED
  BY <1>3, <1>4, <1>5, <1>6 DEF Next, Step, Calls

\* The kernel starts with an idle CPU and one process.
LEMMA InitInv == Init => IInv
<1> SUFFICES ASSUME Init PROVE IInv
  OBVIOUS
<1>1. priority \in [Slots -> Nat]
  BY SchedAssumption DEF Init
<1>2. ctime \in [Slots -> Nat] /\ ticks \in Nat /\ lock \in CPUS \cup {NULL}
  BY DEF Init
<1>3. state \in [Slots -> {"UNUSED", "SLEEPING", "RUNNABLE", "RUNNING", "ZOMBIE"}]
  BY DEF Init
<1>4. /\ cproc \in [CPUS -> Slots \cup {NULL}]
      /\ cpc \in [CPUS -> {"idle", "scan", "swtch", "proc", "tick", "stray", "lost"}]
  BY DEF Init
<1>5. pos \in [CPUS -> Nat] /\ mxprt \in [CPUS -> Nat]
  BY SchedAssumption DEF Init
<1>6. \A c \in CPUS : cpc[c] = "idle" /\ lock # c
  BY SchedAssumption DEF Init
<1>7. TypeOK
  BY <1>1, <1>2, <1>3, <1>4, <1>5 DEF TypeOK
<1> QED
  BY <1>6, <1>7 DEF IInv, LockOK, BestKnown

-----------------------------------------------------------------------------
(* Theorems                                                                *)

\* The strengthening that BestFirst is read off.
THEOREM Invariance == Spec => []IInv
<1>1. Init => IInv
  BY InitInv
<1>2. IInv /\ [Next]_vars => IInv'
  BY NextInv
<1> QED
  BY <1>1, <1>2, PTL DEF Spec

\* FCFS dispatches a process that came first and PBS one of the best
\* priority among the RUNNABLE ones, on any number of CPUs, although mxprt
\* is computed before other processes run and priorities change.
THEOREM BestFirstHolds == Spec => BestFirst
<1>1. ASSUME IInv, [Next]_vars, NEW s \in Slots, Dispatched(s), NEW t \in Runnable
      PROVE  /\ policy = "PBS" => priority[s] <= priority[t]
             /\ policy = "FCFS" => ctime[s] <= ctime[t]
  <2>1. PICK c \in CPUS : Dispatch(c, s)
    BY <1>1, OnlyDispatch
  <2>2. cpc[c] = "scan" /\ Eligible(c, s)
    BY <2>1 DEF Dispatch
  <2>3. policy = "PBS" => mxprt[c] <= priority[t]
    BY <1>1, <2>2 DEF IInv, BestKnown
  <2> QED
    BY <1>1, <2>2, <2>3 DEF Eligible
<1>2. IInv /\ [Next]_vars =>
        [\A s \in Slots : Dispatched(s) => \A t \in Runnable :
           /\ policy = "PBS" => priority[s] <= priority[t]
           /\ policy = "FCFS" => ctime[s] <= ctime[t]]_vars
  BY <1>1
<1> QED
  BY <1>2, Invariance, PTL DEF Spec, BestFirst

-----------------------------------------------------------------------------
(* The process left in c->proc, on one CPU                                 *)

\* On one CPU nobody else runs a process or moves the scan.
OneCPU == \A c, d \in CPUS : c = d

\* A process is RUNNING exactly while the CPU executes it.
OwnInv ==
    /\ IInv
    /\ \A c \in CPUS :
          /\ cpc[c] \in {"proc", "tick"} => cproc[c] \in Slots /\ state[cproc[c]] = "RUNNING"
          /\ \A s \in Slots :
                state[s] = "RUNNING" => cpc[c] \in {"proc", "tick"} /\ cproc[c] = s
          /\ cpc[c] # "stray"

\* Every step of the only CPU keeps OwnInv.
LEMMA OwnStep ==
  ASSUME OneCPU, OwnInv, [Next]_vars
  PROVE  OwnInv'
<1>1. TypeOK /\ IInv' /\ IInv
  BY NextInv DEF OwnInv, IInv
<1>2. ASSUME NEW c \in CPUS
      PROVE  /\ cpc'[c] \in {"proc", "tick"} =>
                   cproc'[c] \in Slots /\ state'[cproc'[c]] = "RUNNING"
             /\ \A s \in Slots :
                   state'[s] = "RUNNING" => cpc'[c] \in {"proc", "tick"} /\ cproc'[c] = s
             /\ cpc'[c] # "stray"
  <2>1. /\ cpc[c] \in {"proc", "tick"} => cproc[c] \in Slots /\ state[cproc[c]] = "RUNNING"
        /\ \A s \in Slots :
              state[s] = "RUNNING" => cpc[c] \in {"proc", "tick"} /\ cproc[c] = s
        /\ cpc[c] # "stray"
    BY <1>2 DEF OwnInv
  <2>2. CASE Acquire(c) \/ Release(c)
    BY <1>1, <2>1, <2>2 DEF TypeOK, Acquire, Release, procs
  <2>3. CASE \E s \in Slots : Dispatch(c, s)
    BY <1>1, <2>1, <2>3 DEF TypeOK, Dispatch
  <2>4. CASE Back(c)
    BY <1>1, <2>1, <2>4 DEF TypeOK, Back, procs
  <2>5. CASE yield(c) \/ sleep(c) \/ exit(c)
    <3>1. /\ cproc[c] \in Slots /\ cproc' = cproc
          /\ cpc'[c] = "swtch"
          /\ \A s \in Slots : s # cproc[c] => state'[s] = state[s]
          /\ state'[cproc[c]] # "RUNNING"
      BY <1>1, <2>1, <2>5 DEF TypeOK, yield, sleep, exit, Leave
    <3> QED
      BY <2>1, <3>1
  <2>6. CASE Tick(c)
    <3>1. state' = state /\ cproc' = cproc
      BY <2>6 DEF Tick
    <3>2. cpc[c] = "idle" => ~Interrupted(c)
      BY <1>1, <2>1 DEF Interrupted, TypeOK
    <3>3. cpc'[c] = cpc[c] \/ (cpc[c] = "proc" /\ cpc'[c] = "tick")
      BY <1>1, <2>6, <3>2 DEF Tick, TypeOK
    <3> QED
      BY <2>1, <3>1, <3>3
  <2>7. CASE Calls /\ ~Tick(c)
    <3>1. cpc' = cpc /\ cproc' = cproc
      BY <2>7 DEF OneCPU, Calls, wait, fork, set_priority, wakeup, cpu
    <3>2. \A s \in Slots : state'[s] = "RUNNING" <=> state[s] = "RUNNING"
      BY <1>1, <2>7 DEF OneCPU, TypeOK, Calls, wait, fork, set_priority, wakeup
    <3> QED
      BY <2>1, <3>1, <3>2
  <2>8. CASE UNCHANGED vars
    BY <2>1, <2>8 DEF vars, procs, cpu
  <2>9. \A d \in CPUS : d = c
    BY DEF OneCPU
  <2> QED
    BY <2>2, <2>3, <2>4, <2>5, <2>6, <2>7, <2>8, <2>9 DEF Next, Step, Scheduler, Calls
<1> QED
  BY <1>1, <1>2 DEF OwnInv

\* On one CPU the process that PBS leaves in c->proc does no harm: no clock
\* interrupt of the idle loop gives up a process for another CPU.
THEOREM LeftOverHarmless ==
  ASSUME OneCPU
  PROVE  Spec => []Executed
<1>1. Init => OwnInv
  <2>1. SUFFICES ASSUME Init PROVE OwnInv
    OBVIOUS
  <2>2. IInv
    BY <2>1, InitInv
  <2> QED
    BY <2>1, <2>2 DEF Init, OwnInv
<1>2. OwnInv /\ [Next]_vars => OwnInv'
  BY OwnStep
<1>3. OwnInv => Executed
  BY DEF OwnInv, Executed
<1> QED
  BY <1>1, <1>2, <1>3, PTL DEF Spec

-----------------------------------------------------------------------------
(* Round robin, on one CPU                                                 *)

\* Who has had a turn while s waits is behind the position of the scan, if
\* the scan has yet to come to s; else it is between s and the position.
\* Between two scans it is behind s.
Turn(c, s, t) ==
    /\ s >= pos[c] => t < pos[c] \/ t > s
    /\ s < pos[c] => s < t /\ t < pos[c]
    /\ cpc[c] = "idle" => s < t

TurnInv ==
    /\ IInv
    /\ passed \in [Slots -> SUBSET Slots]
    /\ \A s \in Slots : passed[s] # {} => state[s] = "RUNNABLE" /\ policy = "DEFAULT"
    /\ \A c \in CPUS, s \in Slots : \A t \in passed[s] : Turn(c, s, t)

\* passed changes only with the dispatch of another process.
LEMMA PassedIs ==
  ASSUME TurnInv, TurnNext
  PROVE  /\ passed' \in [Slots -> SUBSET Slots]
         /\ \A s \in Slots : passed'[s] # {} =>
               /\ policy = "DEFAULT" /\ policy' = policy
               /\ state[s] = "RUNNABLE" /\ state'[s] = "RUNNABLE"
               /\ \A t \in passed'[s] : t \in passed[s] \/ (t \in Slots /\ Dispatched(t))
<1> DEFINE D == {t \in Slots : Dispatched(t)}
           waits(s) == policy = "DEFAULT" /\ state[s] = "RUNNABLE" /\ state'[s] = "RUNNABLE"
<1>1. passed' = [s \in Slots |-> IF waits(s) THEN passed[s] \cup D ELSE {}]
  BY DEF TurnNext
<1>2. passed \in [Slots -> SUBSET Slots] /\ D \subseteq Slots /\ policy' = policy
  BY DEF TurnInv, TurnNext, Next
<1> HIDE DEF D
<1>3. passed' \in [Slots -> SUBSET Slots]
  BY <1>1, <1>2
<1>4. \A s \in Slots : passed'[s] # {} => waits(s) /\ passed'[s] = passed[s] \cup D
  BY <1>1
<1>5. \A t \in D : t \in Slots /\ Dispatched(t)
  BY DEF D
<1> QED
  BY <1>2, <1>3, <1>4, <1>5

\* The scan moves on.
LEMMA TurnStep ==
  ASSUME OneCPU, TurnInv, TurnNext, NEW c \in CPUS, NEW s \in Slots, NEW t \in passed'[s]
  PROVE  Turn(c, s, t)'
<1>1. /\ policy = "DEFAULT" /\ s \in Runnable /\ s \in Runnable'
      /\ t \in passed[s] \/ (t \in Slots /\ Dispatched(t))
  <2>1. passed'[s] # {}
    OBVIOUS
  <2>2. /\ policy = "DEFAULT" /\ state[s] = "RUNNABLE" /\ state'[s] = "RUNNABLE"
        /\ \A u \in passed'[s] : u \in passed[s] \/ (u \in Slots /\ Dispatched(u))
    BY <2>1, PassedIs
  <2> QED
    BY <2>2 DEF Runnable
<1>2. TypeOK /\ IInv /\ Next /\ s \in Nat /\ t \in Nat /\ t \in Slots
  BY <1>1, SchedAssumption DEF TurnInv, IInv, TurnNext, Slots
<1>3. pos[c] \in Nat /\ (t \in passed[s] => Turn(c, s, t))
  BY <1>2 DEF TurnInv, TypeOK
<1>4. CASE \E u \in Slots : Dispatch(c, u)
  <2>1. PICK u \in Slots : Dispatch(c, u)
    BY <1>4
  <2>2. pos'[c] = u + 1 /\ cpc'[c] = "proc" /\ u >= pos[c] /\ u \in Nat
    BY <1>2, <2>1, SchedAssumption DEF TypeOK, Dispatch, Eligible, Slots
  <2>3. s >= pos[c] => u < s
    <3>1. s # u
      BY <1>1, <1>2, <2>1 DEF TypeOK, Dispatch, Runnable
    <3>2. s >= pos[c] => Eligible(c, s)
      BY <1>1 DEF Eligible
    <3>3. s >= pos[c] => u <= s
      BY <2>1, <3>2 DEF Dispatch
    <3> QED
      BY <1>2, <1>3, <2>2, <3>1, <3>3
  <2>4. CASE t \in passed[s]
    <3>1. /\ s >= pos[c] => t < pos[c] \/ t > s
          /\ s < pos[c] => s < t /\ t < pos[c]
      BY <1>3, <2>4 DEF Turn
    <3> QED
      BY <1>2, <1>3, <2>2, <2>3, <3>1 DEF Turn
  <2>5. CASE Dispatched(t)
    <3>1. t = u
      BY <1>2, <2>1, <2>5 DEF TypeOK, Dispatch, Dispatched
    <3> QED
      BY <1>2, <1>3, <2>2, <2>3, <3>1 DEF Turn
  <2> QED
    BY <1>1, <2>4, <2>5
<1>5. CASE ~\E u \in Slots : Dispatch(c, u)
  <2>1. t \in passed[s]
    <3>1. ASSUME Dispatched(t) PROVE FALSE
      BY <1>2, <1>5, <3>1, OnlyDispatch DEF OneCPU
    <3> QED
      BY <1>1, <3>1
  <2>2. Turn(c, s, t)
    BY <1>3, <2>1
  <2>3. CASE Acquire(c)
    <3>1. pos'[c] = 1 /\ s < t
      BY <1>2, <2>2, <2>3 DEF TypeOK, Acquire, Turn
    <3>2. s >= 1
      BY SchedAssumption DEF Slots
    <3> QED
      BY <1>2, <3>1, <3>2 DEF Turn
  <2>4. CASE Release(c)
    <3>1. pos' = pos
      BY <2>4 DEF Release
    <3>2. ~(s >= pos[c])
      BY <1>1, <2>4 DEF Release, Eligible
    <3>3. s < t /\ t < pos[c]
      BY <1>2, <1>3, <2>2, <3>2 DEF Turn
    <3> QED
      BY <1>2, <1>3, <3>1, <3>2, <3>3 DEF Turn
  <2>5. CASE Back(c)
    <3>1. pos' = pos /\ cpc'[c] = "scan"
      BY <1>1, <1>2, <2>5 DEF TypeOK, Back, Better
    <3> QED
      BY <2>2, <3>1 DEF Turn
  <2>6. CASE yield(c) \/ sleep(c) \/ exit(c)
    <3>1. pos' = pos /\ cpc'[c] # "idle"
      BY <1>2, <2>6 DEF TypeOK, yield, sleep, exit, Leave
    <3> QED
      BY <2>2, <3>1 DEF Turn
  <2>7. CASE Calls
    <3>1. pos' = pos /\ (cpc'[c] = "idle" => cpc[c] = "idle")
      BY <1>2, <2>7 DEF TypeOK, Calls, Tick, wait, fork, set_priority, wakeup, cpu
    <3> QED
      BY <2>2, <3>1 DEF Turn
  <2>8. \A d \in CPUS : d = c
    BY DEF OneCPU
  <2> QED
    BY <1>2, <1>5, <2>3, <2>4, <2>5, <2>6, <2>7, <2>8 DEF Next, Step, Scheduler, Calls
<1> QED
  BY <1>4, <1>5

\* TurnInv is inductive on one CPU.
LEMMA TurnNextInv ==
  ASSUME OneCPU, TurnInv, [TurnNext]_turnVars
  PROVE  TurnInv'
<1>1. CASE TurnNext
  <2>1. IInv'
    BY <1>1, NextInv DEF TurnInv, TurnNext
  <2>2. /\ passed' \in [Slots -> SUBSET Slots]
        /\ \A s \in Slots : passed'[s] # {} => state'[s] = "RUNNABLE" /\ policy' = "DEFAULT"
    BY <1>1, PassedIs
  <2>3. \A c \in CPUS, s \in Slots : \A t \in passed'[s] : Turn(c, s, t)'
    BY <1>1, TurnStep
  <2> QED
    BY <2>1, <2>2, <2>3 DEF TurnInv
<1>2. CASE UNCHANGED turnVars
  <2>1. UNCHANGED vars /\ UNCHANGED passed
    BY <1>2 DEF turnVars
  <2>2. IInv'
    BY <2>1, NextInv DEF TurnInv
  <2>3. UNCHANGED <<policy, state, cpc, pos>>
    BY <2>1 DEF vars, procs, cpu
  <2> QED
    BY <2>1, <2>2, <2>3 DEF TurnInv, Turn
<1> QED
  BY <1>1, <1>2

\* DEFAULT is round robin: on one CPU nobody gets a second turn while a
\* process waits that was RUNNABLE before the first one.
THEOREM RoundRobinHolds ==
  ASSUME OneCPU
  PROVE  TurnSpec => RoundRobin
<1>1. TurnInit => TurnInv
  <2>1. TurnInit => IInv
    BY InitInv DEF TurnInit
  <2> QED
    BY <2>1 DEF TurnInit, TurnInv
<1>2. TurnInv /\ [TurnNext]_turnVars => TurnInv'
  BY TurnNextInv
<1>3. ASSUME TurnInv, TurnNext, NEW s \in Slots, NEW t \in Slots,
             policy = "DEFAULT", Dispatched(t), t \in passed[s]
      PROVE  FALSE
  <2>1. IInv /\ TypeOK /\ Next
    BY <1>3 DEF TurnInv, IInv, TurnNext
  <2>2. PICK c \in CPUS : Dispatch(c, t)
    BY <1>3, <2>1, OnlyDispatch
  <2>3. s \in Runnable /\ Turn(c, s, t)
    BY <1>3 DEF TurnInv, Runnable
  <2>4. t >= pos[c] /\ (s >= pos[c] => t <= s)
    BY <1>3, <2>2, <2>3 DEF Dispatch, Eligible
  <2>5. pos[c] \in Nat /\ s \in Nat /\ t \in Nat
    BY <2>1, SchedAssumption DEF TypeOK, Slots
  <2> QED
    BY <2>3, <2>4, <2>5 DEF Turn
<1>4. TurnInv /\ [TurnNext]_turnVars =>
        [\A s, t \in Slots : policy = "DEFAULT" /\ Dispatched(t) => t \notin passed[s]]_turnVars
  BY <1>3
<1> QED
  BY <1>1, <1>2, <1>4, PTL DEF TurnSpec, RoundRobin
=============================================================================
