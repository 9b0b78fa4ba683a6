-------------------------------- MODULE Mlfq --------------------------------
(***************************************************************************)
(* The multilevel feedback queue scheduler (SCHEDULER=MLFQ): the queues    *)
(* q0..q4 of proc.c, the scan of scheduler(), aging() and the clock branch *)
(* of trap(), with the operations of the process table that touch the      *)
(* queues or leave stale entries in them.  One CPU: the clock interrupt    *)
(* runs with interrupts off, so the whole of it is one action.             *)
(*                                                                         *)
(* The code spells out its five levels; here the level is a parameter.     *)
(* Moving to a level always clears its rrtime, so one counter per process  *)
(* stands for rrtime[qno].  tm, the waiting time that aging() compares     *)
(* with time_age, is ticks - ctime - rtime - aging_time: it grows by one   *)
(* on each tick that the process does not run and is cleared by aging().   *)
(* Only tm > time_age is ever tested, so tm stops at time_age + 1.         *)
(* Entries are compared by p or by p->pid; both say the same, as pids of   *)
(* live processes differ.                                                  *)
(***************************************************************************)
EXTENDS Naturals, Sequences, SequencesExt

CONSTANTS NPROC,      \* number of slots of ptable.proc
          NQ,         \* number of queues (5)
          time_age,   \* waiting time after which a process is promoted (50)
          MaxAllocs,  \* bound: how often allocproc may take each slot
          NULL

Slots == 1..NPROC
Levels == 0..(NQ - 1)

ASSUME MlfqAssumption ==
    /\ NPROC \in Nat \ {0}
    /\ NQ \in Nat \ {0, 1}
    /\ time_age \in Nat
    /\ MaxAllocs \in [Slots -> Nat]
    /\ NULL \notin Slots

VARIABLES
    state,   \* p->state
    qno,     \* p->qno
    rrtime,  \* p->rrtime[p->qno]
    tm,      \* waiting time since the creation or the last promotion
    queue,   \* queue[l]: the entries 0..cnt[l]-1 of q<l>
    cproc,   \* c->proc
    allocs   \* how often allocproc has taken the slot

vars == <<state, qno, rrtime, tm, queue, cproc, allocs>>

initproc == 1

-----------------------------------------------------------------------------
(* Queues.  The operators named Bad... are faulty variants of the operator *)
(* that follows them; nothing uses them.                                   *)

\* Time slice of level l, in ticks.
Slice(l) == 2^l

\* A process that uses up its slice on the last level stays there.
LastLevel == NQ - 1

\* The position at which a search for s ends: demotion from level 0 keeps
\* the last match, every other search stops at the first one.  A search
\* that finds nothing is left with the first position.
FirstIndex(q, s) ==
    IF Contains(q, s) THEN CHOOSE i \in DOMAIN q :
                        q[i] = s /\ \A j \in 1..(i - 1) : q[j] # s
    ELSE 1

LastIndex(q, s) ==
    IF Contains(q, s) THEN CHOOSE i \in DOMAIN q :
                        q[i] = s /\ \A j \in (i + 1)..Len(q) : q[j] # s
    ELSE 1

\* Faulty: no test whether s is there already.
BadAppendNew(q, s) == Append(q, s)

\* Appended unless it is there already (the flag f of the code).
AppendNew(q, s) == IF Contains(q, s) THEN q ELSE Append(q, s)

\* Faulty: the test for an entry looks at the level that s leaves.
BadMoveTest(qs, s, l, i, k) ==
    [qs EXCEPT ![l] = RemoveAt(@, i),
               ![k] = IF Contains(qs[l], s) THEN @ ELSE Append(@, s)]

\* Faulty: the old entry stays.
BadMoveKeep(qs, s, l, i, k) == [qs EXCEPT ![k] = AppendNew(@, s)]

\* qs after s, found at position i of level l, has moved to level k.
Move(qs, s, l, i, k) ==
    [qs EXCEPT ![l] = RemoveAt(@, i), ![k] = AppendNew(@, s)]

-----------------------------------------------------------------------------
(* scheduler()                                                             *)

\* Faulty: the levels are searched in the wrong order.
BadChosen(s) ==
    \E l \in Levels : \E i \in DOMAIN queue[l] :
        /\ queue[l][i] = s
        /\ state[s] = "RUNNABLE"
        /\ \A j \in 1..(i - 1) : state[queue[l][j]] # "RUNNABLE"
        /\ \A k \in (l + 1)..(NQ - 1) : \A j \in DOMAIN queue[k] :
              state[queue[k][j]] # "RUNNABLE"

\* The first RUNNABLE entry of the first level that has one.
Chosen(s) ==
    \E l \in Levels : \E i \in DOMAIN queue[l] :
        /\ queue[l][i] = s
        /\ state[s] = "RUNNABLE"
        /\ \A j \in 1..(i - 1) : state[queue[l][j]] # "RUNNABLE"
        /\ \A k \in 0..(l - 1) : \A j \in DOMAIN queue[k] :
              state[queue[k][j]] # "RUNNABLE"

Dispatch(s) ==
    /\ cproc = NULL
    /\ Chosen(s)
    /\ state' = [state EXCEPT ![s] = "RUNNING"]
    /\ cproc' = s
    /\ UNCHANGED <<qno, rrtime, tm, queue, allocs>>

-----------------------------------------------------------------------------
(* The process table                                                       *)

\* The process on the CPU gives it up in state st.
Leave(st) ==
    /\ cproc # NULL
    /\ state' = [state EXCEPT ![cproc] = st]
    /\ cproc' = NULL
    /\ UNCHANGED <<qno, rrtime, tm, queue, allocs>>

sleep == Leave("SLEEPING")

exit == cproc # initproc /\ Leave("ZOMBIE")

\* wakeup1() and kill() do not touch the queues.
wakeup(s) ==
    /\ state[s] = "SLEEPING"
    /\ state' = [state EXCEPT ![s] = "RUNNABLE"]
    /\ UNCHANGED <<qno, rrtime, tm, queue, cproc, allocs>>

\* wait() frees the slot and leaves its entries in the queues.
wait(s) ==
    /\ cproc # NULL
    /\ state[s] = "ZOMBIE"
    /\ state' = [state EXCEPT ![s] = "UNUSED"]
    /\ UNCHANGED <<qno, rrtime, tm, queue, cproc, allocs>>

\* allocproc() appends the first free slot to level 0 unconditionally, and
\* fork() then makes it RUNNABLE (st) or, out of memory, UNUSED again.
allocproc(s, st) ==
    /\ cproc # NULL
    /\ allocs[s] < MaxAllocs[s]
    /\ state[s] = "UNUSED"
    /\ \A t \in Slots : state[t] = "UNUSED" => s <= t
    /\ state' = [state EXCEPT ![s] = st]
    /\ qno' = [qno EXCEPT ![s] = 0]
    /\ rrtime' = [rrtime EXCEPT ![s] = 0]
    /\ tm' = [tm EXCEPT ![s] = 0]
    /\ queue' = [queue EXCEPT ![0] = Append(@, s)]
    /\ allocs' = [allocs EXCEPT ![s] = @ + 1]
    /\ UNCHANGED cproc

-----------------------------------------------------------------------------
(* The clock interrupt                                                     *)

\* wakeup(&ticks): the sleepers W, those of sys_sleep(), become RUNNABLE.
\* Which sleepers these are is left open.
Sleepers == {s \in Slots : state[s] = "SLEEPING"}

Woken(W) == [s \in Slots |-> IF s \in W THEN "RUNNABLE" ELSE state[s]]

\* ticks++: who neither runs nor is gone has waited one tick more.
Waited ==
    [s \in Slots |->
        IF state[s] \in {"SLEEPING", "RUNNABLE"} /\ tm[s] <= time_age
        THEN tm[s] + 1 ELSE tm[s]]

\* The processes whose wait aging() ends.
Aged(W) == {s \in Slots : Woken(W)[s] = "RUNNABLE" /\ Waited[s] > time_age}

\* Those of them that can move up.
Promoted(W) == {s \in Aged(W) : qno[s] > 0}

AgedQno(W) ==
    [s \in Slots |-> IF s \in Promoted(W) THEN qno[s] - 1 ELSE qno[s]]

AgedRr(W) == [s \in Slots |-> IF s \in Promoted(W) THEN 0 ELSE rrtime[s]]

\* aging() has come to slot n, with the queues qs.
AgeSlot(W, qs, n) ==
    IF n \in Promoted(W)
    THEN Move(qs, n, qno[n], FirstIndex(qs[qno[n]], n), qno[n] - 1)
    ELSE qs

\* The queues after aging(), which looks at the slots in their order.
AgedQueue(W) ==
    LET scan[n \in 0..NPROC] ==
            IF n = 0 THEN queue ELSE AgeSlot(W, scan[n - 1], n)
    IN scan[NPROC]

\* What every clock interrupt does: ticks++, wakeup(&ticks), aging().
Clock(W) ==
    /\ tm' = [s \in Slots |-> IF s \in Aged(W) THEN 0 ELSE Waited[s]]
    /\ UNCHANGED allocs

\* No process runs.
TickIdle(W) ==
    /\ cproc = NULL
    /\ Clock(W)
    /\ state' = Woken(W)
    /\ qno' = AgedQno(W)
    /\ rrtime' = AgedRr(W)
    /\ queue' = AgedQueue(W)
    /\ UNCHANGED cproc

\* With the tick of this interrupt s has used up its time slice.
SliceUsed(s) == (rrtime[s] + 1) % Slice(qno[s]) = 0

\* The process that runs has used up its slice.  It moves to the tail of
\* the next level or, on the last level, of its own, and yields.
TickSlice(W) ==
    LET l == qno[cproc]
        q == AgedQueue(W)
        i == IF l = 0 THEN LastIndex(q[0], cproc) ELSE FirstIndex(q[l], cproc)
    IN /\ cproc # NULL
       /\ SliceUsed(cproc)
       /\ Clock(W)
       /\ IF l = LastLevel
          THEN /\ queue' = [q EXCEPT ![l] = Append(RemoveAt(@, i), cproc)]
               /\ qno' = AgedQno(W)
          ELSE /\ queue' = Move(q, cproc, l, i, l + 1)
               /\ qno' = [AgedQno(W) EXCEPT ![cproc] = l + 1]
       /\ rrtime' = [AgedRr(W) EXCEPT ![cproc] = 0]
       /\ state' = [Woken(W) EXCEPT ![cproc] = "RUNNABLE"]
       /\ cproc' = NULL

\* A level above l has an entry that could run.
Preempted(W, l) ==
    \E k \in 0..(l - 1) : \E i \in DOMAIN AgedQueue(W)[k] :
        Woken(W)[AgedQueue(W)[k][i]] = "RUNNABLE"

\* It has not, and yields only to a higher level.
TickInSlice(W) ==
    /\ cproc # NULL
    /\ ~SliceUsed(cproc)
    /\ Clock(W)
    /\ rrtime' = [AgedRr(W) EXCEPT ![cproc] = @ + 1]
    /\ qno' = AgedQno(W)
    /\ queue' = AgedQueue(W)
    /\ IF Preempted(W, qno[cproc])
       THEN /\ state' = [Woken(W) EXCEPT ![cproc] = "RUNNABLE"]
            /\ cproc' = NULL
       ELSE /\ state' = Woken(W)
            /\ UNCHANGED cproc

\* It has been killed: trap() calls exit() before it comes to the queues.
TickKilled(W) ==
    /\ cproc \notin {NULL, initproc}
    /\ Clock(W)
    /\ rrtime' = [AgedRr(W) EXCEPT ![cproc] = @ + 1]
    /\ qno' = AgedQno(W)
    /\ queue' = AgedQueue(W)
    /\ state' = [Woken(W) EXCEPT ![cproc] = "ZOMBIE"]
    /\ cproc' = NULL

-----------------------------------------------------------------------------
\* userinit() has created init.
Init ==
    /\ state = [s \in Slots |-> IF s = initproc THEN "RUNNABLE" ELSE "UNUSED"]
    /\ qno = [s \in Slots |-> 0]
    /\ rrtime = [s \in Slots |-> 0]
    /\ tm = [s \in Slots |-> 0]
    /\ queue = [l \in Levels |-> IF l = 0 THEN <<initproc>> ELSE <<>>]
    /\ cproc = NULL
    /\ allocs = [s \in Slots |-> IF s = initproc THEN 1 ELSE 0]

TickRunning ==
    \E W \in SUBSET Sleepers : TickSlice(W) \/ TickInSlice(W) \/ TickKilled(W)

Next ==
    \/ \E s \in Slots : Dispatch(s) \/ wakeup(s) \/ wait(s)
    \/ \E s \in Slots, st \in {"RUNNABLE", "UNUSED"} : allocproc(s, st)
    \/ sleep
    \/ exit
    \/ \E W \in SUBSET Sleepers : TickIdle(W)
    \/ TickRunning

Spec == Init /\ [][Next]_vars

(* scheduler() never stops looking for a process to run, and a process     *)
(* cannot for ever avoid to be on the CPU when the clock ticks.            *)
Fairness ==
    /\ WF_vars(\E s \in Slots : Dispatch(s))
    /\ SF_vars(TickRunning)

FairSpec == Spec /\ Fairness

-----------------------------------------------------------------------------
(* Properties                                                              *)

\* A process that exists is in the queue its qno names.  So scheduler()
\* finds it as soon as it is RUNNABLE, and the searches of trap() and
\* aging(), which remove entry 0 (or write q0[-1]) when they find nothing,
\* always find it - stale entries of earlier processes notwithstanding.
InOwnQueue == \A s \in Slots : state[s] # "UNUSED" => Contains(queue[qno[s]], s)

\* The first process of a slot is in one queue only, once; and although
\* later ones leave entries behind, a level below q0 holds a slot at most
\* once.  So of the queues, arrays of 1000 entries, only q0 can outgrow the
\* process table.
OneEntry ==
    \A l, k \in Levels : \A i \in DOMAIN queue[l], j \in DOMAIN queue[k] :
        LET s == queue[l][i]
        IN s = queue[k][j] =>
             /\ allocs[s] = 1 /\ state[s] # "UNUSED" => l = k /\ i = j
             /\ l = k /\ l # 0 => i = j

\* No slot has been taken twice so far.
NoReuse == \A s \in Slots : allocs[s] <= 1

\* As long as no slot is reused, the process that starts to run is of the
\* highest level of all that are RUNNABLE.
StrictPriority ==
    [][\A s, t \in Slots :
          NoReuse /\ state[s] = "RUNNABLE" /\ state'[s] = "RUNNING"
          /\ state[t] = "RUNNABLE" => qno[s] <= qno[t]]_vars

\* As long as no slot is reused, a process that is ready to run gets the
\* CPU, although others keep entering the levels above it.
ReadyRuns ==
    \A s \in Slots :
        NoReuse /\ state[s] = "RUNNABLE" ~> ~NoReuse \/ state[s] = "RUNNING"
=============================================================================
