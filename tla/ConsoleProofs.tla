---------------------------- MODULE ConsoleProofs ---------------------------
(***************************************************************************)
(* Proofs about Console for any number of CPUs and processes and any size  *)
(* of the input buffer.                                                    *)
(***************************************************************************)
EXTENDS Console, FiniteSetTheorems, TLAPS

-----------------------------------------------------------------------------
(* Remainders, for the unsigned indices of the ring, which wrap around    *)

\* A remainder is less than the divisor.
LEMMA ModRange ==
  ASSUME NEW W \in Nat \ {0}, NEW a \in Int
  PROVE  a % W \in 0..(W - 1)
OBVIOUS

\* An index that has not wrapped around.
LEMMA ModSmall ==
  ASSUME NEW W \in Nat \ {0}, NEW a \in 0..(W - 1)
  PROVE  a % W = a
OBVIOUS

\* An index that has wrapped around once.
LEMMA ModOnce ==
  ASSUME NEW W \in Nat \ {0}, NEW a \in W..(2 * W - 1)
  PROVE  a % W = a - W
OBVIOUS

\* The quotient of a number.
LEMMA ModQuotient ==
  ASSUME NEW P \in Nat \ {0}, NEW a \in Int
  PROVE  \E q \in Int : a = q * P + (a % P)
<1>1. a \div P \in Int /\ a = (a \div P) * P + (a % P)
  OBVIOUS
<1> QED
  BY <1>1

\* A number is its quotient and its remainder in one way only.
LEMMA ModUnique ==
  ASSUME NEW P \in Nat \ {0}, NEW a \in Int, NEW q \in Int, NEW m \in 0..(P - 1),
         a = q * P + m
  PROVE  a % P = m
<1>1. PICK k \in Int : a = k * P + (a % P)
  BY ModQuotient
<1>2. a % P \in 0..(P - 1)
  BY ModRange
<1>3. (k - q) * P = m - (a % P)
  BY <1>1, <1>2
<1>4. CASE k - q >= 1
  BY <1>2, <1>3, <1>4
<1>5. CASE k - q <= -1
  BY <1>2, <1>3, <1>5
<1>6. CASE k - q = 0
  BY <1>2, <1>3, <1>6
<1> QED
  BY <1>4, <1>5, <1>6

\* Multiples of the divisor do not matter.
LEMMA ModAdd ==
  ASSUME NEW P \in Nat \ {0}, NEW a \in Int, NEW k \in Int
  PROVE  (a + k * P) % P = a % P
<1>1. PICK q \in Int : a = q * P + (a % P)
  BY ModQuotient
<1>2. a % P \in 0..(P - 1)
  BY ModRange
<1>3. a + k * P = (q + k) * P + (a % P)
  BY <1>1, <1>2
<1>4. q + k \in Int /\ a + k * P \in Int
  OBVIOUS
<1> QED
  BY <1>2, <1>3, <1>4, ModUnique

\* The wrap-around of an index does not move its cell, because the size of
\* the ring divides the range of the index.
LEMMA ModOfMod ==
  ASSUME NEW P \in Nat \ {0}, NEW W \in Nat \ {0}, W % P = 0,
         NEW a \in Int, NEW b \in Int
  PROVE  ((a % W) + b) % P = (a + b) % P
<1>1. PICK q \in Int : a = q * W + (a % W)
  BY ModQuotient
<1>2. PICK k \in Int : W = k * P + (W % P)
  <2>1. W \in Int
    OBVIOUS
  <2> QED
    BY <2>1, ModQuotient
<1>3. a % W \in Int
  BY ModRange
<1>4. a + b = ((a % W) + b) + (q * k) * P
  <2>1. W = k * P
    BY <1>2
  <2> QED
    BY <1>1, <1>3, <2>1
<1>5. q * k \in Int /\ (a % W) + b \in Int
  BY <1>3
<1>6. (((a % W) + b) + (q * k) * P) % P = ((a % W) + b) % P
  BY <1>5, ModAdd
<1> QED
  BY <1>4, <1>6

\* Two indices less than the size of the ring apart have different cells.
LEMMA ModDistinct ==
  ASSUME NEW P \in Nat \ {0}, NEW a \in Int, NEW b \in Int,
         a <= b, b < a + P, a % P = b % P
  PROVE  a = b
<1>1. PICK q \in Int : a = q * P + (a % P)
  BY ModQuotient
<1>2. PICK k \in Int : b = k * P + (b % P)
  BY ModQuotient
<1>3. a % P \in Int
  BY ModRange
<1>4. b - a = (k - q) * P
  BY <1>1, <1>2, <1>3
<1>5. CASE k - q <= 0
  BY <1>4, <1>5
<1>6. CASE k - q >= 1
  BY <1>4, <1>6
<1> QED
  BY <1>5, <1>6

\* The distance from one unsigned index to another.
LEMMA Distance ==
  ASSUME NEW W \in Nat \ {0}, NEW x \in 0..(W - 1), NEW y \in 0..(W - 1)
  PROVE  (x + W - y) % W = IF y <= x THEN x - y ELSE x + W - y
<1>1. CASE y <= x
  <2>1. x + W - y \in W..(2 * W - 1)
    BY <1>1
  <2>2. (x + W - y) % W = x + W - y - W
    BY <2>1, ModOnce
  <2> QED
    BY <1>1, <2>2
<1>2. CASE y > x
  <2>1. x + W - y \in 0..(W - 1)
    BY <1>2
  <2> QED
    BY <1>2, <2>1, ModSmall
<1> QED
  BY <1>1, <1>2

\* An index that moves on by less than its range.
LEMMA Forward ==
  ASSUME NEW W \in Nat \ {0}, NEW x \in 0..(W - 1), NEW k \in 0..(W - 1)
  PROVE  (x + k) % W = IF x + k < W THEN x + k ELSE x + k - W
<1>1. CASE x + k < W
  <2>1. x + k \in 0..(W - 1)
    BY <1>1
  <2> QED
    BY <1>1, <2>1, ModSmall
<1>2. CASE x + k >= W
  <2>1. x + k \in W..(2 * W - 1)
    <3>1. x + k <= (W - 1) + (W - 1)
      OBVIOUS
    <3> QED
      BY <1>2, <3>1
  <2>2. (x + k) % W = x + k - W
    BY <2>1, ModOnce
  <2> QED
    BY <1>2, <2>2
<1> QED
  BY <1>1, <1>2

\* A function on 1..n is a sequence.
LEMMA FunctionSeq ==
  ASSUME NEW S, NEW k \in Nat, NEW f \in [1..k -> S]
  PROVE  f \in Seq(S) /\ Len(f) = k
OBVIOUS

\* Sequences that agree are equal.
LEMMA EqualSeq ==
  ASSUME NEW S, NEW s \in Seq(S), NEW t \in Seq(S), Len(s) = Len(t),
         \A i \in 1..Len(s) : s[i] = t[i]
  PROVE  s = t
OBVIOUS

-----------------------------------------------------------------------------
(* The labels                                                              *)

SchedLabels == {"loop", "sched", "choose", "print", "printing", "swtch"}
IntrLabels  == {"none", "handle", "chars", "wakeup", "waking", "procdump", "dumping", "iret"}
ProcLabels  == {"born", "iret", "user", "read", "reading", "read end", "sleep", "sleeping",
                "woken", "reread", "write", "writing", "kill", "killing", "yield",
                "yielding", "yielded"}

\* Where a thread holds the locks.
HoldsCons   == {"reading", "read end", "sleep", "sleeping", "writing", "printing",
                "chars", "wakeup", "waking", "dumping"}
HoldsPtable == {"sleeping", "woken", "yielded", "born", "killing", "yielding", "choose",
                "print", "printing", "swtch", "waking"}
Holds(k, l) == IF k = "cons" THEN l \in HoldsCons ELSE l \in HoldsPtable

\* Where interrupts are on unless a lock is held or awaited, and where they
\* were on before the first lock was taken.
Enabled == {"user", "read", "reread", "write", "kill", "sched"}
Calls   == {"read", "reread", "write", "kill", "reading", "read end", "sleep", "sleeping",
            "woken", "writing", "killing"}

\* Where a process is that does not run.
Switched == {"born", "woken", "yielded"}

-----------------------------------------------------------------------------
(* The invariant                                                           *)

States == {"RUNNABLE", "RUNNING", "SLEEPING"}

\* The variables have their types, and a thread is at a label of its own.
TypeOK ==
    /\ lock \in [Locks -> CPUs \cup {FREE}] /\ want \in [CPUs -> Locks \cup {FREE}]
    /\ intr \in [CPUs -> BOOLEAN] /\ intena \in [CPUs -> BOOLEAN] /\ ncli \in [CPUs -> Nat]
    /\ on \in [CPUs -> Procs \cup {NONE}]
    /\ pc \in [Threads -> SchedLabels \cup IntrLabels \cup ProcLabels]
    /\ \A c \in CPUs : pc[Sched(c)] \in SchedLabels /\ pc[Intr(c)] \in IntrLabels
    /\ \A p \in Procs : pc[p] \in ProcLabels
    /\ next \in [CPUs -> Procs \cup {NONE}]
    /\ saved \in [Procs -> BOOLEAN]
    /\ state \in [Procs -> States]

\* What a handler interrupts.
Base(c) == IF on[c] = NONE THEN Sched(c) ELSE on[c]

\* How many locks c holds or awaits.
Depth(c) == (IF lock["cons"] = c THEN 1 ELSE 0) + (IF lock["ptable"] = c THEN 1 ELSE 0)
            + (IF want[c] = FREE THEN 0 ELSE 1)

\* The locks and the masking of interrupts are what the label says.
CpuOK(c) ==
    /\ \A k \in Locks : lock[k] = c <=> Holds(k, pc[Top(c)])
    /\ want[c] # FREE => /\ pc[Top(c)] \in DOMAIN AcquireAt
                         /\ want[c] = AcquireAt[pc[Top(c)]]
    /\ ncli[c] = Depth(c)
    /\ intr[c] => ncli[c] = 0 /\ pc[Intr(c)] = "none"
    /\ pc[Intr(c)] # "none" =>
          /\ pc[Base(c)] \notin HoldsCons \cup HoldsPtable
          /\ ncli[c] # 0 => ~intena[c]
    /\ ncli[c] = 0 /\ pc[Top(c)] \in Enabled => intr[c]
    /\ ncli[c] # 0 /\ pc[Top(c)] \in Calls => intena[c]
    /\ on[c] # NONE => pc[Sched(c)] = "choose"

\* A process runs on one CPU, or is where sched() left it.
OnOK ==
    /\ \A c, d \in CPUs : on[c] = on[d] /\ on[c] # NONE => c = d
    /\ \A p \in Procs : state[p] = "RUNNING" <=> \E c \in CPUs : on[c] = p
    /\ \A p \in Procs : state[p] # "RUNNING" =>
          pc[p] \in Switched /\ (pc[p] = "woken" => saved[p])

\* What the scheduler has chosen stays RUNNABLE until it is dispatched.
NextOK ==
    \A c \in CPUs : pc[Sched(c)] \in {"print", "printing", "swtch"} =>
        next[c] \in Procs /\ state[next[c]] = "RUNNABLE"

\* Nothing to read for a process that is about to sleep, see SleepJustified.
DryOK == \A p \in Procs : pc[p] \in {"sleep", "sleeping"} => r = w

IInv ==
    /\ TypeOK
    /\ ~panic
    /\ \A c \in CPUs : CpuOK(c)
    /\ OnOK
    /\ NextOK
    /\ DryOK
    /\ SleepJustified

-----------------------------------------------------------------------------
(* Threads                                                                 *)

\* The threads are different.
LEMMA ThreadFacts ==
  /\ \A c \in CPUs : Sched(c) \in Threads /\ Intr(c) \in Threads
  /\ \A c, d \in CPUs : /\ Sched(c) # Intr(d)
                        /\ Sched(c) = Sched(d) => c = d
                        /\ Intr(c) = Intr(d) => c = d
  /\ \A p \in Procs : p \in Threads /\ p # NONE
                      /\ \A c \in CPUs : p # Sched(c) /\ p # Intr(c)
<1>1. \A c \in CPUs : Sched(c) \in Threads /\ Intr(c) \in Threads
  BY DEF Threads
<1>2. \A c, d \in CPUs : /\ Sched(c) # Intr(d)
                         /\ Sched(c) = Sched(d) => c = d
                         /\ Intr(c) = Intr(d) => c = d
  BY DEF Sched, Intr
<1>3. \A p \in Procs : p \in Threads /\ p # NONE
                       /\ \A c \in CPUs : p # Sched(c) /\ p # Intr(c)
  BY ConsoleAssumption DEF Threads
<1> QED
  BY <1>1, <1>2, <1>3

\* What runs on a CPU, and how its label tells.
LEMMA Who ==
  ASSUME TypeOK, NEW c \in CPUs
  PROVE  /\ Top(c) \in Threads /\ Base(c) \in Threads
         /\ Top(c) = IF pc[Intr(c)] # "none" THEN Intr(c) ELSE Base(c)
         /\ pc[Top(c)] \in {"handle", "chars", "wakeup", "waking", "procdump", "dumping"} =>
               Top(c) = Intr(c) /\ pc[Intr(c)] # "none"
         /\ pc[Top(c)] \in SchedLabels =>
               Top(c) = Sched(c) /\ pc[Intr(c)] = "none" /\ on[c] = NONE
         /\ pc[Top(c)] \in ProcLabels \ {"iret"} =>
               Top(c) = on[c] /\ pc[Intr(c)] = "none" /\ on[c] \in Procs
<1>1. /\ pc[Sched(c)] \in SchedLabels /\ pc[Intr(c)] \in IntrLabels
      /\ on[c] \in Procs \cup {NONE} /\ \A p \in Procs : pc[p] \in ProcLabels
  BY DEF TypeOK
<1>2. Top(c) \in Threads /\ Base(c) \in Threads
  BY <1>1, ThreadFacts DEF Top, Base
<1>3. CASE pc[Intr(c)] # "none"
  <2>1. Top(c) = Intr(c)
    BY <1>3 DEF Top
  <2> QED
    BY <1>1, <1>2, <1>3, <2>1 DEF IntrLabels, SchedLabels, ProcLabels
<1>4. CASE pc[Intr(c)] = "none" /\ on[c] = NONE
  <2>1. Top(c) = Sched(c) /\ Base(c) = Sched(c)
    BY <1>4 DEF Top, Base
  <2> QED
    BY <1>1, <1>2, <1>4, <2>1 DEF SchedLabels, ProcLabels
<1>5. CASE pc[Intr(c)] = "none" /\ on[c] # NONE
  <2>1. Top(c) = on[c] /\ Base(c) = on[c] /\ on[c] \in Procs
    BY <1>1, <1>5 DEF Top, Base
  <2> QED
    BY <1>1, <1>2, <1>5, <2>1 DEF SchedLabels, ProcLabels
<1> QED
  BY <1>3, <1>4, <1>5

\* What runs on one CPU does not run on another.
LEMMA Elsewhere ==
  ASSUME IInv, NEW c \in CPUs, NEW d \in CPUs, c # d
  PROVE  /\ Top(c) \notin {Intr(d), Sched(d), Base(d)}
         /\ Base(c) \notin {Intr(d), Sched(d), Base(d)}
<1>1. TypeOK /\ (on[c] # NONE => on[c] # on[d])
  BY DEF IInv, OnOK
<1>2. on[c] \in Procs \cup {NONE} /\ on[d] \in Procs \cup {NONE}
  BY <1>1 DEF TypeOK
<1>3. Base(c) \notin {Intr(d), Sched(d), Base(d)} /\ Intr(c) \notin {Intr(d), Sched(d), Base(d)}
  BY <1>1, <1>2, ThreadFacts DEF Base
<1> QED
  BY <1>1, <1>3, Who

\* A CPU that nothing happens to.
LEMMA CpuFrame ==
  ASSUME TypeOK, NEW d \in CPUs, CpuOK(d),
         on'[d] = on[d], intr'[d] = intr[d], ncli'[d] = ncli[d],
         intena'[d] = intena[d], want'[d] = want[d],
         \A k \in Locks : lock'[k] = d <=> lock[k] = d,
         pc'[Intr(d)] = pc[Intr(d)], pc'[Sched(d)] = pc[Sched(d)], pc'[Base(d)] = pc[Base(d)]
  PROVE  CpuOK(d)'
<1>1. Top(d)' = Top(d) /\ Base(d)' = Base(d)
  BY DEF Top, Base
<1>2. pc'[Top(d)'] = pc[Top(d)] /\ pc'[Base(d)'] = pc[Base(d)]
  BY <1>1, Who
<1>3. Depth(d)' = Depth(d)
  BY ConsoleAssumption DEF Depth
<1> QED
  BY <1>2, <1>3 DEF CpuOK

\* The label of what runs on c changes.
LEMMA GotoIs ==
  ASSUME IInv, NEW c \in CPUs, NEW b, Goto(c, b)
  PROVE  /\ pc'[Top(c)] = b
         /\ \A t \in Threads : t # Top(c) => pc'[t] = pc[t]
         /\ \A d \in CPUs : d # c => /\ pc'[Intr(d)] = pc[Intr(d)]
                                     /\ pc'[Sched(d)] = pc[Sched(d)]
                                     /\ pc'[Base(d)] = pc[Base(d)]
<1>1. TypeOK /\ Top(c) \in Threads /\ pc' = [pc EXCEPT ![Top(c)] = b]
  BY Who DEF IInv, Goto
<1>2. pc'[Top(c)] = b /\ \A t \in Threads : t # Top(c) => pc'[t] = pc[t]
  BY <1>1 DEF TypeOK
<1>3. ASSUME NEW d \in CPUs, d # c
      PROVE  {Intr(d), Sched(d), Base(d)} \subseteq Threads
             /\ Top(c) \notin {Intr(d), Sched(d), Base(d)}
  BY <1>1, <1>3, Elsewhere, Who, ThreadFacts
<1> QED
  BY <1>2, <1>3

\* The labels at which the thread on top of c can be.
LabelsOf(c) == IF pc[Intr(c)] # "none" THEN IntrLabels
               ELSE IF on[c] = NONE THEN SchedLabels ELSE ProcLabels

\* A label changes to one of the same thread.
LEMMA GotoType ==
  ASSUME IInv, NEW c \in CPUs, NEW b \in LabelsOf(c), Goto(c, b)
  PROVE  /\ pc' \in [Threads -> SchedLabels \cup IntrLabels \cup ProcLabels]
         /\ \A d \in CPUs : pc'[Sched(d)] \in SchedLabels /\ pc'[Intr(d)] \in IntrLabels
         /\ \A p \in Procs : pc'[p] \in ProcLabels
<1>1. /\ TypeOK /\ Top(c) \in Threads /\ on[c] \in Procs \cup {NONE}
      /\ Top(c) = IF pc[Intr(c)] # "none" THEN Intr(c) ELSE Base(c)
  BY Who DEF IInv, TypeOK
<1>2. pc'[Top(c)] = b /\ \A t \in Threads : t # Top(c) => pc'[t] = pc[t]
  BY GotoIs
<1>3. b \in SchedLabels \cup IntrLabels \cup ProcLabels
  BY DEF LabelsOf
<1>4. pc' \in [Threads -> SchedLabels \cup IntrLabels \cup ProcLabels]
  BY <1>1, <1>3 DEF Goto, TypeOK
<1>5. /\ \A d \in CPUs : Top(c) = Sched(d) => b \in SchedLabels
      /\ \A d \in CPUs : Top(c) = Intr(d) => b \in IntrLabels
      /\ \A p \in Procs : Top(c) = p => b \in ProcLabels
  BY <1>1, ThreadFacts DEF LabelsOf, Base
<1>6. \A d \in CPUs : pc'[Sched(d)] \in SchedLabels /\ pc'[Intr(d)] \in IntrLabels
  BY <1>1, <1>2, <1>5, ThreadFacts DEF TypeOK
<1>7. \A p \in Procs : pc'[p] \in ProcLabels
  BY <1>1, <1>2, <1>5, ThreadFacts DEF TypeOK
<1> QED
  BY <1>4, <1>6, <1>7

\* Where the scheduler has chosen a process.
Chosen == {"print", "printing", "swtch"}

\* What does not depend on the locks, when the label of c changes to b and
\* processes may be woken.
LEMMA LabelInv ==
  ASSUME IInv, NEW c \in CPUs, NEW b \in LabelsOf(c), Goto(c, b),
         UNCHANGED <<on, saved>>, state' \in [Procs -> States],
         \A p \in Procs : state'[p] # state[p] => state[p] = "SLEEPING" /\ state'[p] = "RUNNABLE",
         \/ next' = next /\ (b \in Chosen => pc[Top(c)] \in Chosen)
         \/ \E p \in Procs : /\ next' = [next EXCEPT ![c] = p]
                             /\ state[p] = "RUNNABLE" /\ pc[Top(c)] = "choose"
  PROVE  OnOK' /\ NextOK' /\ next' \in [CPUs -> Procs \cup {NONE}]
<1>1. /\ TypeOK /\ OnOK /\ NextOK /\ Top(c) \in Threads /\ on[c] \in Procs \cup {NONE}
      /\ Top(c) = IF pc[Intr(c)] # "none" THEN Intr(c) ELSE Base(c)
  BY Who DEF IInv, TypeOK
<1>2. pc'[Top(c)] = b /\ \A t \in Threads : t # Top(c) => pc'[t] = pc[t]
  BY GotoIs
<1>3. \A p \in Procs : state[p] # "RUNNING" => pc'[p] = pc[p]
  <2>1. SUFFICES ASSUME NEW p \in Procs, state[p] # "RUNNING" PROVE p # Top(c)
    BY <1>2, ThreadFacts
  <2>2. on[c] # p
    BY <1>1, <2>1 DEF OnOK
  <2> QED
    BY <1>1, <2>2, ThreadFacts DEF Base
<1>4. OnOK'
  <2>1. \A p \in Procs : state'[p] = "RUNNING" <=> state[p] = "RUNNING"
    OBVIOUS
  <2> QED
    BY <1>1, <1>3, <2>1 DEF OnOK
<1>5. next \in [CPUs -> Procs \cup {NONE}]
  BY <1>1 DEF TypeOK
<1>6. next' \in [CPUs -> Procs \cup {NONE}]
  BY <1>5
<1>7. NextOK'
  <2>1. SUFFICES ASSUME NEW d \in CPUs, pc'[Sched(d)] \in {"print", "printing", "swtch"}
                 PROVE  next'[d] \in Procs /\ state'[next'[d]] = "RUNNABLE"
    BY DEF NextOK
  <2>2. CASE next'[d] = next[d] /\ pc[Sched(d)] \in Chosen
    <3>1. next[d] \in Procs /\ state[next[d]] = "RUNNABLE"
      BY <1>1, <2>2 DEF NextOK, Chosen
    <3> QED
      BY <2>2, <3>1
  <2>3. CASE ~(next'[d] = next[d] /\ pc[Sched(d)] \in Chosen)
    <3>1. Sched(d) = Top(c) => d = c
      BY <1>1, ThreadFacts DEF Base
    <3>2. pc'[Sched(d)] = IF Sched(d) = Top(c) THEN b ELSE pc[Sched(d)]
      BY <1>2, ThreadFacts
    <3>3. CASE next' = next /\ (b \in Chosen => pc[Top(c)] \in Chosen)
      BY <2>1, <2>3, <3>2, <3>3 DEF Chosen
    <3>4. ASSUME NEW p \in Procs, next' = [next EXCEPT ![c] = p], state[p] = "RUNNABLE",
                 pc[Top(c)] = "choose"
          PROVE  next'[d] \in Procs /\ state'[next'[d]] = "RUNNABLE"
      <4>1. Top(c) = Sched(c)
        BY <1>1, <3>4, Who DEF SchedLabels
      <4>2. d = c \/ (pc'[Sched(d)] = pc[Sched(d)] /\ next'[d] = next[d])
        BY <1>5, <3>2, <3>4, <3>1, <4>1
      <4>3. d = c
        BY <2>1, <2>3, <4>2 DEF Chosen
      <4> QED
        BY <1>5, <3>4, <4>3
    <3> QED
      BY <3>3, <3>4
  <2> QED
    BY <2>2, <2>3
<1> QED
  BY <1>4, <1>6, <1>7

\* The same for what a reader waits for, when r and w do not change.
LEMMA ReaderInv ==
  ASSUME IInv, NEW c \in CPUs, NEW b \in LabelsOf(c), Goto(c, b),
         UNCHANGED <<r, w>>,
         \A p \in Procs : state'[p] # state[p] => state[p] = "SLEEPING" /\ state'[p] = "RUNNABLE",
         b \in {"sleep", "sleeping"} => pc[Top(c)] \in {"sleep", "sleeping"} \/ r = w,
         pc[Top(c)] \in {"wakeup", "waking"} => b \in {"wakeup", "waking"}
                                                \/ \A p \in Procs : state'[p] # "SLEEPING"
  PROVE  DryOK' /\ SleepJustified'
<1>1. TypeOK /\ DryOK /\ SleepJustified /\ Top(c) \in Threads
  BY Who DEF IInv
<1>2. pc'[Top(c)] = b /\ \A t \in Threads : t # Top(c) => pc'[t] = pc[t]
  BY GotoIs
<1>3. DryOK'
  BY <1>1, <1>2, ThreadFacts DEF DryOK
<1>4. SleepJustified'
  <2>1. SUFFICES ASSUME NEW p \in Procs, state'[p] = "SLEEPING", r # w
                 PROVE  \E d \in CPUs : pc'[Intr(d)] \in {"wakeup", "waking"}
    BY DEF SleepJustified
  <2>2. PICK d \in CPUs : pc[Intr(d)] \in {"wakeup", "waking"}
    BY <1>1, <2>1 DEF SleepJustified
  <2>3. pc'[Intr(d)] \in {"wakeup", "waking"}
    BY <1>2, <2>1, <2>2, ThreadFacts
  <2> QED
    BY <2>3
<1> QED
  BY <1>3, <1>4

-----------------------------------------------------------------------------
(* Locks and interrupts                                                    *)

\* The thread on top of c stays there.
LEMMA TopSame ==
  ASSUME IInv, NEW c \in CPUs, NEW b, b # "none", Goto(c, b), on' = on
  PROVE  /\ Top(c)' = Top(c) /\ Base(c)' = Base(c) /\ pc'[Top(c)'] = b
         /\ pc'[Intr(c)] = "none" <=> pc[Intr(c)] = "none"
         /\ pc[Intr(c)] # "none" => pc'[Base(c)'] = pc[Base(c)]
         /\ on[c] # NONE => pc'[Sched(c)] = pc[Sched(c)]
<1>1. /\ TypeOK /\ on[c] \in Procs \cup {NONE} /\ Top(c) \in Threads /\ Base(c) \in Threads
      /\ Top(c) = IF pc[Intr(c)] # "none" THEN Intr(c) ELSE Base(c)
  BY Who DEF IInv, TypeOK
<1>2. pc'[Top(c)] = b /\ \A t \in Threads : t # Top(c) => pc'[t] = pc[t]
  BY GotoIs
<1>3. Base(c)' = Base(c)
  BY DEF Base
<1>4. Base(c) # Intr(c) /\ (on[c] # NONE => Base(c) # Sched(c)) /\ Intr(c) # Sched(c)
  BY <1>1, ThreadFacts DEF Base
<1>5. pc'[Intr(c)] = "none" <=> pc[Intr(c)] = "none"
  BY <1>1, <1>2, <1>4, ThreadFacts
<1>6. Top(c)' = Top(c)
  BY <1>5 DEF Top
<1>7. pc[Intr(c)] # "none" => pc'[Base(c)'] = pc[Base(c)]
  BY <1>1, <1>2, <1>3, <1>4
<1>8. on[c] # NONE => pc'[Sched(c)] = pc[Sched(c)]
  BY <1>1, <1>2, <1>4, ThreadFacts
<1> QED
  BY <1>2, <1>3, <1>5, <1>6, <1>7, <1>8

\* release() of lock k by c.
LEMMA ReleaseCpu ==
  ASSUME IInv, NEW c \in CPUs, NEW k \in Locks, NEW a, NEW b,
         At(c, a), release(c, k), Goto(c, b), on' = on, b # "none",
         Holds(k, a), ~Holds(k, b),
         \A m \in Locks : m # k => (Holds(m, a) <=> Holds(m, b)),
         b \in Enabled \cup Calls => a \in Calls
  PROVE  /\ lock' \in [Locks -> CPUs \cup {FREE}] /\ want' \in [CPUs -> Locks \cup {FREE}]
         /\ intr' \in [CPUs -> BOOLEAN] /\ intena' \in [CPUs -> BOOLEAN] /\ ncli' \in [CPUs -> Nat]
         /\ ~panic'
         /\ \A d \in CPUs : CpuOK(d)'
<1>1. TypeOK /\ CpuOK(c) /\ ~panic /\ pc[Top(c)] = a /\ want[c] = FREE
  BY DEF IInv, At
<1>2. lock[k] = c /\ ncli[c] = Depth(c) /\ ncli[c] \in Nat /\ FREE \notin CPUs
  BY <1>1, SpinlockAssumption DEF CpuOK, TypeOK
<1>3. /\ lock' = [lock EXCEPT ![k] = FREE]
      /\ ncli' = [ncli EXCEPT ![c] = @ - 1]
      /\ intr' = [intr EXCEPT ![c] = @ \/ (ncli[c] = 1 /\ intena[c])]
      /\ panic' = (panic \/ lock[k] # c \/ intr[c] \/ ncli[c] = 0)
      /\ intena' = intena /\ want' = want
  BY DEF release, popcli
<1>4. Locks = {"cons", "ptable"} /\ lock \in [Locks -> CPUs \cup {FREE}]
  BY <1>1, ConsoleAssumption DEF TypeOK
<1>5. lock'[k] = FREE /\ \A m \in Locks : m # k => lock'[m] = lock[m]
  BY <1>3, <1>4
<1>6. ncli[c] # 0 /\ Depth(c)' = Depth(c) - 1
  BY <1>2, <1>3, <1>4, <1>5 DEF Depth
<1>7. ~intr[c] /\ ~panic'
  BY <1>1, <1>2, <1>3, <1>6 DEF CpuOK
<1>8. intr \in [CPUs -> BOOLEAN] /\ intena \in [CPUs -> BOOLEAN]
  BY <1>1 DEF TypeOK
<1>9. /\ intr' \in [CPUs -> BOOLEAN]
      /\ intr'[c] <=> ncli[c] = 1 /\ intena[c]
      /\ \A d \in CPUs : d # c => intr'[d] = intr[d]
  BY <1>3, <1>7, <1>8
<1>10. /\ ncli' \in [CPUs -> Nat] /\ ncli'[c] = ncli[c] - 1
       /\ \A d \in CPUs : d # c => ncli'[d] = ncli[d]
  BY <1>1, <1>2, <1>3, <1>6 DEF TypeOK
<1>11. CpuOK(c)'
  <2>1. /\ pc'[Top(c)'] = b
        /\ pc'[Intr(c)] = "none" <=> pc[Intr(c)] = "none"
        /\ pc[Intr(c)] # "none" => pc'[Base(c)'] = pc[Base(c)]
        /\ on[c] # NONE => pc'[Sched(c)] = pc[Sched(c)]
    BY TopSame
  <2>2. \A m \in Locks : lock'[m] = c <=> Holds(m, b)
    BY <1>1, <1>2, <1>5 DEF CpuOK
  <2>3. want'[c] = FREE /\ ncli'[c] = Depth(c)'
    BY <1>1, <1>2, <1>3, <1>6, <1>10
  <2>4. intr'[c] => ncli'[c] = 0 /\ pc'[Intr(c)] = "none"
    BY <1>1, <1>2, <1>6, <1>9, <1>10, <2>1 DEF CpuOK
  <2>5. pc'[Intr(c)] # "none" => /\ pc'[Base(c)'] \notin HoldsCons \cup HoldsPtable
                                 /\ ncli'[c] # 0 => ~intena'[c]
    BY <1>1, <1>3, <1>6, <2>1 DEF CpuOK
  <2>6. ncli'[c] = 0 /\ b \in Enabled => intr'[c]
    BY <1>1, <1>2, <1>6, <1>9, <1>10 DEF CpuOK
  <2>7. ncli'[c] # 0 /\ b \in Calls => intena'[c]
    BY <1>1, <1>3, <1>6 DEF CpuOK
  <2>8. on'[c] # NONE => pc'[Sched(c)] = "choose"
    BY <1>1, <2>1 DEF CpuOK
  <2> QED
    BY <2>1, <2>2, <2>3, <2>4, <2>5, <2>6, <2>7, <2>8 DEF CpuOK
<1>12. ASSUME NEW d \in CPUs, d # c PROVE CpuOK(d)'
  <2>1. CpuOK(d) /\ \A m \in Locks : lock'[m] = d <=> lock[m] = d
    BY <1>2, <1>5, <1>12 DEF IInv
  <2> QED
    BY <1>1, <1>3, <1>9, <1>10, <1>12, <2>1, GotoIs, CpuFrame
<1> QED
  BY <1>1, <1>3, <1>4, <1>7, <1>9, <1>10, <1>11, <1>12 DEF TypeOK

\* A thread goes on without a change of locks and interrupts.
LEMMA GotoCpu ==
  ASSUME IInv, NEW c \in CPUs, NEW a, NEW b,
         At(c, a), Goto(c, b), UNCHANGED <<spinvars, on>>, b # "none",
         \A m \in Locks : Holds(m, a) <=> Holds(m, b),
         b \in Enabled => a \in Enabled,
         b \in Calls => a \in Calls \/ a = "user"
  PROVE  /\ ~panic' /\ \A d \in CPUs : CpuOK(d)'
         /\ UNCHANGED <<lock, intr, ncli, intena, want, panic>>
<1>1. /\ TypeOK /\ CpuOK(c) /\ ~panic /\ pc[Top(c)] = a /\ want[c] = FREE
      /\ UNCHANGED <<lock, intr, ncli, intena, want, panic>>
  BY DEF IInv, At, spinvars
<1>2. /\ pc'[Top(c)'] = b
      /\ pc'[Intr(c)] = "none" <=> pc[Intr(c)] = "none"
      /\ pc[Intr(c)] # "none" => pc'[Base(c)'] = pc[Base(c)]
      /\ on[c] # NONE => pc'[Sched(c)] = pc[Sched(c)]
  BY TopSame
<1>3. Depth(c)' = Depth(c)
  BY <1>1 DEF Depth
<1>4. a = "user" => ncli[c] = 0
  <2>1. a = "user" => \A m \in Locks : ~Holds(m, a)
    BY DEF Holds, HoldsCons, HoldsPtable
  <2>2. Locks = {"cons", "ptable"}
    BY ConsoleAssumption
  <2> QED
    BY <1>1, <2>1, <2>2 DEF CpuOK, Depth
<1>5. CpuOK(c)'
  <2>1. \A m \in Locks : lock'[m] = c <=> Holds(m, b)
    BY <1>1 DEF CpuOK
  <2>2. want'[c] = FREE /\ ncli'[c] = Depth(c)'
    BY <1>1, <1>3 DEF CpuOK
  <2>3. intr'[c] => ncli'[c] = 0 /\ pc'[Intr(c)] = "none"
    BY <1>1, <1>2 DEF CpuOK
  <2>4. pc'[Intr(c)] # "none" => /\ pc'[Base(c)'] \notin HoldsCons \cup HoldsPtable
                                 /\ ncli'[c] # 0 => ~intena'[c]
    BY <1>1, <1>2 DEF CpuOK
  <2>5. ncli'[c] = 0 /\ b \in Enabled => intr'[c]
    BY <1>1 DEF CpuOK
  <2>6. ncli'[c] # 0 /\ b \in Calls => intena'[c]
    BY <1>1, <1>4 DEF CpuOK
  <2>7. on'[c] # NONE => pc'[Sched(c)] = "choose"
    BY <1>1, <1>2 DEF CpuOK
  <2> QED
    BY <1>2, <2>1, <2>2, <2>3, <2>4, <2>5, <2>6, <2>7 DEF CpuOK
<1>6. ASSUME NEW d \in CPUs, d # c PROVE CpuOK(d)'
  BY <1>1, <1>6, GotoIs, CpuFrame DEF IInv
<1> QED
  BY <1>1, <1>5, <1>6

\* Where a lock is acquired it is not held.
LEMMA AcquireLabels ==
  ASSUME NEW a \in DOMAIN AcquireAt
  PROVE  /\ AcquireAt[a] \in Locks /\ ~Holds(AcquireAt[a], a)
         /\ Holds(AcquireAt[a], Then[a]) /\ Then[a] # "none"
         /\ \A m \in Locks : m # AcquireAt[a] => (Holds(m, a) <=> Holds(m, Then[a]))
         /\ Then[a] \in Enabled \cup Calls => a \in Calls
         /\ a \in SchedLabels => Then[a] \in SchedLabels
         /\ a \in IntrLabels => Then[a] \in IntrLabels
         /\ a \in ProcLabels => Then[a] \in ProcLabels
         /\ Then[a] \in {"print", "printing", "swtch"} => a \in {"print", "printing", "swtch"}
         /\ Then[a] \in {"sleep", "sleeping"} => a \in {"sleep", "sleeping"}
         /\ a \in {"wakeup", "waking"} => Then[a] \in {"wakeup", "waking"}
<1>1. Locks = {"cons", "ptable"}
  BY ConsoleAssumption
<1>2. a \in {"read", "reread", "write", "sleep", "yield", "kill", "sched", "print",
             "handle", "wakeup", "procdump"}
  BY DEF AcquireAt
<1>3. /\ AcquireAt[a] = IF a \in {"read", "reread", "write", "print", "handle", "procdump"}
                         THEN "cons" ELSE "ptable"
      /\ \/ a \in {"read", "reread"} /\ Then[a] = "reading"
         \/ a = "write" /\ Then[a] = "writing"
         \/ a = "sleep" /\ Then[a] = "sleeping"
         \/ a = "yield" /\ Then[a] = "yielding"
         \/ a = "kill" /\ Then[a] = "killing"
         \/ a = "sched" /\ Then[a] = "choose"
         \/ a = "print" /\ Then[a] = "printing"
         \/ a = "handle" /\ Then[a] = "chars"
         \/ a = "wakeup" /\ Then[a] = "waking"
         \/ a = "procdump" /\ Then[a] = "dumping"
  BY <1>2 DEF AcquireAt, Then
<1>4. /\ AcquireAt[a] \in Locks /\ ~Holds(AcquireAt[a], a)
      /\ Holds(AcquireAt[a], Then[a]) /\ Then[a] # "none"
      /\ \A m \in Locks : m # AcquireAt[a] => (Holds(m, a) <=> Holds(m, Then[a]))
  BY <1>1, <1>3 DEF Holds, HoldsCons, HoldsPtable
<1>5. Then[a] \in Enabled \cup Calls => a \in Calls
  BY <1>3 DEF Enabled, Calls
<1>6. /\ a \in SchedLabels => Then[a] \in SchedLabels
      /\ a \in IntrLabels => Then[a] \in IntrLabels
      /\ a \in ProcLabels => Then[a] \in ProcLabels
  BY <1>3 DEF SchedLabels, IntrLabels, ProcLabels
<1>7. /\ Then[a] \in {"print", "printing", "swtch"} => a \in {"print", "printing", "swtch"}
      /\ Then[a] \in {"sleep", "sleeping"} => a \in {"sleep", "sleeping"}
      /\ a \in {"wakeup", "waking"} => Then[a] \in {"wakeup", "waking"}
  BY <1>3
<1> QED
  BY <1>4, <1>5, <1>6, <1>7

\* A CPU begins to spin.
LEMMA SpinCpu ==
  ASSUME IInv, NEW c \in CPUs, pc[Top(c)] \in DOMAIN AcquireAt,
         Spin(c, AcquireAt[pc[Top(c)]]), UNCHANGED <<pc, on>>
  PROVE  /\ lock' \in [Locks -> CPUs \cup {FREE}] /\ want' \in [CPUs -> Locks \cup {FREE}]
         /\ intr' \in [CPUs -> BOOLEAN] /\ intena' \in [CPUs -> BOOLEAN] /\ ncli' \in [CPUs -> Nat]
         /\ ~panic'
         /\ \A d \in CPUs : CpuOK(d)'
<1> DEFINE a == pc[Top(c)]
           k == AcquireAt[a]
<1>1. TypeOK /\ CpuOK(c) /\ ~panic /\ want[c] = FREE
  BY DEF IInv, Spin
<1>2. k \in Locks /\ ~Holds(k, a) /\ FREE \notin Locks
  BY AcquireLabels, SpinlockAssumption
<1>3. /\ intena' = [intena EXCEPT ![c] = Saved(c)]
      /\ intr' = [intr EXCEPT ![c] = FALSE]
      /\ ncli' = [ncli EXCEPT ![c] = @ + 1]
      /\ want' = [want EXCEPT ![c] = k]
      /\ panic' = (panic \/ lock[k] = c)
      /\ lock' = lock
  BY DEF Spin, pushcli
<1>4. Saved(c) \in BOOLEAN /\ Saved(c) = IF ncli[c] = 0 THEN intr[c] ELSE intena[c]
  BY <1>1 DEF Saved, TypeOK
<1>5. /\ lock' \in [Locks -> CPUs \cup {FREE}] /\ want' \in [CPUs -> Locks \cup {FREE}]
      /\ intr' \in [CPUs -> BOOLEAN] /\ intena' \in [CPUs -> BOOLEAN] /\ ncli' \in [CPUs -> Nat]
  BY <1>1, <1>2, <1>3, <1>4 DEF TypeOK
<1>6. ~panic'
  BY <1>1, <1>2, <1>3 DEF CpuOK
<1>7. /\ intr'[c] = FALSE /\ ncli'[c] = ncli[c] + 1 /\ want'[c] = k /\ intena'[c] = Saved(c)
      /\ \A d \in CPUs : d # c => /\ intr'[d] = intr[d] /\ ncli'[d] = ncli[d]
                                  /\ want'[d] = want[d] /\ intena'[d] = intena[d]
  BY <1>1, <1>3 DEF TypeOK
<1>8. Top(c)' = Top(c) /\ Base(c)' = Base(c) /\ pc'[Top(c)'] = a /\ pc'[Base(c)'] = pc[Base(c)]
  BY DEF Top, Base
<1>9. ncli[c] \in Nat /\ Depth(c)' = Depth(c) + 1
  BY <1>1, <1>2, <1>3, <1>7 DEF Depth, TypeOK
<1>10. CpuOK(c)'
  <2>1. pc[Intr(c)] # "none" => Saved(c) = FALSE
    BY <1>1, <1>4 DEF CpuOK, TypeOK
  <2>2. a \in Calls => Saved(c) = TRUE
    <3>1. a \in Calls => ncli[c] # 0 \/ a \in Enabled
      <4>1. a \in {"read", "reread", "write", "sleep", "yield", "kill", "sched", "print",
                   "handle", "wakeup", "procdump"}
        BY DEF AcquireAt
      <4>2. a = "sleep" => Holds("cons", a)
        BY DEF Holds, HoldsCons
      <4>3. a = "sleep" => lock["cons"] = c
        BY <1>1, <4>2, ConsoleAssumption DEF CpuOK
      <4>4. a = "sleep" => ncli[c] # 0
        BY <1>1, <4>3 DEF CpuOK, Depth
      <4> QED
        BY <4>1, <4>4 DEF Calls, Enabled
    <3> QED
      BY <1>1, <1>4, <3>1 DEF CpuOK, TypeOK
  <2>3. ncli'[c] # 0 /\ want'[c] # FREE /\ ncli'[c] = Depth(c)'
    BY <1>1, <1>2, <1>7, <1>9 DEF CpuOK
  <2> QED
    BY <1>1, <1>3, <1>7, <1>8, <2>1, <2>2, <2>3 DEF CpuOK
<1>11. ASSUME NEW d \in CPUs, d # c PROVE CpuOK(d)'
  BY <1>1, <1>3, <1>7, <1>11, CpuFrame DEF IInv
<1> QED
  BY <1>5, <1>6, <1>10, <1>11

\* A CPU gets the lock.
LEMMA TakeCpu ==
  ASSUME IInv, NEW c \in CPUs, pc[Top(c)] \in DOMAIN AcquireAt,
         Take(c, AcquireAt[pc[Top(c)]]), Goto(c, Then[pc[Top(c)]]), on' = on
  PROVE  /\ lock' \in [Locks -> CPUs \cup {FREE}] /\ want' \in [CPUs -> Locks \cup {FREE}]
         /\ UNCHANGED <<intr, intena, ncli>>
         /\ ~panic'
         /\ \A d \in CPUs : CpuOK(d)'
<1> DEFINE a == pc[Top(c)]
           k == AcquireAt[a]
           b == Then[a]
<1>1. TypeOK /\ CpuOK(c) /\ ~panic /\ want[c] = k /\ lock[k] = FREE
  BY DEF IInv, Take
<1>2. /\ k \in Locks /\ FREE \notin Locks /\ FREE \notin CPUs
      /\ Holds(k, b) /\ b # "none"
      /\ \A m \in Locks : m # k => (Holds(m, a) <=> Holds(m, b))
      /\ b \in Enabled \cup Calls => a \in Calls
  BY AcquireLabels, SpinlockAssumption
<1>3. /\ lock' = [lock EXCEPT ![k] = c]
      /\ want' = [want EXCEPT ![c] = FREE]
      /\ UNCHANGED <<intr, ncli, intena, panic>>
  BY DEF Take
<1>4. lock' \in [Locks -> CPUs \cup {FREE}] /\ want' \in [CPUs -> Locks \cup {FREE}]
  BY <1>1, <1>2, <1>3 DEF TypeOK
<1>5. /\ lock'[k] = c /\ \A m \in Locks : m # k => lock'[m] = lock[m]
      /\ want'[c] = FREE /\ \A d \in CPUs : d # c => want'[d] = want[d]
  BY <1>1, <1>2, <1>3 DEF TypeOK
<1>6. /\ pc'[Top(c)'] = b
      /\ pc'[Intr(c)] = "none" <=> pc[Intr(c)] = "none"
      /\ pc[Intr(c)] # "none" => pc'[Base(c)'] = pc[Base(c)]
      /\ on[c] # NONE => pc'[Sched(c)] = pc[Sched(c)]
  BY <1>2, TopSame
<1>7. Depth(c)' = Depth(c)
  <2>1. Locks = {"cons", "ptable"}
    BY ConsoleAssumption
  <2> HIDE DEF k, a
  <2> QED
    BY <1>1, <1>2, <1>5, <2>1 DEF Depth
<1>8. ncli[c] # 0
  <2> HIDE DEF k, a
  <2> QED
    BY <1>1, <1>2 DEF CpuOK, Depth
<1>9. CpuOK(c)'
  <2> HIDE DEF k, b
  <2>1. \A m \in Locks : lock'[m] = c <=> Holds(m, b)
    BY <1>1, <1>2, <1>5 DEF CpuOK
  <2>2. a \in Calls => intena[c]
    BY <1>1, <1>8 DEF CpuOK
  <2> QED
    BY <1>1, <1>2, <1>3, <1>5, <1>6, <1>7, <1>8, <2>1, <2>2 DEF CpuOK
<1>10. ASSUME NEW d \in CPUs, d # c PROVE CpuOK(d)'
  <2>1. CpuOK(d) /\ \A m \in Locks : lock'[m] = d <=> lock[m] = d
    BY <1>1, <1>2, <1>5, <1>10 DEF IInv
  <2> QED
    BY <1>1, <1>3, <1>5, <1>10, <2>1, GotoIs, CpuFrame
<1> QED
  BY <1>1, <1>3, <1>4, <1>9, <1>10

-----------------------------------------------------------------------------
(* Steps of a thread that stays on its CPU                                 *)

\* A label changes, and what the lemmas above say is put together.
LEMMA StepInv ==
  ASSUME IInv, NEW c \in CPUs, NEW b \in LabelsOf(c), Goto(c, b),
         UNCHANGED <<on, saved>>, state' \in [Procs -> States],
         \A p \in Procs : state'[p] # state[p] => state[p] = "SLEEPING" /\ state'[p] = "RUNNABLE",
         \/ next' = next /\ (b \in Chosen => pc[Top(c)] \in Chosen)
         \/ \E p \in Procs : /\ next' = [next EXCEPT ![c] = p]
                             /\ state[p] = "RUNNABLE" /\ pc[Top(c)] = "choose",
         lock' \in [Locks -> CPUs \cup {FREE}], want' \in [CPUs -> Locks \cup {FREE}],
         intr' \in [CPUs -> BOOLEAN], intena' \in [CPUs -> BOOLEAN], ncli' \in [CPUs -> Nat],
         ~panic', \A d \in CPUs : CpuOK(d)', DryOK', SleepJustified'
  PROVE  IInv'
<1>1. OnOK' /\ NextOK' /\ next' \in [CPUs -> Procs \cup {NONE}]
  BY LabelInv
<1>2. TypeOK'
  <2>1. on' \in [CPUs -> Procs \cup {NONE}] /\ saved' \in [Procs -> BOOLEAN]
    BY DEF IInv, TypeOK
  <2> QED
    BY <1>1, <2>1, GotoType DEF TypeOK
<1> QED
  BY <1>1, <1>2 DEF IInv

\* release() by a thread that goes on.
LEMMA ReleaseInv ==
  ASSUME IInv, NEW c \in CPUs, NEW k \in Locks, NEW a, NEW b \in LabelsOf(c),
         At(c, a), release(c, k), Goto(c, b), b # "none",
         Holds(k, a), ~Holds(k, b),
         \A m \in Locks : m # k => (Holds(m, a) <=> Holds(m, b)),
         b \in Enabled \cup Calls => a \in Calls,
         UNCHANGED <<r, w, on, next, saved>>, state' \in [Procs -> States],
         \A p \in Procs : state'[p] # state[p] => state[p] = "SLEEPING" /\ state'[p] = "RUNNABLE",
         b \in Chosen => a \in Chosen, b \notin {"sleep", "sleeping"},
         a \notin {"wakeup", "waking"} \/ \A p \in Procs : state'[p] # "SLEEPING"
  PROVE  IInv'
<1>1. pc[Top(c)] = a
  BY DEF At
<1>2. /\ lock' \in [Locks -> CPUs \cup {FREE}] /\ want' \in [CPUs -> Locks \cup {FREE}]
      /\ intr' \in [CPUs -> BOOLEAN] /\ intena' \in [CPUs -> BOOLEAN] /\ ncli' \in [CPUs -> Nat]
      /\ ~panic' /\ \A d \in CPUs : CpuOK(d)'
  BY ReleaseCpu
<1>3. DryOK' /\ SleepJustified'
  BY <1>1, ReaderInv
<1> QED
  BY <1>1, <1>2, <1>3, StepInv

\* The thread on top of c is at a label of its own.
LEMMA TopLabel ==
  ASSUME IInv, NEW c \in CPUs
  PROVE  pc[Top(c)] \in LabelsOf(c)
<1>1. /\ pc[Sched(c)] \in SchedLabels /\ pc[Intr(c)] \in IntrLabels
      /\ on[c] \in Procs \cup {NONE} /\ \A p \in Procs : pc[p] \in ProcLabels
  BY DEF IInv, TypeOK
<1> QED
  BY <1>1 DEF Top, LabelsOf

\* acquire()
LEMMA AcquireInv ==
  ASSUME IInv, NEW c \in CPUs, Acquire(c)
  PROVE  IInv'
<1> DEFINE a == pc[Top(c)]
<1>1. /\ a \in DOMAIN AcquireAt /\ a \in LabelsOf(c) /\ TypeOK /\ DryOK /\ SleepJustified
      /\ UNCHANGED <<buf, r, w, e, on, next, saved, state>>
  BY TopLabel DEF Acquire, IInv, input, procs
<1>2. state' \in [Procs -> States]
  BY <1>1 DEF TypeOK
<1>3. CASE Spin(c, AcquireAt[a]) /\ UNCHANGED pc
  <2>1. /\ lock' \in [Locks -> CPUs \cup {FREE}] /\ want' \in [CPUs -> Locks \cup {FREE}]
        /\ intr' \in [CPUs -> BOOLEAN] /\ intena' \in [CPUs -> BOOLEAN] /\ ncli' \in [CPUs -> Nat]
        /\ ~panic' /\ \A d \in CPUs : CpuOK(d)'
    BY <1>1, <1>3, SpinCpu
  <2>2. Goto(c, a)
    BY <1>1, <1>3 DEF Goto, TypeOK
  <2>3. DryOK' /\ SleepJustified'
    BY <1>1, <1>3 DEF DryOK, SleepJustified
  <2> QED
    BY <1>1, <1>2, <2>1, <2>2, <2>3, StepInv
<1>4. CASE Take(c, AcquireAt[a]) /\ Goto(c, Then[a])
  <2>1. /\ lock' \in [Locks -> CPUs \cup {FREE}] /\ want' \in [CPUs -> Locks \cup {FREE}]
        /\ UNCHANGED <<intr, intena, ncli>>
        /\ ~panic' /\ \A d \in CPUs : CpuOK(d)'
    BY <1>1, <1>4, TakeCpu
  <2>2. /\ Then[a] \in LabelsOf(c)
        /\ Then[a] \in Chosen => a \in Chosen
        /\ Then[a] \in {"sleep", "sleeping"} => a \in {"sleep", "sleeping"}
        /\ a \in {"wakeup", "waking"} => Then[a] \in {"wakeup", "waking"}
    BY <1>1, AcquireLabels DEF LabelsOf, Chosen
  <2>3. DryOK' /\ SleepJustified'
    BY <1>1, <1>4, <2>2, ReaderInv
  <2>4. intr' \in [CPUs -> BOOLEAN] /\ intena' \in [CPUs -> BOOLEAN] /\ ncli' \in [CPUs -> Nat]
    BY <1>1, <2>1 DEF TypeOK
  <2> QED
    BY <1>1, <1>2, <1>4, <2>1, <2>2, <2>3, <2>4, StepInv
<1> QED
  BY <1>3, <1>4 DEF Acquire

\* The label that a thread on top of c may go to, by the label where it is.
LEMMA SameThread ==
  ASSUME IInv, NEW c \in CPUs
  PROVE  /\ pc[Top(c)] \in {"handle", "chars", "wakeup", "waking", "procdump", "dumping"} =>
               LabelsOf(c) = IntrLabels
         /\ pc[Top(c)] \in SchedLabels => LabelsOf(c) = SchedLabels
         /\ pc[Top(c)] \in ProcLabels \ {"iret"} => LabelsOf(c) = ProcLabels
<1>1. TypeOK
  BY DEF IInv
<1> QED
  BY <1>1, Who, ThreadFacts DEF LabelsOf

\* The actions that only release a lock.
LEMMA ReleaseStep ==
  ASSUME IInv, NEW c \in CPUs, NEW k, NEW a, NEW b, Release(c, k, a, b),
         \/ k = "cons" /\ a = "chars" /\ b \in {"procdump", "iret"}
         \/ k = "cons" /\ a = "dumping" /\ b = "iret"
         \/ k = "cons" /\ a = "printing" /\ b = "swtch"
         \/ k = "ptable" /\ a = "choose" /\ b = "loop"
         \/ k = "ptable" /\ a = "woken" /\ b = "reread"
         \/ k = "ptable" /\ a \in {"yielded", "born"} /\ b = "iret"
         \/ k = "cons" /\ a = "writing" /\ b = "user"
  PROVE  IInv'
<1>1. /\ At(c, a) /\ pc[Top(c)] = a /\ release(c, k) /\ Goto(c, b)
      /\ UNCHANGED <<r, w, on, next, saved, state>>
  BY DEF Release, At, input, procs
<1>2. /\ k \in Locks /\ Holds(k, a) /\ ~Holds(k, b)
      /\ \A m \in Locks : m # k => (Holds(m, a) <=> Holds(m, b))
  BY ConsoleAssumption DEF Holds, HoldsCons, HoldsPtable
<1>3. b \in Enabled \cup Calls => a \in Calls
  BY DEF Enabled, Calls
<1>4. b # "none" /\ b \notin {"sleep", "sleeping"} /\ a \notin {"wakeup", "waking"}
  OBVIOUS
<1>5. b \in Chosen => a \in Chosen
  BY DEF Chosen
<1>6. b \in LabelsOf(c)
  BY <1>1, SameThread DEF IntrLabels, SchedLabels, ProcLabels
<1>7. state' \in [Procs -> States]
  BY <1>1 DEF IInv, TypeOK
<1> QED
  BY <1>1, <1>2, <1>3, <1>4, <1>5, <1>6, <1>7, ReleaseInv

\* wakeup(&input.r)
LEMMA WakeupInv ==
  ASSUME IInv, NEW c \in CPUs, Wakeup(c)
  PROVE  IInv'
<1>1. /\ At(c, "waking") /\ pc[Top(c)] = "waking" /\ release(c, "ptable") /\ Goto(c, "chars")
      /\ UNCHANGED <<r, w, on, next, saved>> /\ state' = Woken
  BY DEF Wakeup, At, input
<1>2. /\ "ptable" \in Locks /\ Holds("ptable", "waking") /\ ~Holds("ptable", "chars")
      /\ \A m \in Locks : m # "ptable" => (Holds(m, "waking") <=> Holds(m, "chars"))
      /\ "chars" \notin Enabled \cup Calls /\ "chars" \notin Chosen
  BY ConsoleAssumption DEF Holds, HoldsCons, HoldsPtable, Enabled, Calls, Chosen
<1>3. "chars" \in LabelsOf(c)
  BY <1>1, SameThread DEF IntrLabels
<1>4. state \in [Procs -> States]
  BY DEF IInv, TypeOK
<1>5. /\ state' \in [Procs -> States]
      /\ \A p \in Procs : state'[p] # "SLEEPING"
      /\ \A p \in Procs : state'[p] # state[p] => state[p] = "SLEEPING" /\ state'[p] = "RUNNABLE"
  BY <1>1, <1>4 DEF Woken, States
<1> QED
  BY <1>1, <1>2, <1>3, <1>5, ReleaseInv

\* kill()
LEMMA KillInv ==
  ASSUME IInv, NEW c \in CPUs, NEW p \in Procs, Kill(c, p)
  PROVE  IInv'
<1>1. /\ At(c, "killing") /\ pc[Top(c)] = "killing" /\ release(c, "ptable") /\ Goto(c, "user")
      /\ UNCHANGED <<r, w, on, next, saved>>
      /\ state' = [state EXCEPT ![p] = IF @ = "SLEEPING" THEN "RUNNABLE" ELSE @]
  BY DEF Kill, At, input
<1>2. /\ "ptable" \in Locks /\ Holds("ptable", "killing") /\ ~Holds("ptable", "user")
      /\ \A m \in Locks : m # "ptable" => (Holds(m, "killing") <=> Holds(m, "user"))
      /\ "killing" \in Calls /\ "user" \notin Chosen
  BY ConsoleAssumption DEF Holds, HoldsCons, HoldsPtable, Calls, Chosen
<1>3. "user" \in LabelsOf(c)
  BY <1>1, SameThread DEF ProcLabels
<1>4. state \in [Procs -> States]
  BY DEF IInv, TypeOK
<1>5. /\ state' \in [Procs -> States]
      /\ \A q \in Procs : state'[q] # state[q] => state[q] = "SLEEPING" /\ state'[q] = "RUNNABLE"
  BY <1>1, <1>4 DEF States
<1> QED
  BY <1>1, <1>2, <1>3, <1>5, ReleaseInv

\* The end of consoleread()
LEMMA ReadEndInv ==
  ASSUME IInv, NEW c \in CPUs, ReadEnd(c)
  PROVE  IInv'
<1>1. /\ At(c, "read end") /\ pc[Top(c)] = "read end" /\ release(c, "cons") /\ Goto(c, "user")
      /\ UNCHANGED <<r, w, on, next, saved, state>>
  BY DEF ReadEnd, At, input, procs
<1>2. /\ "cons" \in Locks /\ Holds("cons", "read end") /\ ~Holds("cons", "user")
      /\ \A m \in Locks : m # "cons" => (Holds(m, "read end") <=> Holds(m, "user"))
      /\ "read end" \in Calls /\ "user" \notin Chosen
  BY ConsoleAssumption DEF Holds, HoldsCons, HoldsPtable, Calls, Chosen
<1>3. "user" \in LabelsOf(c)
  BY <1>1, SameThread DEF ProcLabels
<1>4. state' \in [Procs -> States]
  BY <1>1 DEF IInv, TypeOK
<1> QED
  BY <1>1, <1>2, <1>3, <1>4, ReleaseInv

\* A step without a change of locks, interrupts and processes.
LEMMA GotoInv ==
  ASSUME IInv, NEW c \in CPUs, NEW a, NEW b \in LabelsOf(c),
         At(c, a), Goto(c, b), UNCHANGED <<spinvars, on, saved, state>>, b # "none",
         \A m \in Locks : Holds(m, a) <=> Holds(m, b),
         b \in Enabled => a \in Enabled,
         b \in Calls => a \in Calls \/ a = "user",
         \/ next' = next /\ (b \in Chosen => a \in Chosen)
         \/ \E p \in Procs : /\ next' = [next EXCEPT ![c] = p]
                             /\ state[p] = "RUNNABLE" /\ a = "choose",
         DryOK', SleepJustified'
  PROVE  IInv'
<1>1. pc[Top(c)] = a /\ TypeOK
  BY DEF At, IInv
<1>2. /\ ~panic' /\ \A d \in CPUs : CpuOK(d)'
      /\ UNCHANGED <<lock, intr, ncli, intena, want, panic>>
  BY GotoCpu
<1>3. /\ lock' \in [Locks -> CPUs \cup {FREE}] /\ want' \in [CPUs -> Locks \cup {FREE}]
      /\ intr' \in [CPUs -> BOOLEAN] /\ intena' \in [CPUs -> BOOLEAN] /\ ncli' \in [CPUs -> Nat]
      /\ state' \in [Procs -> States]
  BY <1>1, <1>2 DEF TypeOK
<1> QED
  BY <1>1, <1>2, <1>3, StepInv

\* The CPU that holds cons.lock, when a process is about to sleep.
LEMMA SleeperHolds ==
  ASSUME IInv, NEW p \in Procs, pc[p] \in {"sleep", "sleeping"}
  PROVE  \E d \in CPUs : Top(d) = p /\ lock["cons"] = d
<1>1. state[p] = "RUNNING"
  BY DEF IInv, OnOK, Switched
<1>2. PICK d \in CPUs : on[d] = p
  BY <1>1 DEF IInv, OnOK
<1>3. CpuOK(d) /\ Base(d) = p /\ pc[p] \in HoldsCons
  BY <1>2, ThreadFacts DEF IInv, Base, HoldsCons
<1>4. Top(d) = p
  BY <1>2, <1>3, ThreadFacts DEF CpuOK, Top
<1>5. "cons" \in Locks /\ Holds("cons", pc[p])
  BY <1>3, ConsoleAssumption DEF Holds
<1>6. lock["cons"] = d
  BY <1>3, <1>4, <1>5 DEF CpuOK
<1> QED
  BY <1>4, <1>6

\* Nobody else is about to sleep when a thread holds cons.lock.
LEMMA SleepAlone ==
  ASSUME IInv, NEW c \in CPUs, pc[Top(c)] \in HoldsCons,
         NEW p \in Procs, pc[p] \in {"sleep", "sleeping"}
  PROVE  p = Top(c)
<1>1. PICK d \in CPUs : Top(d) = p /\ lock["cons"] = d
  BY SleeperHolds
<1>2. CpuOK(c) /\ "cons" \in Locks /\ Holds("cons", pc[Top(c)])
  BY ConsoleAssumption DEF IInv, Holds
<1>3. lock["cons"] = c
  BY <1>2 DEF CpuOK
<1> QED
  BY <1>1, <1>3

\* consoleintr() with a character
LEMMA HandleCharInv ==
  ASSUME IInv, NEW c \in CPUs, NEW ch, HandleChar(c, ch)
  PROVE  IInv'
<1>1. /\ At(c, "chars") /\ pc[Top(c)] = "chars" /\ TypeOK /\ DryOK /\ SleepJustified
      /\ UNCHANGED <<spinvars, on, next, saved, state, r>>
  BY DEF HandleChar, At, procs, IInv, input
<1>2. LabelsOf(c) = IntrLabels /\ Top(c) = Intr(c) /\ Top(c) \in Threads
  BY <1>1, SameThread, Who
<1>3. "chars" \in LabelsOf(c) /\ "wakeup" \in LabelsOf(c)
  BY <1>2 DEF IntrLabels
<1>4. /\ \A m \in Locks : Holds(m, "chars") <=> Holds(m, "wakeup")
      /\ {"chars", "wakeup"} \cap (Enabled \cup Calls \cup Chosen) = {}
      /\ "chars" \in HoldsCons
  BY DEF Holds, HoldsCons, HoldsPtable, Enabled, Calls, Chosen
<1>5. CASE w' = w /\ Goto(c, "chars")
  <2>1. DryOK' /\ SleepJustified'
    BY <1>1, <1>3, <1>5, ReaderInv
  <2> QED
    BY <1>1, <1>3, <1>4, <1>5, <2>1, GotoInv
<1>6. CASE Goto(c, "wakeup")
  <2>1. pc'[Top(c)] = "wakeup" /\ \A t \in Threads : t # Top(c) => pc'[t] = pc[t]
    BY <1>6, GotoIs
  <2>2. SleepJustified'
    BY <1>2, <2>1 DEF SleepJustified
  <2>3. \A p \in Procs : p # Top(c) /\ p \in Threads
    BY <1>2, ThreadFacts
  <2>4. \A p \in Procs : pc[p] \notin {"sleep", "sleeping"}
    BY <1>1, <1>4, <2>3, SleepAlone
  <2>5. DryOK'
    BY <2>1, <2>3, <2>4 DEF DryOK
  <2> QED
    BY <1>1, <1>3, <1>4, <1>6, <2>2, <2>5, GotoInv
<1>7. UNCHANGED pc => Goto(c, "chars")
  BY <1>1, <1>2 DEF Goto, TypeOK
<1>8. (w' = w /\ UNCHANGED pc) \/ Put(c, ch)
  BY DEF HandleChar, input
<1>9. Put(c, ch) => (w' = w /\ Goto(c, "chars")) \/ Goto(c, "wakeup")
  BY DEF Put
<1> QED
  BY <1>5, <1>6, <1>7, <1>8, <1>9

\* The scheduler chooses a process.
LEMMA ChooseInv ==
  ASSUME IInv, NEW c \in CPUs, NEW p \in Procs, Choose(c, p)
  PROVE  IInv'
<1>1. /\ At(c, "choose") /\ pc[Top(c)] = "choose" /\ Goto(c, "print")
      /\ UNCHANGED <<spinvars, on, saved, state, r, w>>
      /\ next' = [next EXCEPT ![c] = p] /\ state[p] = "RUNNABLE"
  BY DEF Choose, At, procs, input
<1>2. /\ \A m \in Locks : Holds(m, "choose") <=> Holds(m, "print")
      /\ "print" \notin Enabled \cup Calls
  BY DEF Holds, HoldsCons, HoldsPtable, Enabled, Calls
<1>3. "print" \in LabelsOf(c)
  BY <1>1, SameThread DEF SchedLabels
<1>4. DryOK' /\ SleepJustified'
  BY <1>1, <1>3, ReaderInv
<1> QED
  BY <1>1, <1>2, <1>3, <1>4, GotoInv

\* A system call begins.
LEMMA BeginInv ==
  ASSUME IInv, NEW c \in CPUs, NEW l \in {"read", "write", "kill"}, NEW len, Begin(c, l, len)
  PROVE  IInv'
<1>1. /\ At(c, "user") /\ pc[Top(c)] = "user" /\ Goto(c, l)
      /\ UNCHANGED <<spinvars, on, next, saved, state, r, w>>
  BY DEF Begin, At, procs, input
<1>2. /\ \A m \in Locks : Holds(m, "user") <=> Holds(m, l)
      /\ "user" \in Enabled /\ l \notin Chosen
  BY DEF Holds, HoldsCons, HoldsPtable, Enabled, Chosen
<1>3. l \in LabelsOf(c)
  BY <1>1, SameThread DEF ProcLabels
<1>4. DryOK' /\ SleepJustified'
  BY <1>1, <1>3, ReaderInv
<1> QED
  BY <1>1, <1>2, <1>3, <1>4, GotoInv

\* consoleread() finds the buffer empty.
LEMMA ReadWaitInv ==
  ASSUME IInv, NEW c \in CPUs, ReadWait(c)
  PROVE  IInv'
<1>1. PICK b \in {"read end", "sleep"} : Goto(c, b)
  BY DEF ReadWait
<1>2. /\ At(c, "reading") /\ pc[Top(c)] = "reading" /\ r = w
      /\ UNCHANGED <<spinvars, on, next, saved, state, r, w>>
  BY DEF ReadWait, At, procs, input
<1>3. /\ \A m \in Locks : Holds(m, "reading") <=> Holds(m, b)
      /\ "reading" \in Calls /\ b \notin Chosen /\ b \notin Enabled
  BY DEF Holds, HoldsCons, HoldsPtable, Enabled, Calls, Chosen
<1>4. b \in LabelsOf(c)
  BY <1>2, SameThread DEF ProcLabels
<1>5. DryOK' /\ SleepJustified'
  BY <1>1, <1>2, <1>4, ReaderInv
<1> QED
  BY <1>1, <1>2, <1>3, <1>4, <1>5, GotoInv

\* consoleread() takes a character.
LEMMA ReadCharInv ==
  ASSUME IInv, NEW c \in CPUs, ReadChar(c)
  PROVE  IInv'
<1>1. PICK b \in {"read end", "reading"} : Goto(c, b)
  BY DEF ReadChar
<1>2. /\ At(c, "reading") /\ pc[Top(c)] = "reading" /\ r # w /\ TypeOK /\ SleepJustified
      /\ UNCHANGED <<spinvars, on, next, saved, state, w>>
  BY DEF ReadChar, At, procs, IInv
<1>3. /\ \A m \in Locks : Holds(m, "reading") <=> Holds(m, b)
      /\ "reading" \in Calls /\ b \notin Chosen /\ b \notin Enabled /\ "reading" \in HoldsCons
  BY DEF Holds, HoldsCons, HoldsPtable, Enabled, Calls, Chosen
<1>4. b \in LabelsOf(c) /\ Top(c) \in Procs
  BY <1>2, SameThread, Who DEF ProcLabels
<1>5. pc'[Top(c)] = b /\ \A t \in Threads : t # Top(c) => pc'[t] = pc[t]
  BY <1>1, GotoIs
<1>6. \A p \in Procs : pc[p] \notin {"sleep", "sleeping"}
  BY <1>2, <1>3, SleepAlone
<1>7. DryOK'
  BY <1>5, <1>6, ThreadFacts DEF DryOK
<1>8. SleepJustified'
  <2>1. \A d \in CPUs : pc'[Intr(d)] = pc[Intr(d)]
    BY <1>4, <1>5, ThreadFacts
  <2> QED
    BY <1>2, <2>1 DEF SleepJustified
<1> QED
  BY <1>1, <1>2, <1>3, <1>4, <1>7, <1>8, GotoInv

-----------------------------------------------------------------------------
(* Interrupts                                                              *)

\* A CPU without locks.
LEMMA NoLocks ==
  ASSUME IInv, NEW c \in CPUs, want[c] = FREE, \A m \in Locks : ~Holds(m, pc[Top(c)])
  PROVE  ncli[c] = 0
<1>1. CpuOK(c) /\ Locks = {"cons", "ptable"}
  BY ConsoleAssumption DEF IInv
<1>2. lock["cons"] # c /\ lock["ptable"] # c
  BY <1>1 DEF CpuOK
<1> QED
  BY <1>1, <1>2 DEF CpuOK, Depth

\* The flag changes where no lock is held, by sti(), by a trap from user
\* space or on the return from one.
LEMMA FlagCpu ==
  ASSUME IInv, NEW c \in CPUs, NEW a, NEW b, NEW v \in BOOLEAN,
         At(c, a), Goto(c, b), intr' = [intr EXCEPT ![c] = v],
         UNCHANGED <<lock, ncli, intena, want, on>>,
         \A m \in Locks : ~Holds(m, a),
         \/ b # "none" /\ pc[Intr(c)] = "none" /\ \A m \in Locks : ~Holds(m, b)
         \/ b = "none" /\ pc[Intr(c)] # "none" /\ v = TRUE,
         b \in Enabled => v = TRUE
  PROVE  /\ intr' \in [CPUs -> BOOLEAN] /\ \A d \in CPUs : CpuOK(d)'
<1>1. TypeOK /\ CpuOK(c) /\ pc[Top(c)] = a /\ want[c] = FREE /\ on[c] \in Procs \cup {NONE}
  BY DEF IInv, At, TypeOK
<1>2. ncli[c] = 0
  BY <1>1, NoLocks
<1>3. /\ intr' \in [CPUs -> BOOLEAN] /\ intr'[c] = v
      /\ \A d \in CPUs : d # c => intr'[d] = intr[d]
  BY <1>1 DEF TypeOK
<1>4. Depth(c)' = Depth(c)
  BY DEF Depth
<1>5. ncli'[c] = 0 /\ want'[c] = FREE /\ ncli'[c] = Depth(c)'
  BY <1>1, <1>2, <1>4 DEF CpuOK
<1>6. \A m \in Locks : lock'[m] # c
  BY <1>1 DEF CpuOK
<1>7. ASSUME b # "none" /\ pc[Intr(c)] = "none" /\ \A m \in Locks : ~Holds(m, b)
      PROVE  CpuOK(c)'
  <2>1. /\ pc'[Top(c)'] = b
        /\ pc'[Intr(c)] = "none"
        /\ on[c] # NONE => pc'[Sched(c)] = pc[Sched(c)]
    BY <1>7, TopSame
  <2>2. \A m \in Locks : lock'[m] = c <=> Holds(m, pc'[Top(c)'])
    BY <1>6, <1>7, <2>1
  <2>3. pc'[Top(c)'] \in Enabled => intr'[c]
    BY <1>3, <2>1
  <2>4. on'[c] # NONE => pc'[Sched(c)] = "choose"
    BY <1>1, <2>1 DEF CpuOK
  <2> QED
    BY <1>5, <2>1, <2>2, <2>3, <2>4 DEF CpuOK
<1>8. ASSUME b = "none" /\ pc[Intr(c)] # "none" /\ v = TRUE
      PROVE  CpuOK(c)'
  <2>1. Top(c) = Intr(c) /\ Base(c)' = Base(c)
    BY <1>8 DEF Top, Base
  <2>2. pc'[Intr(c)] = "none" /\ \A t \in Threads : t # Intr(c) => pc'[t] = pc[t]
    BY <1>8, <2>1, GotoIs
  <2>3. Base(c) \in Threads /\ Base(c) # Intr(c) /\ pc'[Sched(c)] = pc[Sched(c)]
    BY <1>1, <2>2, ThreadFacts DEF Base
  <2>4. Top(c)' = Base(c) /\ pc'[Base(c)] = pc[Base(c)]
    BY <2>2, <2>3 DEF Top, Base
  <2>5. \A m \in Locks : ~Holds(m, pc[Base(c)])
    BY <1>1, <1>8 DEF CpuOK, Holds
  <2>6. \A m \in Locks : ~Holds(m, pc'[Top(c)'])
    BY <2>4, <2>5 DEF Holds
  <2>7. \A m \in Locks : lock'[m] = c <=> Holds(m, pc'[Top(c)'])
    BY <1>6, <2>6
  <2>8. intr'[c]
    BY <1>3, <1>8
  <2>9. on'[c] # NONE => pc'[Sched(c)] = "choose"
    BY <1>1, <2>3 DEF CpuOK
  <2> QED
    BY <1>5, <2>2, <2>7, <2>8, <2>9 DEF CpuOK
<1>9. ASSUME NEW d \in CPUs, d # c PROVE CpuOK(d)'
  BY <1>1, <1>3, <1>9, GotoIs, CpuFrame DEF IInv
<1> QED
  BY <1>3, <1>7, <1>8, <1>9

\* The same for the whole state.
LEMMA FlagInv ==
  ASSUME IInv, NEW c \in CPUs, NEW a, NEW b \in LabelsOf(c), NEW v \in BOOLEAN,
         At(c, a), Goto(c, b), intr' = [intr EXCEPT ![c] = v],
         UNCHANGED <<lock, ncli, intena, want, panic, r, w, on, next, saved, state>>,
         \A m \in Locks : ~Holds(m, a),
         \/ b # "none" /\ pc[Intr(c)] = "none" /\ \A m \in Locks : ~Holds(m, b)
         \/ b = "none" /\ pc[Intr(c)] # "none" /\ v = TRUE,
         b \in Enabled => v = TRUE,
         b \notin Chosen \cup {"sleep", "sleeping"}, a \notin {"wakeup", "waking"}
  PROVE  IInv'
<1>1. pc[Top(c)] = a /\ TypeOK /\ ~panic
  BY DEF At, IInv
<1>2. intr' \in [CPUs -> BOOLEAN] /\ \A d \in CPUs : CpuOK(d)'
  BY FlagCpu
<1>3. DryOK' /\ SleepJustified'
  BY <1>1, ReaderInv
<1>4. /\ lock' \in [Locks -> CPUs \cup {FREE}] /\ want' \in [CPUs -> Locks \cup {FREE}]
      /\ intena' \in [CPUs -> BOOLEAN] /\ ncli' \in [CPUs -> Nat] /\ state' \in [Procs -> States]
  BY <1>1 DEF TypeOK
<1> QED
  BY <1>1, <1>2, <1>3, <1>4, StepInv

\* Labels where no lock is held.
LEMMA Lockless ==
  \A m \in Locks : /\ ~Holds(m, "iret") /\ ~Holds(m, "user") /\ ~Holds(m, "loop")
                   /\ ~Holds(m, "sched") /\ ~Holds(m, "yield") /\ ~Holds(m, "handle")
BY DEF Holds, HoldsCons, HoldsPtable

\* trapret
LEMMA IretInv ==
  ASSUME IInv, NEW c \in CPUs, Iret(c)
  PROVE  IInv'
<1>1. /\ At(c, "iret") /\ pc[Top(c)] = "iret" /\ TypeOK /\ intr' = [intr EXCEPT ![c] = TRUE]
      /\ UNCHANGED <<lock, ncli, intena, want, panic, r, w, on, next, saved, state>>
      /\ Goto(c, IF Top(c) = Intr(c) THEN "none" ELSE "user")
  BY DEF Iret, At, input, procs, IInv
<1>2. {"none", "user"} \cap (Chosen \cup {"sleep", "sleeping"}) = {}
  BY DEF Chosen
<1>3. on[c] \in Procs \cup {NONE} /\ pc[Sched(c)] \in SchedLabels
  BY <1>1 DEF TypeOK
<1>4. CASE pc[Intr(c)] # "none"
  <2>1. Top(c) = Intr(c) /\ "none" \in LabelsOf(c)
    BY <1>4 DEF Top, LabelsOf, IntrLabels
  <2>2. Goto(c, "none")
    BY <1>1, <2>1
  <2> QED
    BY <1>1, <1>2, <1>4, <2>1, <2>2, FlagInv, Lockless
<1>5. CASE pc[Intr(c)] = "none"
  <2>1. Top(c) # Intr(c) /\ Top(c) # Sched(c) /\ on[c] # NONE
    BY <1>1, <1>3, <1>5, ThreadFacts DEF Top, SchedLabels
  <2>2. Goto(c, "user") /\ "user" \in LabelsOf(c)
    BY <1>1, <1>5, <2>1 DEF LabelsOf, ProcLabels
  <2> QED
    BY <1>1, <1>2, <1>5, <2>2, FlagInv, Lockless
<1> QED
  BY <1>4, <1>5

\* sti()
LEMMA StiInv ==
  ASSUME IInv, NEW c \in CPUs, Sti(c)
  PROVE  IInv'
<1>1. /\ At(c, "loop") /\ pc[Top(c)] = "loop" /\ TypeOK /\ intr' = [intr EXCEPT ![c] = TRUE]
      /\ UNCHANGED <<lock, ncli, intena, want, panic, r, w, on, next, saved, state>>
      /\ Goto(c, "sched")
  BY DEF Sti, At, input, procs, IInv
<1>2. "sched" \notin Chosen \cup {"sleep", "sleeping"}
  BY DEF Chosen
<1>3. "sched" \in LabelsOf(c) /\ pc[Intr(c)] = "none"
  BY <1>1, SameThread, Who DEF SchedLabels
<1> QED
  BY <1>1, <1>2, <1>3, FlagInv, Lockless

\* The clock interrupts user space.
LEMMA TickInv ==
  ASSUME IInv, NEW c \in CPUs, Tick(c)
  PROVE  IInv'
<1>1. /\ At(c, "user") /\ pc[Top(c)] = "user" /\ TypeOK /\ intr' = [intr EXCEPT ![c] = FALSE]
      /\ UNCHANGED <<lock, ncli, intena, want, panic, r, w, on, next, saved, state>>
      /\ Goto(c, "yield")
  BY DEF Tick, At, input, procs, IInv
<1>2. "yield" \notin Chosen \cup {"sleep", "sleeping"} /\ "yield" \notin Enabled
  BY DEF Chosen, Enabled
<1>3. "yield" \in LabelsOf(c) /\ pc[Intr(c)] = "none"
  BY <1>1, SameThread, Who DEF ProcLabels
<1> QED
  BY <1>1, <1>2, <1>3, FlagInv, Lockless

\* The handler starts on top of a thread that holds no lock.
LEMMA InterruptInv ==
  ASSUME IInv, NEW c \in CPUs, Interrupt(c)
  PROVE  IInv'
<1>1. /\ intr[c] /\ pc[Intr(c)] = "none" /\ intr' = [intr EXCEPT ![c] = FALSE]
      /\ pc' = [pc EXCEPT ![Intr(c)] = "handle"]
      /\ UNCHANGED <<lock, ncli, intena, want, panic, r, w, on, next, saved, state>>
      /\ TypeOK /\ CpuOK(c) /\ ~panic /\ OnOK /\ NextOK /\ DryOK /\ SleepJustified
  BY DEF Interrupt, input, procs, IInv
<1>2. pc'[Intr(c)] = "handle" /\ \A t \in Threads : t # Intr(c) => pc'[t] = pc[t]
  BY <1>1, ThreadFacts DEF TypeOK
<1>3. /\ \A d \in CPUs : pc'[Sched(d)] = pc[Sched(d)]
      /\ \A d \in CPUs : d # c => pc'[Intr(d)] = pc[Intr(d)] /\ pc'[Base(d)] = pc[Base(d)]
      /\ \A p \in Procs : pc'[p] = pc[p]
  <2>1. ASSUME NEW d \in CPUs PROVE Base(d) \in Threads /\ Base(d) # Intr(c)
    <3>1. on[d] \in Procs \cup {NONE}
      BY <1>1 DEF TypeOK
    <3> QED
      BY <3>1, ThreadFacts DEF Base
  <2> QED
    BY <1>2, <2>1, ThreadFacts
<1>4. TypeOK'
  <2>1. /\ lock' \in [Locks -> CPUs \cup {FREE}] /\ want' \in [CPUs -> Locks \cup {FREE}]
        /\ intena' \in [CPUs -> BOOLEAN] /\ ncli' \in [CPUs -> Nat] /\ state' \in [Procs -> States]
        /\ on' \in [CPUs -> Procs \cup {NONE}] /\ saved' \in [Procs -> BOOLEAN]
        /\ next' \in [CPUs -> Procs \cup {NONE}]
    BY <1>1 DEF TypeOK
  <2>2. intr' \in [CPUs -> BOOLEAN]
    BY <1>1 DEF TypeOK
  <2>3. pc' \in [Threads -> SchedLabels \cup IntrLabels \cup ProcLabels]
    BY <1>1 DEF TypeOK, IntrLabels
  <2>4. \A d \in CPUs : pc'[Sched(d)] \in SchedLabels /\ pc'[Intr(d)] \in IntrLabels
    BY <1>1, <1>2, <1>3 DEF TypeOK, IntrLabels
  <2>5. \A p \in Procs : pc'[p] \in ProcLabels
    BY <1>1, <1>3 DEF TypeOK
  <2> QED
    BY <2>1, <2>2, <2>3, <2>4, <2>5 DEF TypeOK
<1>5. CpuOK(c)'
  <2>1. Top(c) = Base(c) /\ ncli[c] = 0
    BY <1>1 DEF CpuOK, Top, Base
  <2>2. lock["cons"] # c /\ lock["ptable"] # c /\ want[c] = FREE
    BY <1>1, <2>1 DEF CpuOK, Depth
  <2>3. Top(c)' = Intr(c) /\ Base(c)' = Base(c)
    BY <1>1, <1>2 DEF Top, Base
  <2>4. pc'[Base(c)'] = pc[Base(c)]
    <3>1. on[c] \in Procs \cup {NONE}
      BY <1>1 DEF TypeOK
    <3> QED
      BY <1>3, <2>3, <3>1 DEF Base
  <2>5. Locks = {"cons", "ptable"}
    BY ConsoleAssumption
  <2>6. ~Holds("cons", pc[Base(c)]) /\ ~Holds("ptable", pc[Base(c)])
    BY <1>1, <2>1, <2>2, <2>5 DEF CpuOK
  <2>7. pc'[Base(c)'] \notin HoldsCons \cup HoldsPtable
    BY <2>4, <2>6 DEF Holds
  <2>8. Depth(c)' = Depth(c)
    BY <1>1 DEF Depth
  <2>9. intr'[c] = FALSE
    BY <1>1 DEF TypeOK
  <2>10. \A m \in Locks : lock'[m] = c <=> Holds(m, pc'[Top(c)'])
    BY <1>1, <1>2, <2>2, <2>3, <2>5, Lockless
  <2>11. pc'[Top(c)'] \notin Enabled
    BY <1>2, <2>3 DEF Enabled
  <2> QED
    BY <1>1, <1>3, <2>1, <2>2, <2>7, <2>8, <2>9, <2>10, <2>11 DEF CpuOK
<1>6. ASSUME NEW d \in CPUs, d # c PROVE CpuOK(d)'
  <2>1. intr'[d] = intr[d]
    BY <1>1, <1>6 DEF TypeOK
  <2> QED
    BY <1>1, <1>3, <1>6, <2>1, CpuFrame DEF IInv
<1>7. OnOK' /\ NextOK' /\ DryOK'
  BY <1>1, <1>3 DEF OnOK, NextOK, DryOK
<1>8. SleepJustified'
  BY <1>1, <1>3 DEF SleepJustified
<1> QED
  BY <1>1, <1>4, <1>5, <1>6, <1>7, <1>8 DEF IInv

-----------------------------------------------------------------------------
(* Context switches                                                        *)

\* A scheduler that has chosen a process holds ptable.lock.
LEMMA ChosenHolds ==
  ASSUME IInv, NEW d \in CPUs, pc[Sched(d)] \in Chosen
  PROVE  lock["ptable"] = d
<1>1. CpuOK(d) /\ pc[Sched(d)] \in HoldsPtable /\ pc[Sched(d)] # "choose" /\ "ptable" \in Locks
  BY ConsoleAssumption DEF IInv, Chosen, HoldsPtable
<1>2. on[d] = NONE /\ Base(d) = Sched(d)
  BY <1>1 DEF CpuOK, Base
<1>3. Top(d) = Sched(d)
  BY <1>1, <1>2 DEF CpuOK, Top
<1> QED
  BY <1>1, <1>3 DEF CpuOK, Holds

\* swtch() to the process that was chosen
LEMMA DispatchInv ==
  ASSUME IInv, NEW c \in CPUs, Dispatch(c)
  PROVE  IInv'
<1> DEFINE p == next[c]
<1>1. /\ At(c, "swtch") /\ pc[Top(c)] = "swtch" /\ want[c] = FREE
      /\ on' = [on EXCEPT ![c] = p]
      /\ state' = [state EXCEPT ![p] = "RUNNING"]
      /\ next' = [next EXCEPT ![c] = NONE]
      /\ intena' = [intena EXCEPT ![c] = Restored(c, p)]
      /\ saved' = [saved EXCEPT ![p] = FALSE]
      /\ Goto(c, "choose")
      /\ UNCHANGED <<lock, intr, ncli, want, panic, r, w>>
  BY DEF Dispatch, At, input
<1>2. TypeOK /\ CpuOK(c) /\ ~panic /\ OnOK /\ NextOK /\ DryOK /\ SleepJustified
  BY DEF IInv
<1>3. Top(c) = Sched(c) /\ pc[Intr(c)] = "none" /\ on[c] = NONE /\ LabelsOf(c) = SchedLabels
  BY <1>1, <1>2, Who, SameThread DEF SchedLabels
<1>4. p \in Procs /\ state[p] = "RUNNABLE"
  BY <1>1, <1>2, <1>3 DEF NextOK
<1>5. /\ pc[p] \in Switched /\ (pc[p] = "woken" => saved[p]) /\ \A d \in CPUs : on[d] # p
  BY <1>2, <1>4 DEF OnOK
<1> HIDE DEF p
<1>6. /\ pc'[Sched(c)] = "choose"
      /\ \A t \in Threads : t # Sched(c) => pc'[t] = pc[t]
      /\ \A d \in CPUs : d # c => /\ pc'[Intr(d)] = pc[Intr(d)]
                                  /\ pc'[Sched(d)] = pc[Sched(d)]
                                  /\ pc'[Base(d)] = pc[Base(d)]
  BY <1>1, <1>3, GotoIs
<1>7. pc'[Intr(c)] = pc[Intr(c)] /\ \A q \in Procs : pc'[q] = pc[q]
  BY <1>6, ThreadFacts
<1>8. /\ on' \in [CPUs -> Procs \cup {NONE}] /\ on'[c] = p
      /\ \A d \in CPUs : d # c => on'[d] = on[d]
  BY <1>1, <1>2, <1>4 DEF TypeOK
<1>9. /\ state' \in [Procs -> States] /\ state'[p] = "RUNNING"
      /\ \A q \in Procs : q # p => state'[q] = state[q]
  BY <1>1, <1>2, <1>4 DEF TypeOK, States
<1>10. /\ saved' \in [Procs -> BOOLEAN] /\ \A q \in Procs : q # p => saved'[q] = saved[q]
       /\ Restored(c, p) \in BOOLEAN /\ (pc[p] = "woken" => Restored(c, p) = TRUE)
  BY <1>1, <1>2, <1>4, <1>5 DEF TypeOK, Restored
<1>11. /\ intena' \in [CPUs -> BOOLEAN] /\ intena'[c] = Restored(c, p)
       /\ \A d \in CPUs : d # c => intena'[d] = intena[d]
  BY <1>1, <1>2, <1>10 DEF TypeOK
<1>12. TypeOK'
  <2>1. /\ pc' \in [Threads -> SchedLabels \cup IntrLabels \cup ProcLabels]
        /\ \A d \in CPUs : pc'[Sched(d)] \in SchedLabels /\ pc'[Intr(d)] \in IntrLabels
        /\ \A q \in Procs : pc'[q] \in ProcLabels
    BY <1>1, <1>3, GotoType DEF SchedLabels
  <2>2. next' \in [CPUs -> Procs \cup {NONE}]
    BY <1>1, <1>2 DEF TypeOK
  <2>3. /\ lock' \in [Locks -> CPUs \cup {FREE}] /\ want' \in [CPUs -> Locks \cup {FREE}]
        /\ intr' \in [CPUs -> BOOLEAN] /\ ncli' \in [CPUs -> Nat]
    BY <1>1, <1>2 DEF TypeOK
  <2> QED
    BY <1>8, <1>9, <1>10, <1>11, <2>1, <2>2, <2>3 DEF TypeOK
<1>13. CpuOK(c)'
  <2>1. Top(c)' = p /\ pc'[Top(c)'] = pc[p]
    BY <1>3, <1>4, <1>7, <1>8, ThreadFacts DEF Top
  <2>2. \A m \in Locks : Holds(m, "swtch") <=> Holds(m, pc[p])
    BY <1>5 DEF Holds, HoldsCons, HoldsPtable, Switched
  <2>3. \A m \in Locks : lock'[m] = c <=> Holds(m, pc'[Top(c)'])
    BY <1>1, <1>2, <2>1, <2>2 DEF CpuOK
  <2>4. Depth(c)' = Depth(c)
    BY <1>1 DEF Depth
  <2>5. want'[c] = FREE /\ ncli'[c] = Depth(c)'
    BY <1>1, <1>2, <2>4 DEF CpuOK
  <2>6. lock["ptable"] = c
    BY <1>1, <1>3, ChosenHolds DEF Chosen
  <2>7. ncli[c] # 0
    BY <1>1, <1>2, <2>6 DEF CpuOK, Depth
  <2>8. intr'[c] => ncli'[c] = 0 /\ pc'[Intr(c)] = "none"
    BY <1>1, <1>2, <1>3, <1>7 DEF CpuOK
  <2>9. pc'[Top(c)'] \in Calls => intena'[c]
    BY <1>5, <1>10, <1>11, <2>1 DEF Calls, Switched
  <2> QED
    BY <1>1, <1>3, <1>6, <1>7, <2>3, <2>5, <2>7, <2>8, <2>9 DEF CpuOK
<1>14. ASSUME NEW d \in CPUs, d # c PROVE CpuOK(d)'
  BY <1>1, <1>2, <1>6, <1>8, <1>11, <1>14, CpuFrame DEF IInv
<1>15. OnOK'
  <2>1. \A d1, d2 \in CPUs : on'[d1] = on'[d2] /\ on'[d1] # NONE => d1 = d2
    BY <1>2, <1>5, <1>8 DEF OnOK
  <2>2. \A q \in Procs : state'[q] = "RUNNING" <=> \E d \in CPUs : on'[d] = q
    <3>1. \A q \in Procs : q # p => ((\E d \in CPUs : on'[d] = q) <=> (\E d \in CPUs : on[d] = q))
      BY <1>3, <1>8, ThreadFacts
    <3> QED
      BY <1>2, <1>8, <1>9, <3>1 DEF OnOK
  <2>3. \A q \in Procs : state'[q] # "RUNNING" =>
           pc'[q] \in Switched /\ (pc'[q] = "woken" => saved'[q])
    BY <1>2, <1>7, <1>9, <1>10 DEF OnOK
  <2> QED
    BY <2>1, <2>2, <2>3 DEF OnOK
<1>16. NextOK'
  <2>1. SUFFICES ASSUME NEW d \in CPUs, pc'[Sched(d)] \in {"print", "printing", "swtch"}
                 PROVE  next'[d] \in Procs /\ state'[next'[d]] = "RUNNABLE"
    BY DEF NextOK
  <2>2. d # c
    BY <1>6, <2>1
  <2>3. pc[Sched(d)] \in Chosen /\ pc[Sched(c)] \in Chosen
    BY <1>1, <1>3, <1>6, <2>1, <2>2 DEF Chosen
  <2>4. lock["ptable"] = d /\ lock["ptable"] = c
    BY <2>3, ChosenHolds
  <2> QED
    BY <2>2, <2>4
<1>17. DryOK'
  BY <1>1, <1>2, <1>7 DEF DryOK
<1>18. SleepJustified'
  <2>1. \A d \in CPUs : pc'[Intr(d)] = pc[Intr(d)]
    BY <1>6, <1>7
  <2> QED
    BY <1>1, <1>2, <1>9, <2>1 DEF SleepJustified
<1> QED
  BY <1>1, <1>2, <1>12, <1>13, <1>14, <1>15, <1>16, <1>17, <1>18 DEF IInv

\* sched(): the process of c stops at l in state s.
LEMMA SwitchInv ==
  ASSUME IInv, NEW c \in CPUs, NEW s \in {"RUNNABLE", "SLEEPING"}, NEW l \in Switched,
         pc[Top(c)] \in {"sleeping", "yielding"}, want[c] = FREE,
         Switch(c, s, l), l = "woken" => intena[c], s = "SLEEPING" => r = w,
         lock'["ptable"] = c, lock'["cons"] # c,
         \A d \in CPUs : d # c => \A k \in Locks : lock'[k] = d <=> lock[k] = d,
         lock' \in [Locks -> CPUs \cup {FREE}], ncli' \in [CPUs -> Nat], ncli'[c] = 1,
         \A d \in CPUs : d # c => ncli'[d] = ncli[d],
         intr' \in [CPUs -> BOOLEAN], ~intr'[c],
         \A d \in CPUs : d # c => intr'[d] = intr[d],
         UNCHANGED <<intena, want, r, w, next>>, ~panic'
  PROVE  IInv'
<1> DEFINE p == on[c]
<1>1. TypeOK /\ CpuOK(c) /\ OnOK /\ NextOK /\ DryOK /\ SleepJustified
  BY DEF IInv
<1>2. Top(c) = p /\ p \in Procs /\ pc[Intr(c)] = "none" /\ LabelsOf(c) = ProcLabels /\ p # NONE
  BY <1>1, Who, SameThread, ThreadFacts DEF ProcLabels
<1>3. /\ state' = [state EXCEPT ![p] = s]
      /\ on' = [on EXCEPT ![c] = NONE]
      /\ saved' = [saved EXCEPT ![p] = intena[c]]
      /\ Goto(c, l)
  BY <1>2 DEF Switch, Goto
<1> HIDE DEF p
<1>4. /\ pc'[p] = l
      /\ \A t \in Threads : t # p => pc'[t] = pc[t]
      /\ \A d \in CPUs : d # c => /\ pc'[Intr(d)] = pc[Intr(d)]
                                  /\ pc'[Sched(d)] = pc[Sched(d)]
                                  /\ pc'[Base(d)] = pc[Base(d)]
  BY <1>2, <1>3, GotoIs
<1>5. \A d \in CPUs : pc'[Intr(d)] = pc[Intr(d)] /\ pc'[Sched(d)] = pc[Sched(d)]
  BY <1>2, <1>4, ThreadFacts
<1>6. /\ on' \in [CPUs -> Procs \cup {NONE}] /\ on'[c] = NONE
      /\ \A d \in CPUs : d # c => on'[d] = on[d]
  BY <1>1, <1>3 DEF TypeOK
<1>7. /\ state' \in [Procs -> States] /\ state'[p] = s
      /\ \A q \in Procs : q # p => state'[q] = state[q]
  BY <1>1, <1>2, <1>3 DEF TypeOK, States
<1>8. /\ saved' \in [Procs -> BOOLEAN] /\ saved'[p] = intena[c]
      /\ \A q \in Procs : q # p => saved'[q] = saved[q]
  BY <1>1, <1>2, <1>3 DEF TypeOK
<1>9. TypeOK'
  <2>1. /\ pc' \in [Threads -> SchedLabels \cup IntrLabels \cup ProcLabels]
        /\ \A d \in CPUs : pc'[Sched(d)] \in SchedLabels /\ pc'[Intr(d)] \in IntrLabels
        /\ \A q \in Procs : pc'[q] \in ProcLabels
    <3>1. l \in LabelsOf(c)
      BY <1>2 DEF Switched, ProcLabels
    <3> QED
      BY <1>3, <3>1, GotoType
  <2>2. /\ next' \in [CPUs -> Procs \cup {NONE}] /\ want' \in [CPUs -> Locks \cup {FREE}]
        /\ intena' \in [CPUs -> BOOLEAN]
    BY <1>1 DEF TypeOK
  <2> QED
    BY <1>6, <1>7, <1>8, <2>1, <2>2 DEF TypeOK
<1>10. CpuOK(c)'
  <2>1. pc[Sched(c)] = "choose"
    BY <1>1, <1>2 DEF CpuOK, p
  <2>2. Top(c)' = Sched(c) /\ pc'[Top(c)'] = "choose"
    BY <1>2, <1>5, <1>6, <2>1 DEF Top
  <2>3. \A m \in Locks : lock'[m] = c <=> Holds(m, pc'[Top(c)'])
    BY <2>2, ConsoleAssumption DEF Holds, HoldsCons, HoldsPtable
  <2>4. ncli'[c] = Depth(c)' /\ ncli'[c] # 0
    BY DEF Depth
  <2>5. pc'[Top(c)'] \notin Calls
    BY <2>2 DEF Calls
  <2> QED
    BY <1>2, <1>5, <1>6, <2>3, <2>4, <2>5 DEF CpuOK
<1>11. ASSUME NEW d \in CPUs, d # c PROVE CpuOK(d)'
  BY <1>1, <1>4, <1>6, <1>11, CpuFrame DEF IInv
<1>12. state[p] = "RUNNING"
  BY <1>1, <1>2 DEF OnOK, p
<1>13. OnOK'
  <2>1. \A d1, d2 \in CPUs : on'[d1] = on'[d2] /\ on'[d1] # NONE => d1 = d2
    BY <1>1, <1>6 DEF OnOK
  <2>2. \A q \in Procs : state'[q] = "RUNNING" <=> \E d \in CPUs : on'[d] = q
    <3>1. \A q \in Procs : q # p => ((\E d \in CPUs : on'[d] = q) <=> (\E d \in CPUs : on[d] = q))
      BY <1>6, ThreadFacts DEF p
    <3>2. \A d \in CPUs : on'[d] # p
      BY <1>1, <1>2, <1>6 DEF OnOK, p
    <3> QED
      BY <1>1, <1>7, <3>1, <3>2 DEF OnOK
  <2>3. \A q \in Procs : state'[q] # "RUNNING" =>
           pc'[q] \in Switched /\ (pc'[q] = "woken" => saved'[q])
    BY <1>1, <1>4, <1>7, <1>8, ThreadFacts DEF OnOK
  <2> QED
    BY <2>1, <2>2, <2>3 DEF OnOK
<1>14. NextOK'
  BY <1>1, <1>5, <1>7, <1>12 DEF NextOK
<1>15. DryOK'
  BY <1>1, <1>4, ThreadFacts DEF DryOK, Switched
<1>16. SleepJustified'
  BY <1>1, <1>5, <1>7 DEF SleepJustified
<1> QED
  BY <1>9, <1>10, <1>11, <1>13, <1>14, <1>15, <1>16 DEF IInv

\* sleep(&input.r, &cons.lock)
LEMMA SleepInv ==
  ASSUME IInv, NEW c \in CPUs, Sleep(c)
  PROVE  IInv'
<1>1. /\ At(c, "sleeping") /\ pc[Top(c)] = "sleeping" /\ want[c] = FREE
      /\ Switch(c, "SLEEPING", "woken")
      /\ lock' = [lock EXCEPT !["cons"] = FREE]
      /\ ncli' = [ncli EXCEPT ![c] = @ - 1]
      /\ intr' = [intr EXCEPT ![c] = @ \/ (ncli[c] = 1 /\ intena[c])]
      /\ panic' = (panic \/ lock["cons"] # c \/ intr[c] \/ ncli[c] = 0)
      /\ UNCHANGED <<intena, want, r, w, next>>
  BY DEF Sleep, At, release, popcli, input
<1>2. TypeOK /\ CpuOK(c) /\ ~panic /\ DryOK
  BY DEF IInv
<1>3. r = w
  <2>1. Top(c) \in Procs
    BY <1>1, <1>2, Who DEF ProcLabels
  <2> QED
    BY <1>1, <1>2, <2>1 DEF DryOK
<1>4. Locks = {"cons", "ptable"} /\ FREE \notin CPUs
  BY ConsoleAssumption, SpinlockAssumption
<1>5. lock["cons"] = c /\ lock["ptable"] = c
  BY <1>1, <1>2, <1>4 DEF CpuOK, Holds, HoldsCons, HoldsPtable
<1>6. ncli[c] = 2
  BY <1>1, <1>2, <1>5 DEF CpuOK, Depth
<1>7. intena[c] /\ ~intr[c]
  BY <1>1, <1>2, <1>6 DEF CpuOK, Calls
<1>8. /\ lock' \in [Locks -> CPUs \cup {FREE}] /\ lock'["ptable"] = c /\ lock'["cons"] # c
      /\ \A d \in CPUs : d # c => \A k \in Locks : lock'[k] = d <=> lock[k] = d
  BY <1>1, <1>2, <1>4, <1>5 DEF TypeOK
<1>9. /\ ncli' \in [CPUs -> Nat] /\ ncli'[c] = 1
      /\ \A d \in CPUs : d # c => ncli'[d] = ncli[d]
  BY <1>1, <1>2, <1>6 DEF TypeOK
<1>10. ncli[c] # 0 /\ ncli[c] # 1
  BY <1>6
<1>11. /\ intr' \in [CPUs -> BOOLEAN] /\ ~intr'[c]
       /\ \A d \in CPUs : d # c => intr'[d] = intr[d]
  <2>1. intr \in [CPUs -> BOOLEAN] /\ intena \in [CPUs -> BOOLEAN]
    BY <1>2 DEF TypeOK
  <2>2. intr' = [intr EXCEPT ![c] = @ \/ (ncli[c] = 1 /\ intena[c])]
    BY <1>1
  <2> QED
    BY <1>7, <1>10, <2>1, <2>2
<1>12. ~panic'
  <2>1. panic' = (panic \/ lock["cons"] # c \/ intr[c] \/ ncli[c] = 0)
    BY <1>1
  <2> QED
    BY <1>2, <1>5, <1>7, <1>10, <2>1
<1>13. "woken" \in Switched
  BY DEF Switched
<1> QED
  BY <1>1, <1>3, <1>7, <1>8, <1>9, <1>11, <1>12, <1>13, SwitchInv

\* yield()
LEMMA YieldInv ==
  ASSUME IInv, NEW c \in CPUs, Yield(c)
  PROVE  IInv'
<1>1. PICK l \in {"born", "yielded"} : Switch(c, "RUNNABLE", l)
  BY DEF Yield
<1>2. /\ At(c, "yielding") /\ pc[Top(c)] = "yielding" /\ want[c] = FREE
      /\ UNCHANGED <<lock, intr, ncli, intena, want, panic, r, w, next>>
  BY DEF Yield, At, spinvars, input
<1>3. TypeOK /\ CpuOK(c) /\ ~panic
  BY DEF IInv
<1>4. Locks = {"cons", "ptable"}
  BY ConsoleAssumption
<1>5. lock["cons"] # c /\ lock["ptable"] = c
  BY <1>2, <1>3, <1>4 DEF CpuOK, Holds, HoldsCons, HoldsPtable
<1>6. ncli[c] = 1
  BY <1>2, <1>3, <1>5 DEF CpuOK, Depth
<1>7. ~intr[c]
  BY <1>3, <1>6 DEF CpuOK
<1>8. /\ lock' \in [Locks -> CPUs \cup {FREE}] /\ ncli' \in [CPUs -> Nat]
      /\ intr' \in [CPUs -> BOOLEAN]
  BY <1>2, <1>3 DEF TypeOK
<1>9. l \in Switched
  BY DEF Switched
<1> QED
  BY <1>1, <1>2, <1>3, <1>5, <1>6, <1>7, <1>8, <1>9, SwitchInv

-----------------------------------------------------------------------------
(* The theorems                                                            *)

\* The first state.
LEMMA InitInv ==
  ASSUME Init
  PROVE  IInv
<1>1. /\ lock = [l \in Locks |-> FREE] /\ intr = [c \in CPUs |-> FALSE]
      /\ ncli = [c \in CPUs |-> 0] /\ intena = [c \in CPUs |-> FALSE]
      /\ want = [c \in CPUs |-> FREE] /\ panic = FALSE
      /\ r = 0 /\ w = 0 /\ on = [c \in CPUs |-> NONE]
      /\ pc = [t \in Threads |-> IF t \in Procs THEN "born"
                                 ELSE IF t[1] = "sched" THEN "loop" ELSE "none"]
      /\ next = [c \in CPUs |-> NONE] /\ saved = [p \in Procs |-> FALSE]
      /\ state = [p \in Procs |-> "RUNNABLE"]
  BY DEF Init, SpinInit
<1>2. /\ \A c \in CPUs : Sched(c)[1] = "sched" /\ Intr(c)[1] = "intr"
      /\ \A c \in CPUs : Sched(c) \notin Procs /\ Intr(c) \notin Procs
  BY ConsoleAssumption DEF Sched, Intr
<1>3. /\ \A p \in Procs : pc[p] = "born"
      /\ \A c \in CPUs : pc[Sched(c)] = "loop" /\ pc[Intr(c)] = "none"
  BY <1>1, <1>2, ThreadFacts
<1>4. TypeOK
  <2>1. pc \in [Threads -> SchedLabels \cup IntrLabels \cup ProcLabels]
    BY <1>1 DEF SchedLabels, IntrLabels, ProcLabels
  <2>2. /\ \A c \in CPUs : pc[Sched(c)] \in SchedLabels /\ pc[Intr(c)] \in IntrLabels
        /\ \A p \in Procs : pc[p] \in ProcLabels
    BY <1>3 DEF SchedLabels, IntrLabels, ProcLabels
  <2> QED
    BY <1>1, <2>1, <2>2 DEF TypeOK, States
<1>5. ASSUME NEW c \in CPUs PROVE CpuOK(c)
  <2>1. Top(c) = Sched(c) /\ pc[Top(c)] = "loop"
    BY <1>1, <1>3 DEF Top
  <2>2. FREE # c
    BY SpinlockAssumption
  <2>3. \A k \in Locks : lock[k] = c <=> Holds(k, pc[Top(c)])
    BY <1>1, <2>1, <2>2, Lockless
  <2>4. Depth(c) = 0
    BY <1>1, <2>2, ConsoleAssumption DEF Depth
  <2>5. pc[Top(c)] \notin Enabled
    BY <2>1 DEF Enabled
  <2> QED
    BY <1>1, <1>3, <2>3, <2>4, <2>5 DEF CpuOK
<1>6. OnOK /\ NextOK /\ DryOK /\ SleepJustified
  BY <1>1, <1>3, ThreadFacts DEF OnOK, NextOK, DryOK, SleepJustified, Switched
<1> QED
  BY <1>1, <1>4, <1>5, <1>6 DEF IInv

\* A step of the next-state relation, one case per action.
LEMMA NextInv ==
  ASSUME IInv, [Next]_vars
  PROVE  IInv'
<1>1. CASE UNCHANGED vars
  <2>1. UNCHANGED <<lock, intr, ncli, intena, want, panic, r, w, on, pc, next, saved, state>>
    BY <1>1 DEF vars, spinvars, input, procs
  <2> QED
    BY <2>1 DEF IInv, TypeOK, CpuOK, OnOK, NextOK, DryOK, SleepJustified, Top, Base, Depth
<1>2. ASSUME NEW c \in CPUs, Resume(c) PROVE IInv'
  <2>1. CASE Release(c, "ptable", "woken", "reread")
    BY <2>1, ReleaseStep
  <2>2. CASE Release(c, "ptable", "yielded", "iret")
    BY <2>2, ReleaseStep
  <2>3. CASE Release(c, "ptable", "born", "iret")
    BY <2>3, ReleaseStep
  <2> QED
    BY <1>2, <2>1, <2>2, <2>3 DEF Resume
<1>3. ASSUME NEW c \in CPUs, HandleEnd(c) \/ DumpEnd(c) PROVE IInv'
  <2>1. PICK b \in {"procdump", "iret"} :
           Release(c, "cons", "chars", b) \/ Release(c, "cons", "dumping", "iret")
    BY <1>3 DEF HandleEnd, DumpEnd
  <2> QED
    BY <2>1, ReleaseStep
<1>4. ASSUME NEW c \in CPUs, Printed(c) PROVE IInv'
  BY <1>4, ReleaseStep DEF Printed
<1>5. ASSUME NEW c \in CPUs, ScanEnd(c) PROVE IInv'
  BY <1>5, ReleaseStep DEF ScanEnd
<1>6. ASSUME NEW c \in CPUs, WriteEnd(c) PROVE IInv'
  BY <1>6, ReleaseStep DEF WriteEnd
<1>7. ASSUME NEW c \in CPUs,
             \/ Acquire(c) \/ Interrupt(c) \/ Wakeup(c) \/ Iret(c)
             \/ Sti(c) \/ Dispatch(c) \/ Tick(c)
             \/ ReadChar(c) \/ ReadWait(c) \/ ReadEnd(c) \/ Sleep(c) \/ Yield(c)
      PROVE  IInv'
  BY <1>7, AcquireInv, InterruptInv, WakeupInv, IretInv, StiInv, DispatchInv, TickInv,
     ReadCharInv, ReadWaitInv, ReadEndInv, SleepInv, YieldInv
<1>8. ASSUME NEW c \in CPUs, \E ch \in Chars : HandleChar(c, ch) PROVE IInv'
  BY <1>8, HandleCharInv
<1>9. ASSUME NEW c \in CPUs, \E p \in Procs : Choose(c, p) \/ Kill(c, p) PROVE IInv'
  BY <1>9, ChooseInv, KillInv
<1>10. ASSUME NEW c \in CPUs,
              \E l \in {"read", "write", "kill"}, len \in Lengths : Begin(c, l, len)
       PROVE  IInv'
  BY <1>10, BeginInv
<1> QED
  BY <1>1, <1>2, <1>3, <1>4, <1>5, <1>6, <1>7, <1>8, <1>9, <1>10 DEF Next

\* The invariant holds in every reachable state of the console.
THEOREM Invariance == Spec => []IInv
<1>1. Init => IInv
  BY InitInv
<1>2. IInv /\ [Next]_vars => IInv'
  BY NextInv
<1> QED
  BY <1>1, <1>2, PTL DEF Spec

\* The locks of one CPU are counted by Depth.
LEMMA DepthCounts ==
  ASSUME IInv, NEW c \in CPUs
  PROVE  Depth(c) = Cardinality({l \in Locks : lock[l] = c}) + (IF want[c] = FREE THEN 0 ELSE 1)
<1> DEFINE S == {l \in Locks : lock[l] = c}
<1>1. Locks = {"cons", "ptable"}
  BY ConsoleAssumption
<1>2. CASE lock["cons"] = c /\ lock["ptable"] = c
  <2>1. S = {"cons"} \cup {"ptable"} /\ "ptable" \notin {"cons"}
    BY <1>1, <1>2
  <2>2. IsFiniteSet({"cons"}) /\ Cardinality({"cons"}) = 1
    BY FS_Singleton
  <2>3. Cardinality({"cons"} \cup {"ptable"}) = 2
    <3>1. Cardinality({"cons"} \cup {"ptable"}) = Cardinality({"cons"}) + 1
      BY <2>1, <2>2, FS_AddElement, Zenon
    <3> QED
      BY <2>2, <3>1
  <2> QED
    BY <1>2, <2>1, <2>3 DEF Depth
<1>3. CASE lock["cons"] = c /\ lock["ptable"] # c
  <2>1. S = {"cons"}
    BY <1>1, <1>3
  <2>2. Cardinality(S) = 1
    BY <2>1, FS_Singleton
  <2> QED
    BY <1>3, <2>2 DEF Depth
<1>4. CASE lock["cons"] # c /\ lock["ptable"] = c
  <2>1. S = {"ptable"}
    BY <1>1, <1>4
  <2>2. Cardinality(S) = 1
    BY <2>1, FS_Singleton
  <2> QED
    BY <1>4, <2>2 DEF Depth
<1>5. CASE lock["cons"] # c /\ lock["ptable"] # c
  <2>1. S = {}
    BY <1>1, <1>5
  <2>2. Cardinality(S) = 0
    BY <2>1, FS_EmptySet
  <2> QED
    BY <1>5, <2>2 DEF Depth
<1> QED
  BY <1>2, <1>3, <1>4, <1>5

\* acquire(), release(), sched() and the handlers agree on the masking of
\* interrupts: whatever CPUs, processes and handlers do, the depth of
\* pushcli() is the number of locks that the CPU holds or awaits, a handler
\* never runs on a CPU that holds one, a system call has interrupts on
\* whenever it holds none, even after it slept with ptable.lock and the
\* CPU's flag was meanwhile another thread's, and no panic of spinlock.c or
\* sched() is reached.
THEOREM MaskingMatched == Spec => []CliMatched
<1>1. IInv => CliMatched
  <2>1. SUFFICES ASSUME IInv, NEW c \in CPUs
                 PROVE  /\ ~panic
                        /\ ncli[c] = Cardinality({l \in Locks : lock[l] = c})
                                     + (IF want[c] = FREE THEN 0 ELSE 1)
                        /\ intr[c] => ncli[c] = 0 /\ pc[Intr(c)] = "none"
                        /\ ncli[c] = 0 /\ pc[Top(c)] \in Enabled => intr[c]
                        /\ pc[Top(c)] \in {"choose", "woken", "yielded", "born"} =>
                              \A l \in Locks : lock[l] = c <=> l = "ptable"
    BY DEF CliMatched, Enabled, IInv
  <2>2. CpuOK(c) /\ ~panic /\ Locks = {"cons", "ptable"}
    BY <2>1, ConsoleAssumption DEF IInv
  <2>3. ncli[c] = Cardinality({l \in Locks : lock[l] = c}) + (IF want[c] = FREE THEN 0 ELSE 1)
    BY <2>1, <2>2, DepthCounts DEF CpuOK
  <2>4. pc[Top(c)] \in {"choose", "woken", "yielded", "born"} =>
           \A l \in Locks : Holds(l, pc[Top(c)]) <=> l = "ptable"
    BY <2>2 DEF Holds, HoldsCons, HoldsPtable
  <2>5. pc[Top(c)] \in {"choose", "woken", "yielded", "born"} =>
           \A l \in Locks : lock[l] = c <=> l = "ptable"
    BY <2>2, <2>4 DEF CpuOK
  <2> QED
    BY <2>2, <2>3, <2>5 DEF CpuOK
<1> QED
  BY <1>1, Invariance, PTL

\* No line is missed: a process sleeps in consoleread() while there is
\* something to read only until the handler that is on its way wakes it.
THEOREM SleepersJustified == Spec => []SleepJustified
<1>1. IInv => SleepJustified
  BY DEF IInv
<1> QED
  BY <1>1, Invariance, PTL

-----------------------------------------------------------------------------
(* The input buffer is a line editor, see LineInput.  The buffer does not  *)
(* depend on the threads: only the characters and the reads touch it.      *)

Index == 0..(WRAP - 1)
Items == CharType \cup {NONE}

\* The cell of character i after index x.
Slot(x, i) == Cell(x + i - 1)

\* The characters between indices x and y of buffer B.
Line(B, x, y) == [k \in 1..Diff(y, x) |-> B[Slot(x, k)]]

\* Indices x, y and z are in this order, no more than the buffer apart.
InOrder(x, y, z) ==
    /\ x \in Index /\ y \in Index /\ z \in Index
    /\ Diff(y, x) + Diff(z, y) <= INPUT_BUF

\* The line that is typed is not ended, so that ^U stops at the write index.
RingOK ==
    /\ buf \in [0..(INPUT_BUF - 1) -> Items]
    /\ InOrder(r, w, e)
    /\ \A i \in 1..Diff(e, w) : buf[Slot(w, i)] # "newline"

\* The sizes.
LEMMA Sizes ==
  /\ INPUT_BUF \in Nat \ {0} /\ WRAP \in Nat \ {0} /\ INPUT_BUF < WRAP
  /\ WRAP % INPUT_BUF = 0
BY ConsoleAssumption

\* The distance of two indices.
LEMMA DiffIs ==
  ASSUME NEW x \in Index, NEW y \in Index
  PROVE  /\ Diff(y, x) = IF x <= y THEN y - x ELSE y + WRAP - x
         /\ Diff(y, x) \in Nat /\ Diff(y, x) < WRAP
<1>1. Diff(y, x) = IF x <= y THEN y - x ELSE y + WRAP - x
  BY Sizes, Distance DEF Diff, Index
<1> QED
  BY <1>1, Sizes DEF Index

\* An index is as far ahead as their distance says.
LEMMA AheadOf ==
  ASSUME NEW x \in Index, NEW y \in Index
  PROVE  y = (x + Diff(y, x)) % WRAP
<1> DEFINE k == Diff(y, x)
<1>1. k = (IF x <= y THEN y - x ELSE y + WRAP - x) /\ k \in 0..(WRAP - 1)
  BY DiffIs, Sizes
<1> HIDE DEF k
<1>2. (x + k) % WRAP = IF x + k < WRAP THEN x + k ELSE x + k - WRAP
  <2>1. WRAP \in Nat \ {0} /\ x \in 0..(WRAP - 1)
    BY Sizes DEF Index
  <2> QED
    BY <1>1, <2>1, Forward
<1>3. y = (x + k) % WRAP
  BY <1>1, <1>2, Sizes DEF Index
<1> QED
  BY <1>3 DEF k

\* An index moves ahead.
LEMMA Ahead ==
  ASSUME NEW x \in Index, NEW k \in Nat, k < WRAP
  PROVE  /\ (x + k) % WRAP \in Index
         /\ Diff((x + k) % WRAP, x) = k
<1> DEFINE y == (x + k) % WRAP
<1>1. y = IF x + k < WRAP THEN x + k ELSE x + k - WRAP
  <2>1. k \in 0..(WRAP - 1)
    BY Sizes
  <2> QED
    BY <2>1, Sizes, Forward DEF Index
<1>2. y \in Index
  BY <1>1, Sizes DEF Index
<1> HIDE DEF y
<1>3. Diff(y, x) = IF x <= y THEN y - x ELSE y + WRAP - x
  BY <1>2, DiffIs
<1>4. Diff(y, x) = k
  BY <1>1, <1>2, <1>3, Sizes DEF Index
<1> QED
  BY <1>2, <1>4 DEF y

\* Distances add up.
LEMMA Order ==
  ASSUME NEW x, NEW y, NEW z, InOrder(x, y, z)
  PROVE  /\ Diff(y, x) \in Nat /\ Diff(z, y) \in Nat
         /\ Diff(z, x) = Diff(y, x) + Diff(z, y)
<1>1. x \in Index /\ y \in Index /\ z \in Index /\ Diff(y, x) + Diff(z, y) <= INPUT_BUF
  BY DEF InOrder
<1>2. /\ Diff(y, x) = (IF x <= y THEN y - x ELSE y + WRAP - x) /\ Diff(y, x) \in Nat
      /\ Diff(z, y) = (IF y <= z THEN z - y ELSE z + WRAP - y) /\ Diff(z, y) \in Nat
      /\ Diff(z, x) = (IF x <= z THEN z - x ELSE z + WRAP - x)
  BY <1>1, DiffIs
<1> QED
  BY <1>1, <1>2, Sizes DEF Index

\* Cells of the buffer.
LEMMA SlotRange ==
  ASSUME NEW x \in Nat, NEW i \in Nat
  PROVE  Slot(x, i) \in 0..(INPUT_BUF - 1)
<1>1. x + i - 1 \in Int
  OBVIOUS
<1> QED
  BY <1>1, ModRange, Sizes DEF Slot, Cell

\* The cells after an index that has moved on: its wrap-around does not
\* move them.
LEMMA SlotMoved ==
  ASSUME NEW x \in Nat, NEW k \in Nat, NEW i \in Nat
  PROVE  Slot((x + k) % WRAP, i) = Slot(x, k + i)
<1>1. PICK a \in Int : a = x + k
  OBVIOUS
<1>2. PICK b \in Int : b = i - 1
  OBVIOUS
<1>3. ((a % WRAP) + b) % INPUT_BUF = (a + b) % INPUT_BUF
  BY ModOfMod, Sizes
<1>4. a % WRAP \in Nat
  BY ModRange, Sizes
<1>5. (a % WRAP) + i - 1 = (a % WRAP) + b /\ x + (k + i) - 1 = a + b
  BY <1>1, <1>2, <1>4
<1> QED
  BY <1>1, <1>3, <1>5 DEF Slot, Cell

\* Characters less than INPUT_BUF apart are in different cells.
LEMMA SlotDistinct ==
  ASSUME NEW x \in Nat, NEW i \in Nat, NEW j \in Nat,
         i < j, j < i + INPUT_BUF
  PROVE  Slot(x, i) # Slot(x, j)
<1>1. /\ x + i - 1 \in Int /\ x + j - 1 \in Int /\ x + i - 1 <= x + j - 1
      /\ x + j - 1 < (x + i - 1) + INPUT_BUF /\ x + i - 1 # x + j - 1
  BY Sizes
<1> QED
  BY <1>1, ModDistinct, Sizes DEF Slot, Cell

\* The cells behind the second of two indices.
LEMMA SlotAfter ==
  ASSUME NEW x \in Index, NEW y \in Index, NEW i \in Nat
  PROVE  Slot(y, i) = Slot(x, Diff(y, x) + i)
<1>1. y = (x + Diff(y, x)) % WRAP /\ Diff(y, x) \in Nat /\ x \in Nat
  BY AheadOf, DiffIs, Sizes DEF Index
<1>2. PICK k \in Nat : k = Diff(y, x)
  BY <1>1
<1>3. Slot((x + k) % WRAP, i) = Slot(x, k + i)
  BY <1>1, SlotMoved
<1> QED
  BY <1>1, <1>2, <1>3

\* What is between two indices is a sequence of characters.
LEMMA LineIs ==
  ASSUME NEW B \in [0..(INPUT_BUF - 1) -> Items], NEW x \in Index, NEW y \in Index
  PROVE  /\ Line(B, x, y) \in Seq(Items) /\ Len(Line(B, x, y)) = Diff(y, x)
         /\ \A i \in 1..Diff(y, x) : Line(B, x, y)[i] = B[Slot(x, i)]
<1>1. Diff(y, x) \in Nat /\ x \in Nat
  BY DiffIs, Sizes DEF Index
<1>2. \A i \in 1..Diff(y, x) : B[Slot(x, i)] \in Items
  <2>1. SUFFICES ASSUME NEW i \in 1..Diff(y, x) PROVE B[Slot(x, i)] \in Items
    OBVIOUS
  <2>2. i \in Nat
    BY <1>1
  <2>3. Slot(x, i) \in 0..(INPUT_BUF - 1)
    BY <1>1, <2>2, SlotRange
  <2> QED
    BY <2>3
<1>3. Line(B, x, y) \in [1..Diff(y, x) -> Items]
  BY <1>2 DEF Line
<1>4. Line(B, x, y) \in Seq(Items) /\ Len(Line(B, x, y)) = Diff(y, x)
  BY <1>1, <1>3, FunctionSeq
<1> QED
  BY <1>4 DEF Line

\* The sequences of the refinement.
LEMMA TypedIs ==
  /\ Typed(r, w) = Line(buf, r, w) /\ Typed(w, e) = Line(buf, w, e)
BY DEF Typed, Line, Slot

\* Two buffers that agree between two indices.
LEMMA SameLine ==
  ASSUME NEW B \in [0..(INPUT_BUF - 1) -> Items], NEW C \in [0..(INPUT_BUF - 1) -> Items],
         NEW x \in Index, NEW y \in Index,
         \A i \in 1..Diff(y, x) : B[Slot(x, i)] = C[Slot(x, i)]
  PROVE  Line(B, x, y) = Line(C, x, y)
BY DEF Line

\* Backspace and ^U: the line is cut to its first m characters.
LEMMA EraseStep ==
  ASSUME RingOK, NEW m \in Nat, m <= Diff(e, w), EraseTo((w + m) % WRAP), r' = r, w' = w
  PROVE  /\ RingOK'
         /\ Typed(r, w)' = Typed(r, w)
         /\ Typed(w, e)' = SubSeq(Typed(w, e), 1, m)
<1> DEFINE a == Diff(w, r)
           b == Diff(e, w)
           x == (w + m) % WRAP
<1>1. /\ buf \in [0..(INPUT_BUF - 1) -> Items] /\ InOrder(r, w, e)
      /\ r \in Index /\ w \in Index /\ e \in Index /\ a + b <= INPUT_BUF
  BY DEF RingOK, InOrder
<1>2. a \in Nat /\ b \in Nat /\ b < WRAP /\ r \in Nat /\ w \in Nat
  BY <1>1, DiffIs, Sizes DEF Index
<1>3. m <= b /\ m < WRAP
  BY <1>2, Sizes
<1>4. x \in Index /\ Diff(x, w) = m
  BY <1>3, <1>1, Ahead
<1>5. InOrder(w, x, e)
  <2>1. Diff(e, x) = b - m
    <3>1. /\ Diff(x, w) = (IF w <= x THEN x - w ELSE x + WRAP - w)
          /\ b = (IF w <= e THEN e - w ELSE e + WRAP - w)
          /\ Diff(e, x) = (IF x <= e THEN e - x ELSE e + WRAP - x)
      BY <1>1, <1>4, DiffIs
    <3> HIDE DEF x, b
    <3> QED
      BY <1>3, <1>1, <1>2, <1>4, <3>1, Sizes DEF Index
  <2> HIDE DEF x, a, b
  <2> QED
    BY <1>3, <1>1, <1>2, <1>4, <2>1, Sizes DEF InOrder
<1>6. Diff(e, x) = b - m
  BY <1>2, <1>4, <1>5, Order
<1> HIDE DEF x
<1>7. /\ e' = x
      /\ buf' = [i \in 0..(INPUT_BUF - 1) |->
                   IF \E k \in 0..(b - m) - 1 : Cell(x + k) = i THEN NONE ELSE buf[i]]
  BY <1>6 DEF EraseTo, x
<1>8. buf' \in [0..(INPUT_BUF - 1) -> Items]
  BY <1>1, <1>7 DEF Items
<1>9. ASSUME NEW i \in 1..(a + m)
      PROVE  buf'[Slot(r, i)] = buf[Slot(r, i)]
  <2>1. i \in Nat
    BY <1>2
  <2>2. Slot(r, i) \in 0..(INPUT_BUF - 1)
    BY <1>2, <2>1, SlotRange
  <2>3. ASSUME NEW k \in 0..(b - m) - 1 PROVE Cell(x + k) # Slot(r, i)
    <3>1. PICK h \in Nat : h = k + 1
      OBVIOUS
    <3>2. x + k = x + h - 1
      BY <1>4, <3>1, Sizes DEF Index
    <3>3. Cell(x + k) = Slot(x, h)
      BY <3>2 DEF Slot
    <3>4. Slot(x, h) = Slot(w, m + h)
      BY <1>1, <1>4, SlotAfter
    <3>5. PICK j \in Nat : j = m + h
      BY <3>1
    <3>6. Slot(w, j) = Slot(r, a + j)
      BY <1>1, SlotAfter
    <3>7. PICK g \in Nat : g = a + j
      BY <1>2, <3>5
    <3>8. i < g /\ g < i + INPUT_BUF
      <4> HIDE DEF a, b
      <4> QED
        BY <1>3, <1>1, <1>2, <2>1, <3>1, <3>5, <3>7, Sizes
    <3>9. Slot(r, i) # Slot(r, g)
      BY <1>2, <2>1, <3>8, SlotDistinct
    <3> QED
      BY <3>3, <3>4, <3>5, <3>6, <3>7, <3>9
  <2> QED
    BY <1>7, <2>2, <2>3
<1>10. \A i \in 1..a : buf'[Slot(r, i)] = buf[Slot(r, i)]
  BY <1>2, <1>9
<1>11. ASSUME NEW i \in 1..m PROVE buf'[Slot(w, i)] = buf[Slot(w, i)]
  <2>1. i \in Nat /\ a + i \in 1..(a + m)
    BY <1>2
  <2>2. Slot(w, i) = Slot(r, a + i)
    BY <1>1, <2>1, SlotAfter
  <2> QED
    BY <1>9, <2>1, <2>2
<1>12. Diff(e', w') = m /\ Diff(w', r') = a
  BY <1>4, <1>7
<1>13. RingOK'
  <2>1. InOrder(r, w, e)'
    <3>1. a + m <= INPUT_BUF
      <4> HIDE DEF a, b
      <4> QED
        BY <1>3, <1>1, <1>2, Sizes
    <3> QED
      BY <1>1, <1>4, <1>7, <1>12, <3>1 DEF InOrder, Diff
  <2>2. \A i \in 1..m : buf'[Slot(w, i)] # "newline"
    BY <1>2, <1>11 DEF RingOK
  <2> QED
    BY <1>8, <1>12, <2>1, <2>2 DEF RingOK, Slot, Cell
<1>14. Typed(r, w)' = Typed(r, w)
  <2>1. Typed(r, w)' = Line(buf', r, w)
    BY DEF Typed, Line, Slot, Cell, Diff
  <2>2. Line(buf', r, w) = Line(buf, r, w)
    BY <1>1, <1>8, <1>10, SameLine
  <2> QED
    BY <2>1, <2>2, TypedIs
<1>15. Typed(w, e)' = SubSeq(Typed(w, e), 1, m)
  <2> DEFINE s == Line(buf, w, e)
             t == Line(buf', w, x)
  <2>1. Typed(w, e)' = t
    BY <1>7 DEF Typed, Line, Slot, Cell, Diff
  <2>2. s \in Seq(Items) /\ Len(s) = b /\ \A i \in 1..b : s[i] = buf[Slot(w, i)]
    BY <1>1, LineIs
  <2>3. t \in Seq(Items) /\ Len(t) = m /\ \A i \in 1..m : t[i] = buf'[Slot(w, i)]
    BY <1>1, <1>4, <1>8, LineIs
  <2> HIDE DEF s, t, a, b
  <2>4. SubSeq(s, 1, m) \in Seq(Items) /\ Len(SubSeq(s, 1, m)) = m
    BY <1>2, <2>2 DEF b
  <2>5. \A i \in 1..m : SubSeq(s, 1, m)[i] = s[i] /\ i \in 1..b
    BY <1>2, <2>2 DEF b
  <2>6. \A i \in 1..m : t[i] = SubSeq(s, 1, m)[i]
    BY <1>11, <2>2, <2>3, <2>5
  <2>7. t = SubSeq(s, 1, m)
    BY <2>3, <2>4, <2>6, EqualSeq
  <2> QED
    BY <2>1, <2>7, TypedIs DEF s
<1> QED
  BY <1>13, <1>14, <1>15

\* The cell of an index that has wrapped around.
LEMMA CellWraps ==
  ASSUME NEW a \in Int
  PROVE  Cell(a % WRAP) = Cell(a)
<1>1. PICK o \in Int : o = 0
  OBVIOUS
<1>2. ((a % WRAP) + o) % INPUT_BUF = (a + o) % INPUT_BUF
  BY ModOfMod, Sizes
<1>3. a % WRAP \in Int
  BY ModRange, Sizes
<1>4. (a % WRAP) + o = a % WRAP /\ a + o = a
  BY <1>1, <1>3
<1> QED
  BY <1>2, <1>4 DEF Cell

\* ^U erases the whole line: there is no newline in it to stop at.
LEMMA KillToIs ==
  ASSUME RingOK
  PROVE  KillTo = w
<1> DEFINE S == {(w + k) % WRAP : k \in 0..Diff(e, w)}
           Stop(x) == /\ x = w \/ buf[Cell(Pred(x))] = "newline"
                      /\ \A k \in 0..Diff(e, x) - 1 : buf[Cell(x + k)] # "newline"
<1>1. /\ w \in Index /\ e \in Index /\ w \in Nat /\ w < WRAP
      /\ Diff(e, w) \in Nat /\ Diff(e, w) < WRAP
      /\ \A i \in 1..Diff(e, w) : buf[Slot(w, i)] # "newline"
  BY DiffIs, Sizes DEF RingOK, InOrder, Index
<1>2. w \in S
  <2>1. w + 0 = w /\ w % WRAP = w /\ 0 \in 0..Diff(e, w)
    BY <1>1, Sizes, ModSmall
  <2> QED
    BY <2>1
<1>3. Stop(w)
  <2>1. ASSUME NEW k \in 0..Diff(e, w) - 1 PROVE buf[Cell(w + k)] # "newline"
    <3>1. k + 1 \in 1..Diff(e, w) /\ w + (k + 1) - 1 = w + k
      BY <1>1
    <3> QED
      BY <1>1, <3>1 DEF Slot
  <2> QED
    BY <2>1
<1>4. ASSUME NEW x \in S, Stop(x) PROVE x = w
  <2>1. PICK k \in 0..Diff(e, w) : x = (w + k) % WRAP
    OBVIOUS
  <2>2. CASE k = 0
    BY <1>1, <2>1, <2>2, Sizes, ModSmall
  <2>3. CASE k # 0
    <3>1. k \in 1..Diff(e, w) /\ k \in Nat /\ w + k \in Int
      BY <1>1, <2>3
    <3>2. Cell(Pred(x)) = Slot(w, k)
      <4>1. PICK u \in Int, v \in Int, g \in Int, h \in Int :
               u = WRAP - 1 /\ v = w + k /\ g = v + u /\ h = v - 1
        BY <1>1, <3>1, Sizes
      <4>2. x \in Int /\ (x + u) % WRAP = g % WRAP
        <5>1. WRAP % WRAP = 0 /\ x = v % WRAP
          BY <2>1, <4>1, Sizes
        <5>2. ((v % WRAP) + u) % WRAP = (v + u) % WRAP
          BY <5>1, ModOfMod, Sizes
        <5>3. v % WRAP \in Int
          BY ModRange, Sizes
        <5> QED
          BY <4>1, <5>1, <5>2, <5>3
      <4>3. Pred(x) = g % WRAP
        <5>1. x + WRAP - 1 = x + u
          BY <4>1, <4>2, Sizes
        <5> QED
          BY <4>2, <5>1 DEF Pred
      <4>4. Cell(g % WRAP) = Cell(g)
        BY CellWraps
      <4>5. g % INPUT_BUF = h % INPUT_BUF
        <5>1. PICK m \in Int : WRAP = m * INPUT_BUF + (WRAP % INPUT_BUF)
          <6>1. WRAP \in Int
            BY Sizes
          <6> QED
            BY <6>1, ModQuotient, Sizes
        <5>2. g = h + m * INPUT_BUF
          <6>1. m * INPUT_BUF \in Int
            BY Sizes
          <6> QED
            BY <4>1, <5>1, <6>1, Sizes
        <5> QED
          BY <5>2, ModAdd, Sizes
      <4> QED
        <5>1. h = w + k - 1
          BY <1>1, <3>1, <4>1
        <5> QED
          BY <4>3, <4>4, <4>5, <5>1 DEF Slot, Cell
    <3> QED
      BY <1>1, <1>4, <3>1, <3>2
  <2> QED
    BY <2>2, <2>3
<1>5. KillTo = CHOOSE x \in S : Stop(x)
  BY DEF KillTo
<1> HIDE DEF S, Stop
<1> QED
  BY <1>2, <1>3, <1>4, <1>5

\* Buffers C and B agree between indices x and y.
Agree(C, B, x, y) == \A i \in 1..Diff(y, x) : C[Slot(x, i)] = B[Slot(x, i)]

\* A line that has grown by one character.
LEMMA LineGrows ==
  ASSUME NEW B \in [0..(INPUT_BUF - 1) -> Items], NEW C \in [0..(INPUT_BUF - 1) -> Items],
         NEW x \in Index, NEW y \in Index, Diff(y, x) < INPUT_BUF, Agree(C, B, x, y)
  PROVE  /\ Diff((y + 1) % WRAP, x) = Diff(y, x) + 1
         /\ Line(C, x, (y + 1) % WRAP) = Append(Line(B, x, y), C[Cell(y)])
<1> DEFINE z == (y + 1) % WRAP
           d == Diff(y, x)
           ch == C[Cell(y)]
<1>1. z \in Index /\ Diff(z, y) = 1
  <2>1. 1 \in Nat /\ 1 < WRAP
    BY Sizes
  <2> QED
    BY <2>1, Ahead
<1> HIDE DEF z
<1>2. d \in Nat /\ x \in Nat /\ y \in Nat
  BY DiffIs, Sizes DEF Index
<1>3. InOrder(x, y, z)
  BY <1>1, <1>2, Sizes DEF InOrder
<1>4. Diff(z, x) = d + 1
  BY <1>1, <1>3, Order
<1>5. C[Slot(x, d + 1)] = ch
  <2>1. y + 1 - 1 = y
    BY <1>2
  <2>2. Slot(y, 1) = Slot(x, d + 1)
    BY SlotAfter
  <2> QED
    BY <2>1, <2>2 DEF Slot
<1> DEFINE s == Line(B, x, y)
           t == Line(C, x, z)
<1>6. s \in Seq(Items) /\ Len(s) = d /\ \A i \in 1..d : s[i] = B[Slot(x, i)]
  BY LineIs
<1>7. t \in Seq(Items) /\ Len(t) = d + 1 /\ \A i \in 1..(d + 1) : t[i] = C[Slot(x, i)]
  <2>1. /\ t \in Seq(Items) /\ Len(t) = Diff(z, x)
        /\ \A i \in 1..Diff(z, x) : t[i] = C[Slot(x, i)]
    BY <1>1, LineIs
  <2> QED
    BY <1>4, <2>1
<1>8. ch \in Items /\ \A i \in 1..d : C[Slot(x, i)] = B[Slot(x, i)]
  <2>1. Cell(y) \in 0..(INPUT_BUF - 1)
    BY <1>2, ModRange, Sizes DEF Cell
  <2> QED
    BY <2>1 DEF Agree
<1> HIDE DEF s, t, d, ch
<1>9. t[d + 1] = ch /\ \A i \in 1..d : t[i] = s[i]
  BY <1>2, <1>5, <1>6, <1>7, <1>8
<1>10. t = Append(s, ch)
  <2>1. Append(s, ch) \in Seq(Items) /\ Len(Append(s, ch)) = d + 1
    BY <1>6, <1>8
  <2>2. \A i \in 1..(d + 1) : t[i] = Append(s, ch)[i]
    BY <1>2, <1>6, <1>8, <1>9
  <2> QED
    BY <1>7, <2>1, <2>2, EqualSeq
<1> QED
  BY <1>1, <1>4, <1>10 DEF s, t, d, z, ch

\* The characters between three indices.
LEMMA LineConcat ==
  ASSUME NEW B \in [0..(INPUT_BUF - 1) -> Items], NEW x, NEW y, NEW z, InOrder(x, y, z)
  PROVE  Line(B, x, z) = Line(B, x, y) \o Line(B, y, z)
<1> DEFINE d == Diff(y, x)
           f == Diff(z, y)
           s == Line(B, x, y)
           t == Line(B, y, z)
           u == Line(B, x, z)
<1>1. /\ x \in Index /\ y \in Index /\ z \in Index
      /\ d \in Nat /\ f \in Nat /\ Diff(z, x) = d + f
  BY Order DEF InOrder
<1>2. s \in Seq(Items) /\ Len(s) = d /\ \A i \in 1..d : s[i] = B[Slot(x, i)]
  BY <1>1, LineIs
<1>3. t \in Seq(Items) /\ Len(t) = f /\ \A i \in 1..f : t[i] = B[Slot(y, i)]
  BY <1>1, LineIs
<1>4. u \in Seq(Items) /\ Len(u) = d + f /\ \A i \in 1..(d + f) : u[i] = B[Slot(x, i)]
  <2>1. /\ u \in Seq(Items) /\ Len(u) = Diff(z, x)
        /\ \A i \in 1..Diff(z, x) : u[i] = B[Slot(x, i)]
    BY <1>1, LineIs
  <2> QED
    BY <1>1, <2>1
<1>5. \A i \in Nat : Slot(y, i) = Slot(x, d + i)
  BY <1>1, SlotAfter
<1> HIDE DEF s, t, u, d, f
<1>6. s \o t \in Seq(Items) /\ Len(s \o t) = d + f
  BY <1>2, <1>3
<1>7. ASSUME NEW i \in 1..(d + f) PROVE u[i] = (s \o t)[i]
  <2>1. CASE i \in 1..d
    <3>1. (s \o t)[i] = s[i]
      BY <1>1, <1>2, <1>3, <2>1
    <3> QED
      BY <1>2, <1>4, <2>1, <3>1
  <2>2. CASE i \in (d + 1)..(d + f)
    <3>1. PICK j \in 1..f : i = d + j
      <4>1. i - d \in 1..f /\ i = d + (i - d)
        BY <1>1, <2>2
      <4> QED
        BY <4>1
    <3>2. (s \o t)[i] = t[j]
      BY <1>1, <1>2, <1>3, <3>1
    <3>3. j \in Nat
      BY <1>1
    <3> QED
      BY <1>3, <1>4, <1>5, <3>1, <3>2, <3>3
  <2>3. i \in 1..d \/ i \in (d + 1)..(d + f)
    BY <1>1
  <2> QED
    BY <2>1, <2>2, <2>3
<1>8. u = s \o t
  BY <1>4, <1>6, <1>7, EqualSeq
<1> QED
  BY <1>8 DEF s, t, u

\* What waits is what can be read, then the line that is typed.
LEMMA Waiting ==
  ASSUME RingOK
  PROVE  Line(buf, r, e) = Line(buf, r, w) \o Line(buf, w, e)
<1>1. buf \in [0..(INPUT_BUF - 1) -> Items] /\ InOrder(r, w, e)
  BY DEF RingOK
<1> QED
  BY <1>1, LineConcat

\* A character is typed.
LEMMA PutStep ==
  ASSUME RingOK, NEW c, NEW ch \in {"a", "newline", "eof"}, Room, Put(c, ch), r' = r
  PROVE  RingOK' /\ L!Type(ch)
<1> DEFINE a == Diff(w, r)
           b == Diff(e, w)
           x == (e + 1) % WRAP
           ends == ch \in {"newline", "eof"} \/ a + b + 1 = INPUT_BUF
<1>1. /\ buf \in [0..(INPUT_BUF - 1) -> Items] /\ InOrder(r, w, e) /\ ch \in Items
      /\ r \in Index /\ w \in Index /\ e \in Index
      /\ \A i \in 1..b : buf[Slot(w, i)] # "newline"
  BY DEF RingOK, InOrder, Items, CharType
<1>2. /\ a \in Nat /\ b \in Nat /\ Diff(e, r) = a + b /\ a + b < INPUT_BUF
      /\ r \in Nat /\ w \in Nat /\ e \in Nat
  BY <1>1, Order, Sizes DEF Index, Room
<1>3. x \in Index /\ Diff(x, e) = 1
  <2>1. 1 \in Nat /\ 1 < WRAP
    BY Sizes
  <2> QED
    BY <1>1, <2>1, Ahead
<1>4. Diff(x, r) = a + b + 1
  <2>1. InOrder(r, e, x)
    <3> HIDE DEF x, a, b
    <3> QED
      BY <1>1, <1>2, <1>3, Sizes DEF InOrder
  <2> QED
    BY <1>2, <1>3, <2>1, Order
<1>5. Diff(e + 1, r) = a + b + 1
  <2>1. PICK u \in Int, v \in Int : u = e + 1 /\ v = WRAP - r
    BY <1>2, Sizes
  <2>2. WRAP % WRAP = 0 /\ u % WRAP \in Int
    BY ModRange, Sizes
  <2>3. ((u % WRAP) + v) % WRAP = (u + v) % WRAP
    BY <2>2, ModOfMod, Sizes
  <2>4. (u % WRAP) + WRAP - r = (u % WRAP) + v /\ e + 1 + WRAP - r = u + v
    BY <1>2, <2>1, <2>2, Sizes
  <2>5. Diff(e + 1, r) = Diff(x, r)
    BY <2>1, <2>3, <2>4 DEF Diff
  <2> QED
    BY <1>4, <2>5
<1>6. /\ e' = x /\ buf' = [buf EXCEPT ![Cell(e)] = ch]
      /\ w' = IF ends THEN x ELSE w
  BY <1>5 DEF Put
<1> HIDE DEF x
<1>7. Cell(e) \in 0..(INPUT_BUF - 1)
  BY <1>2, ModRange, Sizes DEF Cell
<1>8. buf' \in [0..(INPUT_BUF - 1) -> Items] /\ buf'[Cell(e)] = ch
  BY <1>1, <1>6, <1>7
<1>9. ASSUME NEW i \in 1..(a + b) PROVE buf'[Slot(r, i)] = buf[Slot(r, i)]
  <2>1. i \in Nat
    BY <1>2
  <2>2. Slot(r, i) \in 0..(INPUT_BUF - 1)
    BY <1>2, <2>1, SlotRange
  <2>3. e + 1 - 1 = e
    BY <1>2
  <2>4. Slot(e, 1) = Slot(r, Diff(e, r) + 1)
    BY <1>1, SlotAfter
  <2>5. PICK g \in Nat : g = a + b + 1
    BY <1>2
  <2>6. Cell(e) = Slot(r, g)
    BY <1>2, <2>3, <2>4, <2>5 DEF Slot
  <2>7. i < g /\ g < i + INPUT_BUF
    <3> HIDE DEF a, b
    <3> QED
      BY <1>2, <2>1, <2>5, Sizes
  <2>8. Slot(r, i) # Slot(r, g)
    BY <1>2, <2>1, <2>7, SlotDistinct
  <2> QED
    BY <1>1, <1>6, <2>2, <2>6, <2>8
<1>10. \A i \in 1..a : buf'[Slot(r, i)] = buf[Slot(r, i)]
  BY <1>2, <1>9
<1>11. ASSUME NEW i \in 1..b PROVE buf'[Slot(w, i)] = buf[Slot(w, i)]
  <2>1. i \in Nat /\ a + i \in 1..(a + b)
    BY <1>2
  <2>2. Slot(w, i) = Slot(r, a + i)
    BY <1>1, <2>1, SlotAfter
  <2> QED
    BY <1>9, <2>1, <2>2
<1>12. PICK B \in [0..(INPUT_BUF - 1) -> Items] : B = buf' /\ B[Cell(e)] = ch
  BY <1>8
<1>13. Diff(x, w) = b + 1 /\ Line(buf', w, x) = Append(Line(buf, w, e), ch)
  <2>1. Agree(B, buf, w, e)
    BY <1>11, <1>12 DEF Agree
  <2>2. Diff(e, w) < INPUT_BUF
    BY <1>2, Sizes
  <2>3. /\ Diff((e + 1) % WRAP, w) = Diff(e, w) + 1
        /\ Line(B, w, (e + 1) % WRAP) = Append(Line(buf, w, e), B[Cell(e)])
    BY <1>1, <2>1, <2>2, LineGrows
  <2> QED
    BY <1>12, <2>3 DEF x
<1>14. Line(buf', r, x) = Append(Line(buf, r, e), ch)
  <2>1. Agree(B, buf, r, e)
    BY <1>2, <1>9, <1>12 DEF Agree
  <2>2. Diff(e, r) < INPUT_BUF
    BY <1>2
  <2>3. Line(B, r, (e + 1) % WRAP) = Append(Line(buf, r, e), B[Cell(e)])
    BY <1>1, <2>1, <2>2, LineGrows
  <2> QED
    BY <1>12, <2>3 DEF x
<1> DEFINE s == Line(buf, r, w)
           t == Line(buf, w, e)
<1>15. s \in Seq(Items) /\ Len(s) = a /\ t \in Seq(Items) /\ Len(t) = b
  BY <1>1, LineIs
<1>16. L!Ends(ch) <=> ends
  BY <1>15, TypedIs DEF L!Ends
<1>17. Len(Typed(r, w)) + Len(Typed(w, e)) < INPUT_BUF
  BY <1>2, <1>15, TypedIs
<1>18. /\ Typed(r, w)' = Line(buf', r, w') /\ Typed(w, e)' = Line(buf', w', x)
  BY <1>6 DEF Typed, Line, Slot, Cell, Diff
<1> HIDE DEF a, b
<1>19. CASE ends
  <2>1. w' = x
    BY <1>6, <1>19
  <2>2. Diff(x, x) = 0
    <3>1. Diff(x, x) = x - x
      <4>1. x \in Nat /\ x <= x
        BY <1>3, Sizes DEF Index
      <4> QED
        BY <1>3, <4>1, DiffIs
    <3> QED
      BY <1>3, <3>1, Sizes DEF Index
  <2>3. Typed(w, e)' = <<>>
    BY <1>18, <2>1, <2>2 DEF Line
  <2>4. Line(buf, r, e) = s \o t
    BY Waiting
  <2>5. Typed(r, w)' = s \o Append(t, ch)
    <3> HIDE DEF s, t
    <3>1. Append(s \o t, ch) = s \o Append(t, ch)
      <4>1. /\ Append(s \o t, ch) \in Seq(Items) /\ Len(Append(s \o t, ch)) = a + b + 1
            /\ s \o Append(t, ch) \in Seq(Items) /\ Len(s \o Append(t, ch)) = a + b + 1
        BY <1>1, <1>2, <1>15
      <4>2. \A i \in 1..(a + b + 1) : Append(s \o t, ch)[i] = (s \o Append(t, ch))[i]
        BY <1>1, <1>2, <1>15
      <4> QED
        BY <4>1, <4>2, EqualSeq
    <3> QED
      BY <1>14, <1>18, <2>1, <2>4, <3>1
  <2>6. RingOK'
    <3>1. a + b + 1 <= INPUT_BUF /\ a + b + 1 + 0 = a + b + 1
      BY <1>2, Sizes
    <3>2. Diff(w', r') = a + b + 1 /\ Diff(e', w') = 0
      BY <1>4, <1>6, <2>1, <2>2
    <3>3. InOrder(r, w, e)'
      BY <1>1, <1>3, <1>6, <2>1, <3>1, <3>2 DEF InOrder, Diff
    <3> QED
      BY <1>8, <3>2, <3>3 DEF RingOK
  <2> QED
    BY <1>16, <1>17, <1>19, <2>3, <2>5, <2>6, TypedIs DEF L!Type
<1>20. CASE ~ends
  <2>1. w' = w /\ ch # "newline"
    BY <1>6, <1>20
  <2>2. Typed(r, w)' = s
    BY <1>1, <1>8, <1>10, <1>18, <2>1, SameLine DEF a
  <2>3. Typed(w, e)' = Append(t, ch)
    BY <1>13, <1>18, <2>1
  <2>4. RingOK'
    <3>1. a + (b + 1) <= INPUT_BUF
      BY <1>2, Sizes
    <3>2. Diff(w', r') = a /\ Diff(e', w') = b + 1
      BY <1>6, <1>13, <2>1 DEF a
    <3>3. InOrder(r, w, e)'
      BY <1>1, <1>3, <1>6, <2>1, <3>1, <3>2 DEF InOrder, Diff
    <3>4. buf'[Slot(w, b + 1)] # "newline"
      <4>1. Slot(e, 1) = Slot(w, b + 1) /\ e + 1 - 1 = e
        BY <1>1, <1>2, SlotAfter DEF b
      <4> QED
        BY <1>8, <2>1, <4>1 DEF Slot
    <3>5. \A i \in 1..(b + 1) : buf'[Slot(w, i)] # "newline"
      <4>1. \A i \in 1..b : buf'[Slot(w, i)] # "newline"
        BY <1>1, <1>11
      <4> QED
        BY <1>2, <3>4, <4>1
    <3> QED
      BY <1>8, <2>1, <3>2, <3>3, <3>5 DEF RingOK, Slot, Cell
  <2> QED
    BY <1>16, <1>17, <1>20, <2>2, <2>3, <2>4, TypedIs DEF L!Type
<1> QED
  BY <1>19, <1>20

\* A character is read.
LEMMA ReadStep ==
  ASSUME RingOK, r # w, r' = (r + 1) % WRAP, buf' = [buf EXCEPT ![Cell(r)] = NONE],
         w' = w, e' = e
  PROVE  RingOK' /\ L!Read
<1> DEFINE a == Diff(w, r)
           b == Diff(e, w)
           x == (r + 1) % WRAP
<1>1. /\ buf \in [0..(INPUT_BUF - 1) -> Items] /\ InOrder(r, w, e)
      /\ r \in Index /\ w \in Index /\ e \in Index /\ a + b <= INPUT_BUF
      /\ \A i \in 1..b : buf[Slot(w, i)] # "newline"
  BY DEF RingOK, InOrder
<1>2. /\ a \in Nat /\ b \in Nat /\ r \in Nat /\ w \in Nat
      /\ a = IF r <= w THEN w - r ELSE w + WRAP - r
  BY <1>1, DiffIs, Sizes DEF Index
<1>3. a # 0
  <2> HIDE DEF a
  <2> QED
    BY <1>1, <1>2, Sizes DEF Index
<1>4. x \in Index /\ Diff(x, r) = 1
  <2>1. 1 \in Nat /\ 1 < WRAP
    BY Sizes
  <2> QED
    BY <1>1, <2>1, Ahead
<1>5. Diff(w, x) = a - 1
  <2>1. /\ Diff(x, r) = (IF r <= x THEN x - r ELSE x + WRAP - r)
        /\ Diff(w, x) = (IF x <= w THEN w - x ELSE w + WRAP - x)
    BY <1>1, <1>4, DiffIs
  <2> HIDE DEF x, a
  <2> QED
    BY <1>1, <1>2, <1>3, <1>4, <2>1, Sizes DEF Index
<1> HIDE DEF x
<1>6. r' = x /\ r + 1 - 1 = r
  BY <1>2 DEF x
<1>7. buf' \in [0..(INPUT_BUF - 1) -> Items]
  <2>1. r \in Int
    BY <1>2
  <2>2. Cell(r) \in 0..(INPUT_BUF - 1)
    BY <2>1, ModRange, Sizes DEF Cell
  <2> QED
    BY <1>1, <2>2 DEF Items
<1>8. ASSUME NEW i \in 2..(a + b) PROVE buf'[Slot(r, i)] = buf[Slot(r, i)]
  <2>1. i \in Nat /\ 1 \in Nat /\ 1 < i /\ i < 1 + INPUT_BUF
    <3> HIDE DEF a, b
    <3> QED
      BY <1>1, <1>2, Sizes
  <2>2. Slot(r, i) \in 0..(INPUT_BUF - 1)
    BY <1>2, <2>1, SlotRange
  <2>3. Slot(r, 1) # Slot(r, i)
    BY <1>2, <2>1, SlotDistinct
  <2>4. Cell(r) # Slot(r, i)
    BY <1>6, <2>3 DEF Slot
  <2> QED
    BY <1>1, <2>2, <2>4
<1>9. ASSUME NEW i \in 1..(a - 1)
      PROVE  Slot(x, i) = Slot(r, i + 1) /\ buf'[Slot(x, i)] = buf[Slot(r, i + 1)]
  <2>1. i \in Nat /\ i + 1 \in 2..(a + b) /\ 1 + i = i + 1
    <3> HIDE DEF a, b
    <3> QED
      BY <1>2
  <2>2. Slot(x, i) = Slot(r, i + 1)
    BY <1>1, <1>4, <2>1, SlotAfter
  <2> QED
    BY <1>8, <2>1, <2>2
<1>10. ASSUME NEW i \in 1..b PROVE buf'[Slot(w, i)] = buf[Slot(w, i)]
  <2>1. i \in Nat /\ a + i \in 2..(a + b)
    <3> HIDE DEF a, b
    <3> QED
      BY <1>2, <1>3
  <2>2. Slot(w, i) = Slot(r, a + i)
    BY <1>1, <2>1, SlotAfter
  <2> QED
    BY <1>8, <2>1, <2>2
<1>11. RingOK'
  <2>1. (a - 1) + b <= INPUT_BUF
    <3> HIDE DEF a, b
    <3> QED
      BY <1>1, <1>2, Sizes
  <2>2. Diff(w', r') = a - 1 /\ Diff(e', w') = b
    BY <1>5, <1>6
  <2>3. InOrder(r, w, e)'
    BY <1>1, <1>4, <1>6, <2>1, <2>2 DEF InOrder, Diff
  <2>4. \A i \in 1..b : buf'[Slot(w, i)] # "newline"
    BY <1>1, <1>10
  <2> QED
    BY <1>7, <2>2, <2>3, <2>4 DEF RingOK, Slot, Cell
<1>12. Typed(w, e)' = Typed(w, e)
  <2>1. Typed(w, e)' = Line(buf', w, e)
    BY DEF Typed, Line, Slot, Cell, Diff
  <2>2. Line(buf', w, e) = Line(buf, w, e)
    BY <1>10 DEF Line
  <2> QED
    BY <2>1, <2>2, TypedIs
<1> DEFINE s == Line(buf, r, w)
           t == Line(buf', x, w)
<1>13. Typed(r, w)' = t
  BY <1>6 DEF Typed, Line, Slot, Cell, Diff
<1>14. s \in Seq(Items) /\ Len(s) = a /\ \A i \in 1..a : s[i] = buf[Slot(r, i)]
  BY <1>1, LineIs
<1>15. t \in Seq(Items) /\ Len(t) = a - 1 /\ \A i \in 1..(a - 1) : t[i] = buf'[Slot(x, i)]
  <2>1. /\ t \in Seq(Items) /\ Len(t) = Diff(w, x)
        /\ \A i \in 1..Diff(w, x) : t[i] = buf'[Slot(x, i)]
    <3>1. PICK B \in [0..(INPUT_BUF - 1) -> Items] : B = buf'
      BY <1>7
    <3>2. /\ Line(B, x, w) \in Seq(Items) /\ Len(Line(B, x, w)) = Diff(w, x)
          /\ \A i \in 1..Diff(w, x) : Line(B, x, w)[i] = B[Slot(x, i)]
      BY <1>1, <1>4, LineIs
    <3> QED
      BY <3>1, <3>2
  <2> QED
    BY <1>5, <2>1
<1> HIDE DEF s, t, a, b
<1>16. s # <<>> /\ Tail(s) \in Seq(Items) /\ Len(Tail(s)) = a - 1
       /\ \A i \in 1..(a - 1) : Tail(s)[i] = s[i + 1] /\ i + 1 \in 1..a
  BY <1>2, <1>3, <1>14
<1>17. \A i \in 1..(a - 1) : t[i] = Tail(s)[i]
  BY <1>9, <1>14, <1>15, <1>16
<1>18. t = Tail(s)
  BY <1>15, <1>16, <1>17, EqualSeq
<1> QED
  BY <1>11, <1>12, <1>13, <1>16, <1>18, TypedIs DEF L!Read, s

\* The index before e, when a line is typed.
LEMMA PredIs ==
  ASSUME RingOK, e # w
  PROVE  \E m \in Nat : m + 1 = Diff(e, w) /\ Pred(e) = (w + m) % WRAP
<1>1. w \in Index /\ e \in Index /\ w \in Nat /\ e \in Nat
  BY Sizes DEF RingOK, InOrder, Index
<1>2. PICK b \in Nat : b = Diff(e, w)
  BY <1>1, DiffIs
<1>3. b = (IF w <= e THEN e - w ELSE e + WRAP - w) /\ e = (w + b) % WRAP
  BY <1>1, <1>2, DiffIs, AheadOf
<1>4. b # 0
  BY <1>1, <1>3, Sizes DEF Index
<1>5. PICK m \in Nat : m + 1 = b
  <2>1. b - 1 \in Nat /\ (b - 1) + 1 = b
    BY <1>4
  <2> QED
    BY <2>1
<1>6. PICK u \in Int, v \in Int, g \in Int : u = w + b /\ v = WRAP - 1 /\ g = w + m
  BY <1>1, Sizes
<1>7. ((u % WRAP) + v) % WRAP = (u + v) % WRAP
  <2>1. WRAP % WRAP = 0
    BY Sizes
  <2> QED
    BY <2>1, ModOfMod, Sizes
<1>8. (g + 1 * WRAP) % WRAP = g % WRAP
  <2>1. PICK k \in Int : k = 1
    OBVIOUS
  <2>2. (g + k * WRAP) % WRAP = g % WRAP
    BY ModAdd, Sizes
  <2> QED
    BY <2>1, <2>2
<1>9. u + v = g + 1 * WRAP /\ e + WRAP - 1 = e + v
  BY <1>1, <1>5, <1>6, Sizes
<1>10. Pred(e) = (u + v) % WRAP
  BY <1>3, <1>6, <1>7, <1>9 DEF Pred
<1>11. Pred(e) = (w + m) % WRAP
  BY <1>6, <1>8, <1>9, <1>10
<1> QED
  BY <1>2, <1>5, <1>11

\* A step that leaves the buffer alone.
LEMMA InputSame ==
  ASSUME RingOK, UNCHANGED input
  PROVE  RingOK' /\ UNCHANGED L!vars
<1>1. UNCHANGED <<buf, r, w, e>>
  BY DEF input
<1> QED
  BY <1>1 DEF RingOK, InOrder, Diff, Slot, Cell, L!vars, Typed

\* A line is cut.
LEMMA EraseRefines ==
  ASSUME RingOK, NEW m \in Nat, m <= Diff(e, w), m = 0 \/ m + 1 = Diff(e, w),
         EraseTo((w + m) % WRAP), r' = r, w' = w
  PROVE  RingOK' /\ L!Next
<1>1. RingOK' /\ Typed(r, w)' = Typed(r, w) /\ Typed(w, e)' = SubSeq(Typed(w, e), 1, m)
  BY EraseStep
<1>2. L!Erase(m)
  BY <1>1 DEF L!Erase
<1>3. Len(Typed(w, e)) = Diff(e, w) /\ Diff(e, w) \in Nat
  <2>1. buf \in [0..(INPUT_BUF - 1) -> Items] /\ w \in Index /\ e \in Index
    BY DEF RingOK, InOrder
  <2> QED
    BY <2>1, LineIs, DiffIs, TypedIs
<1>4. m \in {0, Len(Typed(w, e)) - 1} /\ m >= 0
  BY <1>3
<1> QED
  BY <1>1, <1>2, <1>4 DEF L!Next

\* Every step is one of the line editor or leaves the lines alone.
LEMMA InputNext ==
  ASSUME RingOK, [Next]_vars
  PROVE  RingOK' /\ [L!Next]_(L!vars)
<1>1. ASSUME UNCHANGED input PROVE RingOK' /\ [L!Next]_(L!vars)
  BY <1>1, InputSame
<1>2. ASSUME NEW c \in CPUs, NEW ch \in Chars, HandleChar(c, ch)
      PROVE  RingOK' /\ [L!Next]_(L!vars)
  <2>1. CASE UNCHANGED input
    BY <1>1, <2>1
  <2>2. CASE EraseTo(KillTo) /\ UNCHANGED <<r, w>>
    <3>1. 0 \in Nat /\ 0 <= Diff(e, w) /\ (w + 0) % WRAP = w
      <4>1. w \in Index /\ e \in Index /\ w \in 0..(WRAP - 1)
        BY DEF RingOK, InOrder, Index
      <4>2. Diff(e, w) \in Nat
        BY <4>1, DiffIs
      <4>3. w % WRAP = w
        BY <4>1, ModSmall, Sizes
      <4>4. w + 0 = w
        BY <4>1, Sizes
      <4> QED
        BY <4>2, <4>3, <4>4
    <3>2. EraseTo((w + 0) % WRAP)
      BY <2>2, <3>1, KillToIs
    <3>3. RingOK' /\ L!Next
      BY <2>2, <3>1, <3>2, EraseRefines
    <3> QED
      BY <3>3
  <2>3. CASE e # w /\ EraseTo(Pred(e)) /\ UNCHANGED <<r, w>>
    <3>1. PICK m \in Nat : m + 1 = Diff(e, w) /\ Pred(e) = (w + m) % WRAP
      BY <2>3, PredIs
    <3>2. m <= Diff(e, w) /\ EraseTo((w + m) % WRAP)
      BY <2>3, <3>1
    <3>3. RingOK' /\ L!Next
      BY <2>3, <3>1, <3>2, EraseRefines
    <3> QED
      BY <3>3
  <2>4. CASE ch \in {"a", "newline", "eof"} /\ Room /\ Put(c, ch) /\ UNCHANGED r
    <3>1. RingOK' /\ L!Type(ch)
      BY <2>4, PutStep
    <3>2. L!Next
      BY <2>4, <3>1 DEF L!Next
    <3> QED
      BY <3>1, <3>2
  <2> QED
    BY <1>2, <2>1, <2>2, <2>3, <2>4 DEF HandleChar
<1>3. ASSUME NEW c \in CPUs, ReadChar(c) PROVE RingOK' /\ [L!Next]_(L!vars)
  <2>1. CASE UNCHANGED <<buf, r>>
    <3>1. UNCHANGED input
      BY <1>3, <2>1 DEF ReadChar, input
    <3> QED
      BY <1>1, <3>1
  <2>2. CASE r' = (r + 1) % WRAP /\ buf' = [buf EXCEPT ![Cell(r)] = NONE]
    <3>1. r # w /\ w' = w /\ e' = e
      BY <1>3 DEF ReadChar
    <3>2. RingOK' /\ L!Read
      BY <2>2, <3>1, ReadStep
    <3>3. L!Next
      BY <3>2 DEF L!Next
    <3> QED
      BY <3>2, <3>3
  <2> QED
    BY <1>3, <2>1, <2>2 DEF ReadChar
<1>4. CASE UNCHANGED vars
  BY <1>1, <1>4 DEF vars
<1>5. ASSUME NEW c \in CPUs,
             \/ Acquire(c) \/ Interrupt(c) \/ Wakeup(c) \/ HandleEnd(c) \/ DumpEnd(c) \/ Iret(c)
             \/ \E p \in Procs : Choose(c, p) \/ Kill(c, p)
             \/ Sti(c) \/ Printed(c) \/ Dispatch(c) \/ ScanEnd(c) \/ Tick(c)
             \/ \E l \in {"read", "write", "kill"}, len \in Lengths : Begin(c, l, len)
             \/ ReadWait(c) \/ ReadEnd(c) \/ Sleep(c) \/ Yield(c) \/ Resume(c) \/ WriteEnd(c)
      PROVE  RingOK' /\ [L!Next]_(L!vars)
  <2>1. UNCHANGED input
    BY <1>5 DEF Acquire, Interrupt, Wakeup, HandleEnd, DumpEnd, Iret, Choose, Kill, Sti, Printed,
         Dispatch, ScanEnd, Tick, Begin, ReadWait, ReadEnd, Sleep, Yield, Resume, WriteEnd, Release
  <2> QED
    BY <1>1, <2>1
<1> QED
  BY <1>2, <1>3, <1>4, <1>5 DEF Next

\* The buffer is empty at first.
LEMMA InputInit ==
  ASSUME Init
  PROVE  RingOK /\ L!Init
<1>1. buf = [i \in 0..INPUT_BUF - 1 |-> NONE] /\ r = 0 /\ w = 0 /\ e = 0
  BY DEF Init
<1>2. 0 \in Index
  BY Sizes DEF Index
<1>3. Diff(0, 0) = 0
  <2>1. Diff(0, 0) = IF 0 <= 0 THEN 0 - 0 ELSE 0 + WRAP - 0
    BY <1>2, DiffIs
  <2> QED
    BY <2>1
<1>4. Diff(w, r) = 0 /\ Diff(e, w) = 0
  BY <1>1, <1>3
<1>5. RingOK
  BY <1>1, <1>2, <1>4, Sizes DEF RingOK, InOrder, Items
<1>6. L!Init
  BY <1>4 DEF L!Init, Typed
<1> QED
  BY <1>5, <1>6

\* The ring of three unsigned indices, which wrap around, implements the
\* line editor for any size of the buffer that divides their range: lines
\* are read as they were typed and edited, backspace and ^U never touch an
\* ended line, and no more than INPUT_BUF characters wait.
THEOREM ConsoleIsLineInput == Spec => IsLineInput
<1>1. Init => RingOK /\ L!Init
  BY InputInit
<1>2. RingOK /\ [Next]_vars => RingOK' /\ [L!Next]_(L!vars)
  BY InputNext
<1> QED
  BY <1>1, <1>2, PTL DEF Spec, IsLineInput, L!Spec
=============================================================================
