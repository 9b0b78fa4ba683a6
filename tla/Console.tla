------------------------------ MODULE Console -------------------------------
(***************************************************************************)
(* The console (console.c) between the interrupt handler that fills the    *)
(* input buffer, the processes that read and write, and the scheduler,     *)
(* which prints while it holds ptable.lock.                                *)
(*                                                                         *)
(* A CPU runs its scheduler or a process, and on top of it the handler of  *)
(* an interrupt; an action is a step of what is on top, up to the next     *)
(* spin lock that it takes or releases.  Output needs the lock and leaves  *)
(* no state.                                                               *)
(***************************************************************************)
EXTENDS Spinlock, Sequences

CONSTANTS Procs,
          INPUT_BUF,
          WRAP,         \* the indices are unsigned: 2^32
          Chars,        \* what is typed, see CharType
          Lengths,      \* of reads
          NONE

CharType == {"a", "newline", "eof", "backspace", "killline", "dump"}

\* What runs besides the processes: the scheduler and the handler of each CPU.
Sched(c) == <<"sched", c>>
Intr(c)  == <<"intr", c>>
Threads  == Procs \cup {Sched(c) : c \in CPUs} \cup {Intr(c) : c \in CPUs}

ASSUME ConsoleAssumption ==
    /\ Locks = {"cons", "ptable"} /\ Chars \subseteq CharType
    /\ NONE \notin Procs \cup CharType /\ \A c \in CPUs : {Sched(c), Intr(c)} \cap Procs = {}
    /\ INPUT_BUF \in Nat \ {0} /\ WRAP \in Nat /\ WRAP % INPUT_BUF = 0 /\ WRAP > INPUT_BUF
    /\ Lengths \subseteq Nat \ {0}

VARIABLES
    buf, r, w, e,   \* input
    on,             \* the process that runs on each CPU, or NONE: the scheduler
    pc,             \* where each thread is
    dump,           \* doprocdump of the handler
    next,           \* the process that the scheduler has chosen
    saved,          \* intena in the frame of sched(), FALSE outside it
    state, killed,
    n, target       \* of consoleread()

input == <<buf, r, w, e>>
procs == <<state, killed>>
reads == <<n, target>>
vars  == <<spinvars, input, on, pc, dump, next, saved, procs, reads>>

\* What runs on c, and where it is.
Top(c) == IF pc[Intr(c)] # "none" THEN Intr(c) ELSE IF on[c] = NONE THEN Sched(c) ELSE on[c]
At(c, l)   == want[c] = FREE /\ pc[Top(c)] = l
Goto(c, l) == pc' = [pc EXCEPT ![Top(c)] = l]

\* Where a lock is acquired, which one, and where the thread goes on.
AcquireAt ==
    [read |-> "cons", reread |-> "cons", write |-> "cons", sleep |-> "ptable",
     yield |-> "ptable", kill |-> "ptable", sched |-> "ptable", print |-> "cons",
     handle |-> "cons", wakeup |-> "ptable", procdump |-> "cons"]
Then ==
    [read |-> "reading", reread |-> "reading", write |-> "writing", sleep |-> "sleeping",
     yield |-> "yielding", kill |-> "killing", sched |-> "choose", print |-> "printing",
     handle |-> "chars", wakeup |-> "waking", procdump |-> "dumping"]

Acquire(c) ==
    LET l == pc[Top(c)]
    IN /\ l \in DOMAIN AcquireAt
       /\ \/ Spin(c, AcquireAt[l]) /\ UNCHANGED pc
          \/ Take(c, AcquireAt[l]) /\ Goto(c, Then[l])
       /\ UNCHANGED <<input, on, dump, next, saved, procs, reads>>

\* release() of l from label a on to label b.
Release(c, l, a, b) ==
    /\ At(c, a)
    /\ release(c, l) /\ Goto(c, b)
    /\ UNCHANGED <<input, on, dump, next, saved, procs, reads>>

-----------------------------------------------------------------------------
(* consoleintr().  A cell of the buffer outside [r, e) is never read, and  *)
(* is cleared here.                                                        *)

\* An interrupt of the keyboard or the serial port.
Interrupt(c) ==
    /\ intr[c] /\ pc[Intr(c)] = "none"
    /\ intr' = [intr EXCEPT ![c] = FALSE]
    /\ pc' = [pc EXCEPT ![Intr(c)] = "handle"]
    /\ dump' = [dump EXCEPT ![c] = FALSE]
    /\ UNCHANGED <<lock, ncli, intena, want, panic, input, on, next, saved, procs, reads>>

\* Distance between two indices.
Diff(x, y) == (x + WRAP - y) % WRAP
Cell(x)    == x % INPUT_BUF
Pred(x)    == (x + WRAP - 1) % WRAP

\* Where ^U stops: at the write index or behind a newline.
KillTo == CHOOSE x \in {(w + k) % WRAP : k \in 0..Diff(e, w)} :
             /\ x = w \/ buf[Cell(Pred(x))] = "newline"
             /\ \A k \in 0..Diff(e, x) - 1 : buf[Cell(x + k)] # "newline"

EraseTo(x) ==
    /\ e' = x
    /\ buf' = [i \in 0..INPUT_BUF - 1 |->
                 IF \E k \in 0..Diff(e, x) - 1 : Cell(x + k) = i THEN NONE ELSE buf[i]]

\* Faulty: room is counted from the write index.
BadRoom == Diff(e, w) < INPUT_BUF

\* input.e - input.r < INPUT_BUF
Room == Diff(e, r) < INPUT_BUF

\* A character is put into the buffer; a line ends with it, or it is full.
Put(c, ch) ==
    LET full == Diff(e + 1, r) = INPUT_BUF
        ends == ch \in {"newline", "eof"} \/ full
    IN /\ e' = (e + 1) % WRAP
       /\ buf' = [buf EXCEPT ![Cell(e)] = ch]
       /\ w' = IF ends THEN (e + 1) % WRAP ELSE w
       /\ Goto(c, IF ends THEN "wakeup" ELSE "chars")

HandleChar(c, ch) ==
    /\ At(c, "chars")
    /\ \/ ch = "dump" /\ dump' = [dump EXCEPT ![c] = TRUE] /\ UNCHANGED <<input, pc>>
       \/ /\ ch = "killline"
          /\ EraseTo(KillTo)
          /\ UNCHANGED <<r, w, dump, pc>>
       \/ /\ ch = "backspace" /\ e # w
          /\ EraseTo(Pred(e))
          /\ UNCHANGED <<r, w, dump, pc>>
       \/ /\ ch \in {"a", "newline", "eof"} /\ Room
          /\ Put(c, ch)
          /\ UNCHANGED <<r, dump>>
    /\ UNCHANGED <<spinvars, on, next, saved, procs, reads>>

\* Faulty: only one process is woken.
BadWoken == LET S == {p \in Procs : state[p] = "SLEEPING"}
            IN IF S = {} THEN state ELSE [state EXCEPT ![CHOOSE p \in S : TRUE] = "RUNNABLE"]

\* wakeup(&input.r) under ptable.lock
Woken == [p \in Procs |-> IF state[p] = "SLEEPING" THEN "RUNNABLE" ELSE state[p]]
Wakeup(c) ==
    /\ At(c, "waking")
    /\ state' = Woken
    /\ release(c, "ptable") /\ Goto(c, "chars")
    /\ UNCHANGED <<input, on, dump, next, saved, killed, reads>>

\* getc() returns -1; procdump() prints.
HandleEnd(c) == Release(c, "cons", "chars", IF dump[c] THEN "procdump" ELSE "iret")
DumpEnd(c)   == Release(c, "cons", "dumping", "iret")

\* trapret, at the end of a handler and of yield() in trap().
Iret(c) ==
    /\ At(c, "iret")
    /\ intr' = [intr EXCEPT ![c] = TRUE]
    /\ Goto(c, IF Top(c) = Intr(c) THEN "none" ELSE "user")
    /\ UNCHANGED <<lock, ncli, intena, want, panic, input, on, dump, next, saved, procs, reads>>

-----------------------------------------------------------------------------
(* The scheduler.                                                          *)

\* sti() at the top of the loop.
Sti(c) ==
    /\ At(c, "loop")
    /\ intr' = [intr EXCEPT ![c] = TRUE]
    /\ Goto(c, "sched")
    /\ UNCHANGED <<lock, ncli, intena, want, panic, input, on, dump, next, saved, procs, reads>>

\* A process is chosen and the scheduler prints its name.
Choose(c, p) ==
    /\ At(c, "choose") /\ state[p] = "RUNNABLE"
    /\ next' = [next EXCEPT ![c] = p]
    /\ Goto(c, "print")
    /\ UNCHANGED <<spinvars, input, on, dump, saved, procs, reads>>

Printed(c) == Release(c, "cons", "printing", "swtch")

\* Faulty: the CPU keeps the flag of whoever ran before.
BadRestored(c, p) == intena[c]

\* mycpu()->intena when swtch() has returned in p; a new process has no
\* sched() to return to.
Restored(c, p) == IF pc[p] = "born" THEN intena[c] ELSE saved[p]

Dispatch(c) ==
    /\ At(c, "swtch")
    /\ on' = [on EXCEPT ![c] = next[c]]
    /\ state' = [state EXCEPT ![next[c]] = "RUNNING"]
    /\ next' = [next EXCEPT ![c] = NONE]
    /\ intena' = [intena EXCEPT ![c] = Restored(c, next[c])]
    /\ saved' = [saved EXCEPT ![next[c]] = FALSE]
    /\ Goto(c, "choose")
    /\ UNCHANGED <<lock, intr, ncli, want, panic, input, dump, killed, reads>>

ScanEnd(c) == Release(c, "ptable", "choose", "loop")

\* sched(): the process of c is in state s and will go on at l.
Switch(c, s, l) ==
    /\ state' = [state EXCEPT ![on[c]] = s]
    /\ on' = [on EXCEPT ![c] = NONE]
    /\ pc' = [pc EXCEPT ![on[c]] = l]
    /\ saved' = [saved EXCEPT ![on[c]] = intena[c]]

-----------------------------------------------------------------------------
(* Processes.                                                              *)

\* A process reads, writes to the console or kills another.
Begin(c, l, len) ==
    /\ At(c, "user") /\ ~killed[on[c]]
    /\ IF l = "read" THEN /\ n' = [n EXCEPT ![on[c]] = len]
                          /\ target' = [target EXCEPT ![on[c]] = len]
                     ELSE UNCHANGED reads
    /\ Goto(c, l)
    /\ UNCHANGED <<spinvars, input, on, dump, next, saved, procs>>

\* consoleread() takes a character, or puts ^D back.
ReadChar(c) ==
    LET p == on[c]
        ch == buf[Cell(r)]
        back == ch = "eof" /\ n[p] < target[p]
    IN /\ At(c, "reading") /\ n[p] > 0 /\ r # w
       /\ IF back THEN UNCHANGED <<buf, r>>
                  ELSE /\ r' = (r + 1) % WRAP
                       /\ buf' = [buf EXCEPT ![Cell(r)] = NONE]
       /\ n' = [n EXCEPT ![p] = IF ch = "eof" THEN @ ELSE @ - 1]
       /\ Goto(c, IF ch \in {"eof", "newline"} \/ n[p] = 1 THEN "read end" ELSE "reading")
       /\ UNCHANGED <<spinvars, w, e, on, dump, next, saved, procs, target>>

\* The buffer is empty: sleep(), or return if killed.
ReadWait(c) ==
    /\ At(c, "reading") /\ n[on[c]] > 0 /\ r = w
    /\ Goto(c, IF killed[on[c]] THEN "read end" ELSE "sleep")
    /\ UNCHANGED <<spinvars, input, on, dump, next, saved, procs, reads>>

ReadEnd(c) ==
    /\ At(c, "read end")
    /\ release(c, "cons") /\ Goto(c, "user")
    /\ n' = [n EXCEPT ![on[c]] = 0]
    /\ target' = [target EXCEPT ![on[c]] = 0]
    /\ UNCHANGED <<input, on, dump, next, saved, procs>>

\* sleep() with ptable.lock: release cons.lock and switch.
Sleep(c) ==
    /\ At(c, "sleeping")
    /\ release(c, "cons")
    /\ Switch(c, "SLEEPING", "woken")
    /\ UNCHANGED <<input, dump, next, killed, reads>>

\* The clock interrupts a process in user space, and trap() calls yield().
Tick(c) ==
    /\ At(c, "user")
    /\ intr' = [intr EXCEPT ![c] = FALSE]
    /\ Goto(c, "yield")
    /\ UNCHANGED <<lock, ncli, intena, want, panic, input, on, dump, next, saved, procs, reads>>

\* yield(); a process that is killed exits here, and another takes its place.
Yield(c) ==
    /\ At(c, "yielding")
    /\ Switch(c, "RUNNABLE", IF killed[on[c]] THEN "born" ELSE "yielded")
    /\ killed' = [killed EXCEPT ![on[c]] = FALSE]
    /\ UNCHANGED <<spinvars, input, dump, next, reads>>

Resume(c) == \/ Release(c, "ptable", "woken", "reread")
             \/ Release(c, "ptable", "yielded", "iret")
             \/ Release(c, "ptable", "born", "iret")

WriteEnd(c) == Release(c, "cons", "writing", "user")

\* kill() of process p
Kill(c, p) ==
    /\ At(c, "killing")
    /\ killed' = [killed EXCEPT ![p] = TRUE]
    /\ state' = [state EXCEPT ![p] = IF @ = "SLEEPING" THEN "RUNNABLE" ELSE @]
    /\ release(c, "ptable") /\ Goto(c, "user")
    /\ UNCHANGED <<input, on, dump, next, saved, reads>>

-----------------------------------------------------------------------------
Init ==
    /\ SpinInit(FALSE)
    /\ buf = [i \in 0..INPUT_BUF - 1 |-> NONE] /\ r = 0 /\ w = 0 /\ e = 0
    /\ on = [c \in CPUs |-> NONE]
    /\ pc = [t \in Threads |-> IF t \in Procs THEN "born"
                               ELSE IF t[1] = "sched" THEN "loop" ELSE "none"]
    /\ dump = [c \in CPUs |-> FALSE] /\ next = [c \in CPUs |-> NONE]
    /\ saved = [p \in Procs |-> FALSE]
    /\ state = [p \in Procs |-> "RUNNABLE"] /\ killed = [p \in Procs |-> FALSE]
    /\ n = [p \in Procs |-> 0] /\ target = n

Next == \E c \in CPUs :
    \/ Acquire(c) \/ Interrupt(c) \/ Wakeup(c) \/ HandleEnd(c) \/ DumpEnd(c) \/ Iret(c)
    \/ \E ch \in Chars : HandleChar(c, ch)
    \/ \E p \in Procs : Choose(c, p) \/ Kill(c, p)
    \/ Sti(c) \/ Printed(c) \/ Dispatch(c) \/ ScanEnd(c) \/ Tick(c)
    \/ \E l \in {"read", "write", "kill"}, len \in Lengths : Begin(c, l, len)
    \/ ReadChar(c) \/ ReadWait(c) \/ ReadEnd(c) \/ Sleep(c) \/ Yield(c) \/ Resume(c)
    \/ WriteEnd(c)

Spec == Init /\ [][Next]_vars

-----------------------------------------------------------------------------
(* Properties                                                              *)

\* Locks and the masking of interrupts match: a CPU that holds or awaits a
\* lock, or is in a handler, takes no interrupt; a process in a system call
\* gets interrupts back with its last release, although it slept with
\* ptable.lock and the CPU has meanwhile run one that yielded in a handler;
\* nobody acquires a lock twice or is switched with another one than
\* ptable.lock.
CliMatched ==
    /\ ~panic
    /\ \A c \in CPUs :
          /\ ncli[c] = Cardinality({l \in Locks : lock[l] = c}) + (IF want[c] = FREE THEN 0 ELSE 1)
          /\ intr[c] => ncli[c] = 0 /\ pc[Intr(c)] = "none"
          /\ ncli[c] = 0 /\ pc[Top(c)] \in {"user", "read", "reread", "write", "kill", "sched"} => intr[c]
          /\ pc[Top(c)] \in {"choose", "woken", "yielded", "born"} =>
                \A l \in Locks : lock[l] = c <=> l = "ptable"

\* No two CPUs spin for a lock that the other one holds, so that acquire()
\* "loops until the lock is acquired".  With two CPUs the code does not keep
\* this: schedulers print with ptable.lock held, while consoleread() and
\* consoleintr() take ptable.lock with cons.lock held.
NoLockCycle ==
    \A c, d \in CPUs : ~(want[c] \in Locks /\ lock[want[c]] = d /\
                         want[d] \in Locks /\ lock[want[d]] = c)

\* A process that sleeps in consoleread() has nothing to read, or is about
\* to be woken by the handler: no line is missed.
SleepJustified ==
    \A p \in Procs : state[p] = "SLEEPING" /\ r # w =>
        \E c \in CPUs : pc[Intr(c)] \in {"wakeup", "waking"}

\* The ring of three unsigned indices is a line editor, see LineInput.
Typed(x, y) == [k \in 1..Diff(y, x) |-> buf[Cell(x + k - 1)]]
L == INSTANCE LineInput WITH ready <- Typed(r, w), edit <- Typed(w, e), Size <- INPUT_BUF
IsLineInput == L!Spec
=============================================================================
