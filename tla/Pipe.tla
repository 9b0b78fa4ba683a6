-------------------------------- MODULE Pipe --------------------------------
(***************************************************************************)
(* A pipe of pipe.c, its ends shared by several processes (fork() copies   *)
(* file descriptors).  p->lock is held from the beginning of a call, or    *)
(* from a wake-up, to the return or the next sleep: that is one action,    *)
(* except that kill(), which does not take p->lock, may come between the   *)
(* test of p->killed and the sleep.                                        *)
(* nread and nwrite are unsigned and wrap around.                          *)
(***************************************************************************)
EXTENDS Naturals, Sequences, FiniteSetsExt

CONSTANTS Readers, Writers,  \* the processes that have an end open
          PIPESIZE,          \* size of the ring (512)
          Wrap,              \* the counters are modulo this (2^32)
          Msgs,              \* what write() is called with
          Counts             \* how much read() is asked for

Procs == Readers \cup Writers

Bytes == UNION {{m[i] : i \in DOMAIN m} : m \in Msgs}

ASSUME PipeAssumption ==
    /\ PIPESIZE \in Nat \ {0}
    /\ Wrap \in Nat
    /\ Wrap % PIPESIZE = 0 /\ Wrap > PIPESIZE
    /\ Counts \subseteq Nat \ {0}
    /\ <<>> \notin Msgs /\ \A m \in Msgs : m \in Seq(Bytes)
    /\ Readers # {} /\ Writers # {} /\ Readers \cap Writers = {}

VARIABLES
    data,       \* the ring
    nread, nwrite,
    readopen, writeopen,
    freed,      \* kfree() has been called
    fd,         \* fd[p]: p has its end open
    killed,     \* p->killed
    pc,         \* "idle", "call" (in piperead or pipewrite, without the
                \* lock), "tosleep" (before sleep(), with it), "asleep"
    left,       \* left[w]: the bytes pipewrite() has still to copy
    want,       \* want[r]: how much piperead() is asked for
    got         \* got[r]: what the last read() of r returned

ring  == <<data, nread, nwrite>>
ends  == <<readopen, writeopen, freed, fd>>
calls == <<left, want, got>>
vars  == <<ring, ends, killed, pc, calls>>

\* Nobody holds p->lock.
Unlocked == \A p \in Procs : pc[p] # "tosleep"

\* Bytes in the ring, in the arithmetic of uint.
Used == (nwrite + Wrap - nread) % Wrap

\* nwrite == nread + PIPESIZE after that many more bytes.
Room == (nread + PIPESIZE + Wrap - nwrite) % Wrap

\* The bytes in the ring in the order in which piperead() takes them.
Waiting == [i \in 1..Used |-> data[(nread + i - 1) % PIPESIZE]]

-----------------------------------------------------------------------------
(* The operators named Bad... are faulty variants of the operator that     *)
(* follows them; nothing uses them.                                        *)

\* wakeup() of the sleepers among S: &p->nread for the readers, &p->nwrite
\* for the writers.
Wake(S) == [p \in Procs |-> IF p \in S /\ pc[p] = "asleep" THEN "call" ELSE pc[p]]

Advance(n, k) == (n + k) % Wrap

\* The calls.  trap() does not start a system call of a killed process.
SysWrite(w, m) ==
    /\ pc[w] = "idle" /\ fd[w] /\ ~killed[w]
    /\ left' = [left EXCEPT ![w] = m]
    /\ pc' = [pc EXCEPT ![w] = "call"]
    /\ UNCHANGED <<ring, ends, killed, want, got>>

SysRead(r, n) ==
    /\ pc[r] = "idle" /\ fd[r] /\ ~killed[r]
    /\ want' = [want EXCEPT ![r] = n]
    /\ pc' = [pc EXCEPT ![r] = "call"]
    /\ UNCHANGED <<ring, ends, killed, left, got>>

\* The next k bytes of w go into the ring.
Copy(w, k) ==
    /\ data' = [j \in 0..(PIPESIZE - 1) |->
                  IF \E i \in 1..k : (nwrite + i - 1) % PIPESIZE = j
                  THEN left[w][CHOOSE i \in 1..k : (nwrite + i - 1) % PIPESIZE = j]
                  ELSE data[j]]
    /\ nwrite' = Advance(nwrite, k)
    /\ UNCHANGED nread

\* Faulty: one byte more than fits.
BadFits(w) == Min({Room + 1, Len(left[w])})

\* How many bytes pipewrite() copies before it is done or the pipe is full.
Fits(w) == Min({Room, Len(left[w])})

\* All bytes fit.
WriteEnd(w) ==
    /\ pc[w] = "call" /\ Unlocked
    /\ Fits(w) = Len(left[w])
    /\ Copy(w, Fits(w))
    /\ left' = [left EXCEPT ![w] = <<>>]
    /\ pc' = [Wake(Readers) EXCEPT ![w] = "idle"]
    /\ UNCHANGED <<ends, killed, want, got>>

\* The pipe is full and nobody will read, or w is killed: return -1 at once.
WriteFail(w) ==
    /\ pc[w] = "call" /\ Unlocked
    /\ Fits(w) < Len(left[w])
    /\ ~readopen \/ killed[w]
    /\ Copy(w, Fits(w))
    /\ left' = [left EXCEPT ![w] = <<>>]
    /\ pc' = [pc EXCEPT ![w] = "idle"]
    /\ UNCHANGED <<ends, killed, want, got>>

\* Faulty: the readers are not woken before the writer sleeps.
BadWakeForSpace == pc

WakeForSpace == Wake(Readers)

\* The pipe is full: wake the readers and go to sleep.
WriteSleep(w) ==
    /\ pc[w] = "call" /\ Unlocked
    /\ Fits(w) < Len(left[w])
    /\ readopen /\ ~killed[w]
    /\ Copy(w, Fits(w))
    /\ left' = [left EXCEPT ![w] = SubSeq(@, Fits(w) + 1, Len(@))]
    /\ pc' = [WakeForSpace EXCEPT ![w] = "tosleep"]
    /\ UNCHANGED <<ends, killed, want, got>>

\* The pipe is empty and may still be written to: go to sleep, or return -1
\* if killed.
ReadEmpty(r) ==
    /\ pc[r] = "call" /\ Unlocked
    /\ nread = nwrite /\ writeopen
    /\ pc' = [pc EXCEPT ![r] = IF killed[r] THEN "idle" ELSE "tosleep"]
    /\ want' = [want EXCEPT ![r] = IF killed[r] THEN 0 ELSE @]
    /\ UNCHANGED <<ring, ends, killed, left, got>>

\* Copy what is there, at most n bytes; nothing at the end of the file.
ReadEnd(r) ==
    LET k == Min({want[r], Used})
    IN /\ pc[r] = "call" /\ Unlocked
       /\ nread # nwrite \/ ~writeopen
       /\ got' = [got EXCEPT ![r] = SubSeq(Waiting, 1, k)]
       /\ nread' = Advance(nread, k)
       /\ want' = [want EXCEPT ![r] = 0]
       /\ pc' = [Wake(Writers) EXCEPT ![r] = "idle"]
       /\ UNCHANGED <<data, nwrite, ends, killed, left>>

\* sleep() releases p->lock once it holds ptable.lock.
Sleep(p) ==
    /\ pc[p] = "tosleep"
    /\ pc' = [pc EXCEPT ![p] = "asleep"]
    /\ UNCHANGED <<ring, ends, killed, calls>>

-----------------------------------------------------------------------------
\* Faulty: closing an end wakes nobody.
BadWakeOther(p) == pc

WakeOther(p) == IF p \in Writers THEN Wake(Readers) ELSE Wake(Writers)

\* close(), or the end of the process.  The last close of an end calls
\* pipeclose(), and the last of both frees the pipe.
pipeclose(p) ==
    /\ pc[p] = "idle" /\ fd[p] /\ Unlocked
    /\ fd' = [fd EXCEPT ![p] = FALSE]
    /\ writeopen' = \E w \in Writers : fd'[w]
    /\ readopen' = \E r \in Readers : fd'[r]
    /\ pc' = IF <<readopen', writeopen'>> # <<readopen, writeopen>>
             THEN WakeOther(p) ELSE pc
    /\ freed' = (~readopen' /\ ~writeopen')
    /\ UNCHANGED <<ring, killed, calls>>

\* kill() wakes a process that is asleep already.
kill(p) ==
    /\ fd[p] /\ ~killed[p]
    /\ killed' = [killed EXCEPT ![p] = TRUE]
    /\ pc' = [pc EXCEPT ![p] = IF @ = "asleep" THEN "call" ELSE @]
    /\ UNCHANGED <<ring, ends, calls>>

-----------------------------------------------------------------------------
\* pipealloc() and fork(): both ends are open.  The ring is not initialized.
Init ==
    /\ \E b \in Bytes : data = [j \in 0..(PIPESIZE - 1) |-> b]
    /\ nread = 0 /\ nwrite = 0
    /\ readopen = TRUE /\ writeopen = TRUE
    /\ freed = FALSE
    /\ fd = [p \in Procs |-> TRUE]
    /\ killed = [p \in Procs |-> FALSE]
    /\ pc = [p \in Procs |-> "idle"]
    /\ left = [w \in Writers |-> <<>>]
    /\ want = [r \in Readers |-> 0]
    /\ got = [r \in Readers |-> <<>>]

pipewrite(w) == WriteEnd(w) \/ WriteFail(w) \/ WriteSleep(w)

piperead(r) == ReadEmpty(r) \/ ReadEnd(r)

Next ==
    \/ \E w \in Writers : pipewrite(w) \/ \E m \in Msgs : SysWrite(w, m)
    \/ \E r \in Readers : piperead(r) \/ \E n \in Counts : SysRead(r, n)
    \/ \E p \in Procs : Sleep(p) \/ pipeclose(p) \/ kill(p)

Spec == Init /\ [][Next]_vars

\* A process that is awake in a system call gets on with it.
Fairness ==
    /\ \A w \in Writers : WF_vars(pipewrite(w))
    /\ \A r \in Readers : WF_vars(piperead(r))
    /\ \A p \in Procs : WF_vars(Sleep(p))

FairSpec == Spec /\ Fairness

-----------------------------------------------------------------------------
(* Properties                                                              *)

\* The ring with its wrapping counters is a queue of at most PIPESIZE bytes:
\* nothing is lost, doubled, overwritten or reordered, whoever sleeps,
\* is killed or closes in between.
Queue == INSTANCE Fifo WITH queue <- Waiting, Size <- PIPESIZE

IsFifo == Queue!Spec

\* A sleeping writer waits for space and someone may still make some.  A
\* sleeping reader waits for bytes and someone may still write some.  (A
\* killed writer fills the pipe and returns without wakeup(&p->nread); as
\* long as no writer is killed, no reader sleeps on a pipe with bytes.)
SleepJustified ==
    /\ \A w \in Writers : pc[w] = "asleep" => Room = 0 /\ readopen
    /\ \A r \in Readers :
          pc[r] = "asleep" =>
             /\ writeopen
             /\ Used = 0 \/ \E w \in Writers : killed[w]

\* Once an end is closed, the calls on the other end return: readers see
\* the end of the file, writers an error.
ClosedEnds ==
    /\ \A r \in Readers : pc[r] # "idle" /\ ~writeopen ~> pc[r] = "idle"
    /\ \A w \in Writers : pc[w] # "idle" /\ ~readopen ~> pc[w] = "idle"
=============================================================================
