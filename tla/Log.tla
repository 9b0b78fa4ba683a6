--------------------------------- MODULE Log --------------------------------
(***************************************************************************)
(* The write-ahead log of log.c: begin_op(), log_write(), end_op(), the    *)
(* steps of commit() and recover_from_log(), and a crash between any two   *)
(* writes of a disk block.  A block write is atomic (BSIZE is one sector). *)
(* The critical sections of log.lock are one action each; log_write()      *)
(* tests the size of the transaction before it takes the lock, and         *)
(* commit() runs without it, one action per block written.                 *)
(***************************************************************************)
EXTENDS Naturals, Sequences, FiniteSets, Processes

CONSTANTS Blocks, Vals, \* the home blocks and their contents
          MAXOPBLOCKS,  \* the blocks that one call may write (10)
          LOGSIZE,      \* what begin_op() takes for the size of the log (30)
          LogBlocks,    \* log.size: the blocks of the log, header included (30)
          Behind        \* the home block that follows the log on the disk

ASSUME LogAssumption ==
    /\ MAXOPBLOCKS \in Nat \ {0}
    /\ LOGSIZE \in Nat /\ MAXOPBLOCKS <= LOGSIZE
    /\ LogBlocks \in Nat \ {0, 1}
    /\ LOGSIZE <= LogBlocks     \* mkfs makes them equal
    /\ Behind \in Blocks

VARIABLES
    home,        \* disk: the home blocks
    hdr,         \* disk: the block numbers of the log header
    logd,        \* disk: the data blocks of the log
    cache,       \* the home blocks as the buffer cache shows them
    lh,          \* log.lh
    outstanding, committing,
    wrote,       \* the blocks that a process has written to the log
    appending,   \* the block, if any, that a process is in log_write() with
    pc,          \* "out", "op" (between begin_op and end_op), "asleep"
    phase,       \* where commit() or recover_from_log() is
    tail         \* the loop variable of write_log() and install_trans()

disk == <<home, hdr, logd>>
opvars == <<lh, outstanding, committing, wrote, appending, pc>>
vars == <<disk, cache, opvars, phase, tail>>

\* The phases:
\* "run"     no commit in progress
\* "write_log", "head", "install", "clear"  before that part of commit()
\* "done"    commit() has returned to end_op()
\* "recover", "reclear"  in recover_from_log(), after read_head()
\* "panic"   the machine has stopped

Up == phase \notin {"recover", "reclear", "panic"}

LogData == 1..(LogBlocks - 1)

\* Block log.start+i of the disk as it is in the cache: a data block of the
\* log or, past its end, the block behind it.
LogBlock(i) == IF i \in LogData THEN logd[i] ELSE cache[Behind]

-----------------------------------------------------------------------------
(* Operations.  The operators named Bad... are faulty variants of the      *)
(* operator that follows them; nothing uses them.                          *)

\* wakeup(&log)
Wake == [p \in Procs |-> IF pc[p] = "asleep" THEN "out" ELSE pc[p]]

\* Faulty: space for the new call is forgotten.
BadMustWait == committing \/ Len(lh) + outstanding * MAXOPBLOCKS > LOGSIZE

\* begin_op() sleeps while a commit is in progress or the log might run out.
MustWait == committing \/ Len(lh) + (outstanding + 1) * MAXOPBLOCKS > LOGSIZE

\* A process that has been woken (and is "out") starts over.
begin_op(p) ==
    /\ Up
    /\ pc[p] = "out"
    /\ IF MustWait
       THEN /\ pc' = [pc EXCEPT ![p] = "asleep"]
            /\ UNCHANGED outstanding
       ELSE /\ pc' = [pc EXCEPT ![p] = "op"]
            /\ outstanding' = outstanding + 1
    /\ UNCHANGED <<disk, cache, lh, committing, wrote, appending, phase, tail>>

\* "too big a transaction": there is no data block of the log left.
TooBig == Len(lh) >= LOGSIZE \/ Len(lh) >= LogBlocks - 1

\* A call modifies a block in the cache and passes it to log_write(), which
\* looks at the size of the log without log.lock.  The caller has the buffer
\* locked until log_write() has returned.
log_write(p, b, v) ==
    /\ Up
    /\ pc[p] = "op"
    /\ appending[p] = {}
    /\ \A q \in Procs : b \notin appending[q]
    /\ Cardinality(wrote[p] \cup {b}) <= MAXOPBLOCKS
    /\ cache' = [cache EXCEPT ![b] = v]
    /\ appending' = [appending EXCEPT ![p] = {b}]
    /\ phase' = IF TooBig \/ outstanding < 1 THEN "panic" ELSE phase
    /\ UNCHANGED <<disk, lh, outstanding, committing, wrote, pc, tail>>

\* log_write() records a block number unless it is in the log already.
Absorb(b) == IF \E i \in DOMAIN lh : lh[i] = b THEN lh ELSE Append(lh, b)

\* The part of log_write() that has log.lock; the buffer is released.
log_append(p, b) ==
    /\ Up
    /\ b \in appending[p]
    /\ lh' = Absorb(b)
    /\ wrote' = [wrote EXCEPT ![p] = @ \cup {b}]
    /\ appending' = [appending EXCEPT ![p] = {}]
    /\ UNCHANGED <<disk, cache, outstanding, committing, pc, phase, tail>>

\* Faulty: every end_op() commits.
BadLastOp == TRUE

LastOp == outstanding = 1

\* Faulty: no one is told that a call has given back its reservation.
BadEndOther(p) == [pc EXCEPT ![p] = "out"]

\* wakeup(&log) by a call that is not the last.
EndOther(p) == [Wake EXCEPT ![p] = "out"]

\* The last call goes on to commit(), which returns at once if the log is
\* empty.
end_op(p) ==
    /\ Up
    /\ pc[p] = "op" /\ appending[p] = {}
    /\ outstanding' = outstanding - 1
    /\ wrote' = [wrote EXCEPT ![p] = {}]
    /\ IF committing
       THEN phase' = "panic" /\ UNCHANGED <<committing, pc>>
       ELSE IF LastOp
       THEN /\ committing' = TRUE
            /\ pc' = [pc EXCEPT ![p] = "out"]
            /\ phase' = IF lh = <<>> THEN "done" ELSE "write_log"
       ELSE /\ pc' = EndOther(p)
            /\ UNCHANGED <<committing, phase>>
    /\ tail' = 1
    /\ UNCHANGED <<disk, cache, lh, appending>>

\* The end of end_op() after commit().
end_commit ==
    /\ phase = "done"
    /\ committing' = FALSE
    /\ pc' = Wake
    /\ phase' = "run"
    /\ UNCHANGED <<disk, cache, lh, outstanding, wrote, appending, tail>>

-----------------------------------------------------------------------------
(* commit()                                                                *)

\* A transaction that is too long goes on into the block behind the log.
write_log ==
    /\ phase = "write_log"
    /\ IF tail \in LogData
       THEN /\ logd' = [logd EXCEPT ![tail] = cache[lh[tail]]]
            /\ UNCHANGED <<home, cache>>
       ELSE /\ home' = [home EXCEPT ![Behind] = cache[lh[tail]]]
            /\ cache' = [cache EXCEPT ![Behind] = cache[lh[tail]]]
            /\ UNCHANGED logd
    /\ tail' = IF tail = Len(lh) THEN 1 ELSE tail + 1
    /\ phase' = IF tail = Len(lh) THEN "head" ELSE phase
    /\ UNCHANGED <<hdr, opvars>>

AfterHead == "install"

\* The commit point: the header is on the disk.
write_head ==
    /\ phase = "head"
    /\ hdr' = lh
    /\ phase' = AfterHead
    /\ UNCHANGED <<home, logd, cache, opvars, tail>>

\* The block is read into the cache, overwritten there and written home.
install_trans ==
    /\ phase \in {"install", "recover"}
    /\ home' = [home EXCEPT ![lh[tail]] = LogBlock(tail)]
    /\ cache' = [cache EXCEPT ![lh[tail]] = LogBlock(tail)]
    /\ tail' = tail + 1
    /\ phase' = IF tail < Len(lh) THEN phase
                ELSE IF phase = "install" THEN "clear" ELSE "reclear"
    /\ UNCHANGED <<hdr, logd, opvars>>

\* log.lh.n = 0; write_head()
clear_head ==
    /\ phase \in {"clear", "reclear"}
    /\ lh' = <<>>
    /\ hdr' = <<>>
    /\ phase' = IF phase = "clear" THEN "done" ELSE "run"
    /\ UNCHANGED <<home, logd, cache, outstanding, committing, wrote, appending, pc, tail>>

\* The machine stops and is started again: initlog() reads the header.
Crash ==
    /\ cache' = home
    /\ lh' = hdr
    /\ outstanding' = 0
    /\ committing' = FALSE
    /\ wrote' = [p \in Procs |-> {}]
    /\ appending' = [p \in Procs |-> {}]
    /\ pc' = [p \in Procs |-> "out"]
    /\ phase' = IF hdr = <<>> THEN "reclear" ELSE "recover"
    /\ tail' = 1
    /\ UNCHANGED disk

-----------------------------------------------------------------------------
Init ==
    /\ home \in [Blocks -> Vals]
    /\ hdr = <<>>
    /\ logd \in {[i \in LogData |-> v] : v \in Vals}
    /\ cache = home
    /\ lh = <<>>
    /\ outstanding = 0
    /\ committing = FALSE
    /\ wrote = [p \in Procs |-> {}]
    /\ appending = [p \in Procs |-> {}]
    /\ pc = [p \in Procs |-> "out"]
    /\ phase = "run"
    /\ tail = 1

Next ==
    \/ \E p \in Procs :
          \/ begin_op(p)
          \/ \E b \in Blocks, v \in Vals : log_write(p, b, v)
          \/ \E b \in Blocks : log_append(p, b)
          \/ end_op(p)
    \/ end_commit
    \/ write_log
    \/ write_head
    \/ install_trans
    \/ clear_head
    \/ Crash

Spec == Init /\ [][Next]_vars

-----------------------------------------------------------------------------
(* Properties                                                              *)

\* The transaction fits in the data blocks of the log, which is what the test
\* at the start of log_write() is there for.
WithinLog == Len(lh) <= LogBlocks - 1

\* begin_op() lets a call in only if it cannot "exhaust log space": with calls
\* that write no more than MAXOPBLOCKS blocks each, log_write() never panics.
\* The code does not keep this: MustWait reckons with a block too many.
LogNoPanic == phase # "panic"

\* What recover_from_log() would make of the disk as it is now, if the
\* transaction fits in the log.
Recovered ==
    [b \in Blocks |->
        IF \E i \in DOMAIN hdr : hdr[i] = b
        THEN logd[CHOOSE i \in DOMAIN hdr : hdr[i] = b] ELSE home[b]]

Abstract == INSTANCE AtomicDisk WITH
    disk <- Recovered,
    mem <- IF phase \in {"recover", "reclear"} THEN Recovered ELSE cache,
    active <- outstanding

\* A crash at any moment leaves all of the calls of a committed transaction
\* or none of them: every step is a step of AtomicDisk, except while the log
\* holds a transaction that runs past its end (see WithinLog).
Atomic == Abstract!Init /\ [][WithinLog => Abstract!Next]_(Abstract!vars)

\* A process that sleeps in begin_op() has a reason to: a commit is in
\* progress or the space is not there.  So no wakeup(&log) is missing.
NoMissedWakeup == (\E p \in Procs : pc[p] = "asleep") => MustWait

\* The blocks that the calls in progress may still write, MAXOPBLOCKS in all
\* for each call: a pair for every one of them.
Unused ==
    {e \in Procs \X (1..MAXOPBLOCKS) :
        pc[e[1]] = "op" /\ e[2] > Cardinality(wrote[e[1]])}

\* begin_op() admits a call only if everything that the calls in progress may
\* still write fits in LOGSIZE entries: log_write(), whose test is made
\* without the lock, never leaves the array log.lh.block[LOGSIZE].  The data
\* blocks on the disk are one fewer, and are not reserved: see WithinLog.
Reservation == Len(lh) + Cardinality(Unused) <= LOGSIZE
=============================================================================
