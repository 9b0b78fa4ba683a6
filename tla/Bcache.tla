------------------------------- MODULE Bcache -------------------------------
(***************************************************************************)
(* The buffer cache of bio.c on top of the disk driver of ide.c, with the  *)
(* sleep locks of sleeplock.c.                                             *)
(*                                                                         *)
(* A critical section of bcache.lock, of idelock or of the spin lock       *)
(* inside a sleep lock is one action.  A process uses one buffer at a      *)
(* time.  The disk raises one interrupt per request and reads without      *)
(* error.                                                                  *)
(***************************************************************************)
EXTENDS Naturals, Sequences, FiniteSets, SequencesExt, Processes

CONSTANTS NBUF,          \* number of buffers
          Blocks, Vals,  \* the blocks of the disk and their contents
          NULL

Bufs == 1..NBUF

ASSUME BcacheAssumption ==
    /\ NBUF \in Nat \ {0}
    /\ NULL \notin Procs \cup Blocks \cup Vals \cup Bufs

VARIABLES
    disk,      \* contents of the disk
    blockno,   \* b->blockno, or NULL if the buffer was never used
    valid,     \* B_VALID
    dirty,     \* B_DIRTY
    refcnt,    \* b->refcnt
    data,      \* b->data
    owner,     \* the process that holds b->lock, or NULL
    lru,       \* the list from bcache.head.next (most recently used) on
    idequeue,  \* the request queue; its head is being processed
    sent,      \* what idestart() has sent to the disk for a write
    pc,        \* where the process is, see below
    buf        \* the buffer that the process uses

cache == <<blockno, valid, dirty, refcnt, data, owner, lru>>
ide   == <<disk, idequeue, sent>>
vars  == <<cache, ide, pc, buf>>

\* Where a process is:
\* "out"     uses no buffer
\* "lock"    in acquiresleep()             "locksleep"  asleep there
\* "got"     bget() has returned
\* "use"     holds the buffer              "changed"    and has changed b->data
\* "io"      in the loop of iderw()        "iosleep"    asleep there
\* "release" in brelse(), after releasesleep()
\* "panic"   bget() found no buffer

-----------------------------------------------------------------------------
(* ide.c.  The operators named Bad... are faulty variants of the operator  *)
(* that follows them; nothing uses them.                                   *)

\* The request of buffer i is finished.
Done(i) == valid[i] /\ ~dirty[i]

\* What idestart(b) sends to the disk with a write command.
idestart(i, write) == IF write THEN data[i] ELSE NULL

\* iderw() starts the disk only if it is idle.
Started(i, write) == IF idequeue = <<>> THEN idestart(i, write) ELSE sent

\* iderw(): append to the queue, start the disk if it is idle, go to sleep.
iderw(p, write) ==
    /\ idequeue' = Append(idequeue, buf[p])
    /\ sent' = Started(buf[p], write)
    /\ pc' = [pc EXCEPT ![p] = "iosleep"]

\* The test of the loop of iderw() after a wake-up.
IderwLoop(p) ==
    /\ pc[p] = "io"
    /\ pc' = [pc EXCEPT ![p] = IF Done(buf[p]) THEN "use" ELSE "iosleep"]
    /\ UNCHANGED <<cache, ide, buf>>

\* Faulty: the interrupt wakes nobody.
BadWakeIo(i) == pc

\* wakeup(b)
WakeIo(i) ==
    [p \in Procs |-> IF pc[p] = "iosleep" /\ buf[p] = i THEN "io" ELSE pc[p]]

\* The disk has finished the request at the head of the queue.
ideintr ==
    /\ idequeue # <<>>
    /\ LET i == Head(idequeue)
           rest == Tail(idequeue)
       IN /\ IF dirty[i]
             THEN disk' = [disk EXCEPT ![blockno[i]] = sent] /\ UNCHANGED data
             ELSE data' = [data EXCEPT ![i] = disk[blockno[i]]] /\ UNCHANGED disk
          /\ valid' = [valid EXCEPT ![i] = TRUE]
          /\ dirty' = [dirty EXCEPT ![i] = FALSE]
          /\ pc' = WakeIo(i)
          /\ idequeue' = rest
          /\ sent' = IF rest = <<>> THEN NULL
                     ELSE idestart(Head(rest), dirty[Head(rest)])
    /\ UNCHANGED <<blockno, refcnt, owner, lru, buf>>

-----------------------------------------------------------------------------
(* bio.c                                                                   *)

Cached(b) == {i \in Bufs : blockno[i] = b}

\* Faulty: B_DIRTY is not looked at.
BadFree(i) == refcnt[i] = 0

\* "Even if refcnt==0, B_DIRTY indicates a buffer is in use".
Free(i) == refcnt[i] = 0 /\ ~dirty[i]

\* The buffer that the search from the end of the list finds.
Recycled(i) ==
    \E n \in DOMAIN lru :
        /\ lru[n] = i
        /\ Free(i)
        /\ \A m \in (n + 1)..Len(lru) : ~Free(lru[m])

\* bget(): the block is in the cache.
bget_cached(p, b) ==
    /\ pc[p] = "out"
    /\ \E i \in Cached(b) :
          /\ refcnt' = [refcnt EXCEPT ![i] = @ + 1]
          /\ buf' = [buf EXCEPT ![p] = i]
    /\ pc' = [pc EXCEPT ![p] = "lock"]
    /\ UNCHANGED <<blockno, valid, dirty, data, owner, lru, ide>>

\* Faulty: the buffer is not counted as used.
BadRecycledRefcnt(i) == refcnt

RecycledRefcnt(i) == [refcnt EXCEPT ![i] = 1]

\* bget(): a buffer is recycled.
bget_recycle(p, b) ==
    /\ pc[p] = "out"
    /\ Cached(b) = {}
    /\ \E i \in Bufs :
          /\ Recycled(i)
          /\ blockno' = [blockno EXCEPT ![i] = b]
          /\ valid' = [valid EXCEPT ![i] = FALSE]
          /\ refcnt' = RecycledRefcnt(i)
          /\ buf' = [buf EXCEPT ![p] = i]
    /\ pc' = [pc EXCEPT ![p] = "lock"]
    /\ UNCHANGED <<dirty, data, owner, lru, ide>>

\* panic("bget: no buffers")
bget_panic(p, b) ==
    /\ pc[p] = "out"
    /\ Cached(b) = {}
    /\ \A i \in Bufs : ~Free(i)
    /\ pc' = [pc EXCEPT ![p] = "panic"]
    /\ UNCHANGED <<cache, ide, buf>>

Locked(i) == owner[i] # NULL

acquiresleep(p) ==
    /\ pc[p] = "lock"
    /\ IF Locked(buf[p])
       THEN /\ pc' = [pc EXCEPT ![p] = "locksleep"]
            /\ UNCHANGED owner
       ELSE /\ pc' = [pc EXCEPT ![p] = "got"]
            /\ owner' = [owner EXCEPT ![buf[p]] = p]
    /\ UNCHANGED <<blockno, valid, dirty, refcnt, data, lru, ide, buf>>

\* bread() reads the block unless the buffer has it.
bread(p) ==
    /\ pc[p] = "got"
    /\ IF valid[buf[p]]
       THEN pc' = [pc EXCEPT ![p] = "use"] /\ UNCHANGED <<idequeue, sent>>
       ELSE iderw(p, FALSE)
    /\ UNCHANGED <<cache, disk, buf>>

\* The process changes the contents of the block.
Change(p, v) ==
    /\ pc[p] = "use"
    /\ data' = [data EXCEPT ![buf[p]] = v]
    /\ pc' = [pc EXCEPT ![p] = "changed"]
    /\ UNCHANGED <<blockno, valid, dirty, refcnt, owner, lru, ide, buf>>

\* log_write() marks the buffer, to keep it in the cache until it is written.
log_write(p) ==
    /\ pc[p] = "changed"
    /\ dirty' = [dirty EXCEPT ![buf[p]] = TRUE]
    /\ pc' = [pc EXCEPT ![p] = "use"]
    /\ UNCHANGED <<blockno, valid, refcnt, data, owner, lru, ide, buf>>

bwrite(p) ==
    /\ pc[p] \in {"use", "changed"}
    /\ dirty' = [dirty EXCEPT ![buf[p]] = TRUE]
    /\ iderw(p, TRUE)
    /\ UNCHANGED <<blockno, valid, refcnt, data, owner, lru, disk, buf>>

\* Faulty: releasesleep() wakes nobody.
BadReleased(p) == pc

\* releasesleep() wakes everybody who waits for the lock.
Released(p) ==
    [q \in Procs |-> IF pc[q] = "locksleep" /\ buf[q] = buf[p] THEN "lock" ELSE pc[q]]

\* brelse(), first half.
releasesleep(p) ==
    /\ pc[p] = "use"
    /\ owner' = [owner EXCEPT ![buf[p]] = NULL]
    /\ pc' = [Released(p) EXCEPT ![p] = "release"]
    /\ UNCHANGED <<blockno, valid, dirty, refcnt, data, lru, ide, buf>>

ToFront(i) == <<i>> \o Remove(lru, i)

\* brelse(), second half: the last user moves the buffer to the front.
brelse(p) ==
    LET i == buf[p]
    IN /\ pc[p] = "release"
       /\ refcnt' = [refcnt EXCEPT ![i] = @ - 1]
       /\ lru' = IF refcnt[i] = 1 THEN ToFront(i) ELSE lru
       /\ pc' = [pc EXCEPT ![p] = "out"]
       /\ buf' = [buf EXCEPT ![p] = NULL]
       /\ UNCHANGED <<blockno, valid, dirty, data, owner, ide>>

\* kill() makes a sleeping process RUNNABLE: the loops must test again.
kill(p) ==
    /\ pc[p] \in {"iosleep", "locksleep"}
    /\ pc' = [pc EXCEPT ![p] = IF @ = "iosleep" THEN "io" ELSE "lock"]
    /\ UNCHANGED <<cache, ide, buf>>

-----------------------------------------------------------------------------
\* binit(): every buffer goes to the front of the list in turn.
Init ==
    /\ disk \in [Blocks -> Vals]
    /\ blockno = [i \in Bufs |-> NULL]
    /\ valid = [i \in Bufs |-> FALSE]
    /\ dirty = [i \in Bufs |-> FALSE]
    /\ refcnt = [i \in Bufs |-> 0]
    /\ data \in {[i \in Bufs |-> v] : v \in Vals}
    /\ owner = [i \in Bufs |-> NULL]
    /\ lru = [n \in Bufs |-> NBUF + 1 - n]
    /\ idequeue = <<>>
    /\ sent = NULL
    /\ pc = [p \in Procs |-> "out"]
    /\ buf = [p \in Procs |-> NULL]

Next ==
    \/ \E p \in Procs :
          \/ \E b \in Blocks :
                bget_cached(p, b) \/ bget_recycle(p, b) \/ bget_panic(p, b)
          \/ acquiresleep(p)
          \/ bread(p)
          \/ \E v \in Vals : Change(p, v)
          \/ log_write(p)
          \/ bwrite(p)
          \/ releasesleep(p)
          \/ brelse(p)
          \/ IderwLoop(p)
          \/ kill(p)
    \/ ideintr

Spec == Init /\ [][Next]_vars

\* The disk answers, and a process that is awake in iderw() goes on.
Fairness == WF_vars(ideintr) /\ \A p \in Procs : SF_vars(IderwLoop(p))

FairSpec == Spec /\ Fairness

-----------------------------------------------------------------------------
(* Properties                                                              *)

\* A buffer is not recycled under a process that uses it or waits for it,
\* and no buffer stays unusable: refcnt counts its users.
RefcntExact ==
    \A i \in Bufs : refcnt[i] = Cardinality({p \in Procs : buf[p] = i})

\* Who sleeps has something to wait for: a request that is still in the
\* queue, a lock that is still held.
NoMissedWakeup ==
    \A p \in Procs :
        /\ pc[p] = "iosleep" => Contains(idequeue, buf[p])
        /\ pc[p] = "locksleep" => owner[buf[p]] # NULL

\* The cache is transparent: whatever is recycled, read, written back or
\* pinned, a block has one content, which only the process that holds the
\* block changes.
Store == INSTANCE BlockStore WITH
    mem <- [b \in Blocks |->
              IF \E i \in Cached(b) : valid[i]
              THEN data[CHOOSE i \in Cached(b) : valid[i]] ELSE disk[b]],
    holder <- [b \in Blocks |->
              IF \E i \in Cached(b) : owner[i] # NULL
              THEN owner[CHOOSE i \in Cached(b) : owner[i] # NULL] ELSE NULL]

Transparent == Store!Spec

\* Every request is served, and its process leaves iderw().
IoEnds == \A p \in Procs : pc[p] = "iosleep" ~> pc[p] = "use"
=============================================================================
