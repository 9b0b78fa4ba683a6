---------------------------- MODULE BlockProofs -----------------------------
(***************************************************************************)
(* Proofs about blocks: that the buffers of Bcache are as good as the      *)
(* blocks of the disk (it implements BlockStore), and that the blocks of   *)
(* Inode are as good as files (File implements Streams), with the          *)
(* reference counts of the buffers, of open files and of inodes.  Each     *)
(* holds for any number of processes and any size of the tables.           *)
(***************************************************************************)
EXTENDS Bcache, File, FiniteSetTheorems, WellFoundedInduction, TLAPS

\* Who uses buffer i.
Users(i) == {p \in Procs : buf[p] = i}

\* Where a process is while it holds the lock of its buffer.
Holding == {"got", "use", "changed", "io", "iosleep"}

\* Every variable that a property depends on has its type.  (What is on the
\* list of the buffers does not matter: bget() checks the buffer it takes.)
TypeOK ==
    /\ disk \in [Blocks -> Vals]
    /\ blockno \in [Bufs -> Blocks \cup {NULL}]
    /\ valid \in [Bufs -> BOOLEAN] /\ dirty \in [Bufs -> BOOLEAN]
    /\ refcnt \in [Bufs -> Nat]
    /\ data \in [Bufs -> Vals]
    /\ owner \in [Bufs -> Procs \cup {NULL}]
    /\ idequeue \in Seq(Bufs)
    /\ sent \in Vals \cup {NULL}
    /\ pc \in [Procs -> Holding \cup {"out", "lock", "locksleep", "release", "panic"}]
    /\ buf \in [Procs -> Bufs \cup {NULL}]

\* A process has a buffer exactly while it is in bread(), bwrite() or
\* brelse() or between them, and a buffer that has a user has a block.
Using ==
    \A p \in Procs :
        /\ buf[p] = NULL <=> pc[p] \in {"out", "panic"}
        /\ buf[p] # NULL => blockno[buf[p]] # NULL

\* Reference counts are exact; the users of a buffer are finitely many.
Counts ==
    \A i \in Bufs : IsFiniteSet(Users(i)) /\ refcnt[i] = Cardinality(Users(i))

\* A sleep lock is held by the process that is in the critical section.
Locks ==
    /\ \A p \in Procs : pc[p] \in Holding => owner[buf[p]] = p
    /\ \A i \in Bufs : owner[i] # NULL =>
          buf[owner[i]] = i /\ pc[owner[i]] \in Holding

\* A block is in one buffer at most.
OneBuffer ==
    \A i, j \in Bufs : blockno[i] = blockno[j] /\ blockno[i] # NULL => i = j

\* Flags: what is dirty or in use is valid.
Flags ==
    /\ \A i \in Bufs : dirty[i] => valid[i]
    /\ \A i \in Bufs : valid[i] => blockno[i] # NULL
    /\ \A p \in Procs : pc[p] \in {"use", "changed"} => valid[buf[p]]

\* The queue has one entry for each request that is not finished.
Queue ==
    /\ \A m, n \in 1..Len(idequeue) : idequeue[m] = idequeue[n] => m = n
    /\ \A n \in 1..Len(idequeue) :
          /\ owner[idequeue[n]] # NULL
          /\ pc[owner[idequeue[n]]] \in {"io", "iosleep"}
          /\ ~Done(idequeue[n])
    /\ \A p \in Procs : pc[p] = "io" => Done(buf[p]) \/ Contains(idequeue, buf[p])

\* What the disk works on is the head of the queue.
Sent ==
    idequeue # <<>> =>
        sent = IF dirty[Head(idequeue)] THEN data[Head(idequeue)] ELSE NULL

\* A buffer that is neither dirty nor just changed shows what is on the disk.
Coherent ==
    \A i \in Bufs :
        valid[i] /\ ~dirty[i] =>
            \/ data[i] = disk[blockno[i]]
            \/ owner[i] # NULL /\ pc[owner[i]] = "changed"

IInv ==
    /\ TypeOK
    /\ Using
    /\ Counts
    /\ Locks
    /\ OneBuffer
    /\ Flags
    /\ Queue
    /\ Sent
    /\ Coherent
    /\ NoMissedWakeup

-----------------------------------------------------------------------------

\* NULL is no process, block, content or buffer.
LEMMA NullFresh ==
  NULL \notin Procs /\ NULL \notin Blocks /\ NULL \notin Vals /\ NULL \notin Bufs
BY BcacheAssumption

\* A buffer that a process uses is counted and has a block.
LEMMA InUse ==
  ASSUME IInv, NEW p \in Procs, buf[p] # NULL
  PROVE  /\ buf[p] \in Bufs /\ refcnt[buf[p]] # 0 /\ blockno[buf[p]] \in Blocks
<1>1. buf[p] \in Bufs /\ blockno[buf[p]] \in Blocks
  BY DEF IInv, TypeOK, Using
<1>2. p \in Users(buf[p])
  BY DEF Users
<1> QED
  BY <1>1, <1>2, FS_EmptySet DEF IInv, Counts

\* A locked buffer is in use, so it is not recycled.
LEMMA LockedInUse ==
  ASSUME IInv, NEW i \in Bufs, owner[i] # NULL
  PROVE  owner[i] \in Procs /\ refcnt[i] # 0
<1>1. owner[i] \in Procs /\ buf[owner[i]] = i
  BY DEF IInv, TypeOK, Locks
<1> QED
  BY <1>1, InUse, NullFresh

\* The buffers start empty.
LEMMA InitInv == Init => IInv
<1> SUFFICES ASSUME Init PROVE IInv
  OBVIOUS
<1>1. TypeOK
  <2>1. valid \in [Bufs -> BOOLEAN] /\ dirty \in [Bufs -> BOOLEAN]
    BY DEF Init
  <2>2. data \in [Bufs -> Vals]
    BY DEF Init
  <2>3. idequeue \in Seq(Bufs)
    BY DEF Init
  <2> QED
    BY <2>1, <2>2, <2>3 DEF Init, TypeOK
<1>2. Using
  BY DEF Init, Using
<1>3. Counts
  <2>1. \A i \in Bufs : Users(i) = {}
    BY NullFresh DEF Init, Users
  <2> QED
    BY <2>1, FS_EmptySet DEF Init, Counts
<1>4. Locks /\ OneBuffer /\ Flags
  BY DEF Init, Locks, OneBuffer, Flags, Holding
<1>5. Queue /\ Sent /\ Coherent /\ NoMissedWakeup
  BY DEF Init, Queue, Sent, Coherent, NoMissedWakeup
<1> QED
  BY <1>1, <1>2, <1>3, <1>4, <1>5 DEF IInv

\* A process that takes a buffer is added to its users.
LEMMA CountUp ==
  ASSUME IInv, NEW p \in Procs, buf[p] = NULL, NEW i \in Bufs,
         buf' = [buf EXCEPT ![p] = i], refcnt' = [refcnt EXCEPT ![i] = refcnt[i] + 1]
  PROVE  Counts'
<1> SUFFICES ASSUME NEW j \in Bufs
             PROVE  /\ IsFiniteSet(Users(j)') /\ refcnt'[j] = Cardinality(Users(j)')
  BY DEF Counts
<1>1. CASE j = i
  <2>1. Users(j)' = Users(j) \cup {p} /\ p \notin Users(j)
    BY <1>1, NullFresh DEF IInv, TypeOK, Users
  <2>2. refcnt'[j] = refcnt[j] + 1
    BY <1>1 DEF IInv, TypeOK
  <2> QED
    BY <2>1, <2>2, FS_AddElement DEF IInv, Counts
<1>2. CASE j # i
  <2>1. Users(j)' = Users(j)
    BY <1>2, NullFresh DEF IInv, TypeOK, Users
  <2> QED
    BY <1>2, <2>1 DEF IInv, Counts, TypeOK
<1> QED
  BY <1>1, <1>2

\* A step that leaves the queue, the buffers in it and the processes in
\* iderw() alone keeps what the invariant says of the queue.
LEMMA QueueKept ==
  ASSUME IInv, idequeue' = idequeue,
         \A q \in Procs : pc[q] \in {"io", "iosleep"} =>
             /\ pc'[q] \in {"io", "iosleep"} /\ buf'[q] = buf[q]
             /\ owner'[buf[q]] = owner[buf[q]]
             /\ valid'[buf[q]] = valid[buf[q]] /\ dirty'[buf[q]] = dirty[buf[q]]
             /\ data'[buf[q]] = data[buf[q]],
         \A q \in Procs : pc'[q] = "io" => pc[q] \in {"io", "iosleep"},
         sent' = sent
  PROVE  Queue' /\ Sent'
<1> USE DEF IInv
<1>1. ASSUME NEW n \in 1..Len(idequeue)
      PROVE  /\ owner'[idequeue[n]] = owner[idequeue[n]]
             /\ owner[idequeue[n]] # NULL
             /\ pc'[owner[idequeue[n]]] \in {"io", "iosleep"}
             /\ valid'[idequeue[n]] = valid[idequeue[n]]
             /\ dirty'[idequeue[n]] = dirty[idequeue[n]]
             /\ data'[idequeue[n]] = data[idequeue[n]]
  <2>1. idequeue[n] \in Bufs
    BY DEF TypeOK
  <2>2. PICK q \in Procs : /\ owner[idequeue[n]] = q /\ pc[q] \in {"io", "iosleep"}
                           /\ buf[q] = idequeue[n] /\ q # NULL
    BY <2>1, NullFresh DEF Queue, TypeOK, Locks
  <2> QED
    BY <2>2
<1>2. ASSUME NEW q \in Procs, pc'[q] = "io"
      PROVE  Done(buf[q])' \/ Contains(idequeue, buf[q])'
  <2>1. pc[q] \in {"io", "iosleep"} /\ buf'[q] = buf[q]
    BY <1>2
  <2>2. Done(buf[q]) \/ Contains(idequeue, buf[q])
    BY <2>1 DEF Queue, NoMissedWakeup
  <2> QED
    BY <2>1, <2>2 DEF Done, Contains
<1>3. Queue'
  <2>1. \A n \in 1..Len(idequeue) : ~Done(idequeue[n])'
    BY <1>1 DEF Queue, Done
  <2> QED
    BY <1>1, <1>2, <2>1 DEF Queue
<1>4. Sent'
  <2>1. CASE idequeue = <<>>
    BY <2>1 DEF Sent
  <2>2. CASE idequeue # <<>>
    <3>1. 1 \in 1..Len(idequeue) /\ Head(idequeue) = idequeue[1]
      BY <2>2 DEF TypeOK
    <3>2. /\ dirty'[Head(idequeue)] = dirty[Head(idequeue)]
          /\ data'[Head(idequeue)] = data[Head(idequeue)]
      BY <1>1, <3>1
    <3> QED
      BY <2>2, <3>2 DEF Sent
  <2> QED
    BY <2>1, <2>2
<1> QED
  BY <1>3, <1>4

\* bget() finds the block.
LEMMA GetCachedInv ==
  ASSUME IInv, NEW p \in Procs, NEW b \in Blocks, bget_cached(p, b)
  PROVE  IInv'
<1> USE DEF IInv
<1>1. PICK i \in Bufs : /\ blockno[i] = b
                        /\ refcnt' = [refcnt EXCEPT ![i] = refcnt[i] + 1]
                        /\ buf' = [buf EXCEPT ![p] = i]
  BY DEF bget_cached, Cached
<1>2. /\ pc[p] = "out" /\ pc' = [pc EXCEPT ![p] = "lock"] /\ buf[p] = NULL
      /\ blockno' = blockno /\ valid' = valid /\ dirty' = dirty /\ data' = data
      /\ owner' = owner /\ disk' = disk /\ idequeue' = idequeue /\ sent' = sent
  BY DEF bget_cached, ide, Using
<1>3. TypeOK'
  BY <1>1, <1>2 DEF TypeOK
<1>4. Using'
  BY <1>1, <1>2, NullFresh DEF Using, TypeOK
<1>5. Counts'
  BY <1>1, <1>2, CountUp
<1>6. Locks'
  BY <1>1, <1>2 DEF Locks, TypeOK, Holding
<1>7. OneBuffer' /\ Flags'
  BY <1>1, <1>2 DEF OneBuffer, Flags, TypeOK
<1>8. Queue' /\ Sent'
  <2>1. \A q \in Procs : q # p => pc'[q] = pc[q] /\ buf'[q] = buf[q]
    BY <1>1, <1>2 DEF TypeOK
  <2>2. pc'[p] = "lock"
    BY <1>2 DEF TypeOK
  <2> QED
    BY <1>2, <2>1, <2>2, QueueKept
<1>9. Coherent'
  BY <1>1, <1>2 DEF Coherent, TypeOK
<1>10. NoMissedWakeup'
  BY <1>1, <1>2 DEF NoMissedWakeup, TypeOK, Contains
<1> QED
  BY <1>3, <1>4, <1>5, <1>6, <1>7, <1>8, <1>9, <1>10

\* bget() recycles a buffer that nobody uses and that is not dirty.
LEMMA GetRecycleInv ==
  ASSUME IInv, NEW p \in Procs, NEW b \in Blocks, bget_recycle(p, b)
  PROVE  IInv'
<1> USE DEF IInv
<1>1. PICK i \in Bufs : /\ refcnt[i] = 0 /\ ~dirty[i]
                        /\ blockno' = [blockno EXCEPT ![i] = b]
                        /\ valid' = [valid EXCEPT ![i] = FALSE]
                        /\ refcnt' = [refcnt EXCEPT ![i] = 1]
                        /\ buf' = [buf EXCEPT ![p] = i]
  BY DEF bget_recycle, Recycled, Free, RecycledRefcnt
<1>2. /\ pc[p] = "out" /\ pc' = [pc EXCEPT ![p] = "lock"] /\ buf[p] = NULL
      /\ dirty' = dirty /\ data' = data
      /\ owner' = owner /\ disk' = disk /\ idequeue' = idequeue /\ sent' = sent
      /\ \A j \in Bufs : blockno[j] # b
  BY DEF bget_recycle, ide, Using, Cached
<1>3. /\ owner[i] = NULL /\ \A q \in Procs : buf[q] # i
      /\ \A n \in 1..Len(idequeue) : idequeue[n] # i
  <2>1. owner[i] = NULL
    BY <1>1, LockedInUse
  <2>2. \A q \in Procs : buf[q] # i
    BY <1>1, InUse, NullFresh
  <2> QED
    BY <2>1, <2>2 DEF Queue
<1>4. TypeOK'
  BY <1>1, <1>2 DEF TypeOK
<1>5. Using'
  BY <1>1, <1>2, <1>3, NullFresh DEF Using, TypeOK
<1>6. Counts'
  <2>1. refcnt' = [refcnt EXCEPT ![i] = refcnt[i] + 1]
    BY <1>1
  <2> QED
    BY <1>1, <1>2, <2>1, CountUp
<1>7. Locks'
  BY <1>1, <1>2, <1>3 DEF Locks, TypeOK, Holding
<1>8. OneBuffer' /\ Flags'
  BY <1>1, <1>2, <1>3, NullFresh DEF OneBuffer, Flags, TypeOK, Using
<1>9. Queue' /\ Sent'
  <2>1. \A q \in Procs : q # p => /\ pc'[q] = pc[q] /\ buf'[q] = buf[q]
                                  /\ buf[q] # i
    BY <1>1, <1>2, <1>3 DEF TypeOK
  <2>2. pc'[p] = "lock"
    BY <1>2 DEF TypeOK
  <2>3. \A q \in Procs : pc[q] \in {"io", "iosleep"} =>
           valid'[buf[q]] = valid[buf[q]]
    BY <1>1, <1>2, <2>1 DEF TypeOK, Using
  <2> QED
    BY <1>2, <2>1, <2>2, <2>3, QueueKept
<1>10. Coherent'
  BY <1>1, <1>2, <1>3 DEF Coherent, TypeOK, Locks
<1>11. NoMissedWakeup'
  BY <1>1, <1>2, <1>3 DEF NoMissedWakeup, TypeOK, Contains
<1> QED
  BY <1>4, <1>5, <1>6, <1>7, <1>8, <1>9, <1>10, <1>11

\* panic() in bget().
LEMMA GetPanicInv ==
  ASSUME IInv, NEW p \in Procs, NEW b \in Blocks, bget_panic(p, b)
  PROVE  IInv'
<1> USE DEF IInv
<1>1. /\ pc[p] = "out" /\ pc' = [pc EXCEPT ![p] = "panic"] /\ buf' = buf
      /\ blockno' = blockno /\ valid' = valid /\ dirty' = dirty /\ data' = data
      /\ refcnt' = refcnt /\ owner' = owner /\ disk' = disk
      /\ idequeue' = idequeue /\ sent' = sent
  BY DEF bget_panic, ide, cache
<1>2. \A q \in Procs : pc'[q] = IF q = p THEN "panic" ELSE pc[q]
  BY <1>1 DEF TypeOK
<1>3. TypeOK'
  BY <1>1 DEF TypeOK
<1>4. Using' /\ Locks' /\ OneBuffer' /\ Flags' /\ NoMissedWakeup'
  BY <1>1, <1>2 DEF Using, Locks, OneBuffer, Flags, NoMissedWakeup, TypeOK, Holding
<1>5. Counts'
  BY <1>1 DEF Counts, Users
<1>6. Queue' /\ Sent'
  BY <1>1, <1>2, QueueKept
<1>7. Coherent'
  BY <1>1, <1>2, NullFresh DEF Coherent, TypeOK
<1> QED
  BY <1>3, <1>4, <1>5, <1>6, <1>7

\* acquiresleep() takes the lock or goes to sleep.
LEMMA AcquireInv ==
  ASSUME IInv, NEW p \in Procs, acquiresleep(p)
  PROVE  IInv'
<1> USE DEF IInv
<1>1. /\ pc[p] = "lock" /\ buf' = buf
      /\ blockno' = blockno /\ valid' = valid /\ dirty' = dirty /\ data' = data
      /\ refcnt' = refcnt /\ disk' = disk /\ idequeue' = idequeue /\ sent' = sent
  BY DEF acquiresleep, ide
<1>2. buf[p] \in Bufs
  BY <1>1, InUse DEF Using
<1>3. Counts' /\ OneBuffer'
  BY <1>1 DEF Counts, Users, OneBuffer
<1>4. CASE Locked(buf[p])
  <2>1. owner' = owner /\ pc' = [pc EXCEPT ![p] = "locksleep"] /\ owner[buf[p]] # NULL
    BY <1>4 DEF acquiresleep, Locked
  <2>2. \A q \in Procs : pc'[q] = IF q = p THEN "locksleep" ELSE pc[q]
    BY <2>1 DEF TypeOK
  <2>3. TypeOK'
    BY <1>1, <2>1 DEF TypeOK
  <2>4. Using' /\ Locks' /\ Flags' /\ NoMissedWakeup'
    BY <1>1, <2>1, <2>2 DEF Using, Locks, Flags, NoMissedWakeup, TypeOK, Holding
  <2>5. Queue' /\ Sent'
    BY <1>1, <2>1, <2>2, QueueKept
  <2>6. Coherent'
    BY <1>1, <2>1, <2>2, NullFresh DEF Coherent, TypeOK
  <2> QED
    BY <1>3, <2>3, <2>4, <2>5, <2>6
<1>5. CASE ~Locked(buf[p])
  <2>1. /\ owner' = [owner EXCEPT ![buf[p]] = p]
        /\ pc' = [pc EXCEPT ![p] = "got"] /\ owner[buf[p]] = NULL
    BY <1>5 DEF acquiresleep, Locked
  <2>2. \A q \in Procs : pc'[q] = IF q = p THEN "got" ELSE pc[q]
    BY <2>1 DEF TypeOK
  <2>3. TypeOK'
    BY <1>1, <2>1 DEF TypeOK, Holding
  <2>4. \A i \in Bufs : owner'[i] = IF i = buf[p] THEN p ELSE owner[i]
    BY <2>1 DEF TypeOK
  <2>5. Using' /\ Flags'
    BY <1>1, <2>2 DEF Using, Flags
  <2>6. Locks'
    <3>1. ASSUME NEW q \in Procs, pc'[q] \in Holding
          PROVE  owner'[buf'[q]] = q
      <4>1. CASE q = p
        BY <1>1, <1>2, <2>4, <4>1
      <4>2. CASE q # p
        <5>1. pc[q] \in Holding /\ owner[buf[q]] = q
          BY <2>2, <3>1, <4>2 DEF Locks
        <5>2. buf[q] \in Bufs
          BY <5>1, InUse DEF Using, Holding
        <5> QED
          BY <1>1, <2>1, <2>4, <5>1, <5>2, NullFresh
      <4> QED
        BY <4>1, <4>2
    <3>2. ASSUME NEW i \in Bufs, owner'[i] # NULL
          PROVE  buf'[owner'[i]] = i /\ pc'[owner'[i]] \in Holding
      <4>1. CASE i = buf[p]
        BY <1>1, <2>2, <2>4, <4>1 DEF Holding
      <4>2. CASE i # buf[p]
        <5>1. owner'[i] = owner[i] /\ owner[i] \in Procs
          BY <2>4, <3>2, <4>2 DEF TypeOK
        <5>2. buf[owner[i]] = i /\ pc[owner[i]] \in Holding
          BY <3>2, <5>1 DEF Locks
        <5> QED
          BY <1>1, <2>2, <5>1, <5>2 DEF Holding
      <4> QED
        BY <4>1, <4>2
    <3> QED
      BY <3>1, <3>2 DEF Locks
  <2>7. NoMissedWakeup'
    <3>1. \A q \in Procs : pc[q] = "locksleep" => buf[q] \in Bufs
      BY InUse DEF Using
    <3> QED
      BY <1>1, <2>2, <2>4, <3>1, NullFresh DEF NoMissedWakeup
  <2>8. Queue' /\ Sent'
    <3>1. \A q \in Procs : pc[q] \in {"io", "iosleep"} =>
             owner'[buf[q]] = owner[buf[q]]
      <4> SUFFICES ASSUME NEW q \in Procs, pc[q] \in {"io", "iosleep"}
                   PROVE  owner'[buf[q]] = owner[buf[q]]
        OBVIOUS
      <4>1. owner[buf[q]] = q /\ buf[q] \in Bufs
        BY InUse DEF Locks, Holding, Using
      <4> QED
        BY <2>1, <2>4, <4>1, NullFresh
    <3> QED
      BY <1>1, <2>2, <3>1, QueueKept
  <2>9. Coherent'
    BY <1>1, <2>1, <2>2, <2>4, NullFresh DEF Coherent, TypeOK
  <2> QED
    BY <1>3, <2>3, <2>5, <2>6, <2>7, <2>8, <2>9
<1> QED
  BY <1>4, <1>5

\* Who holds a buffer is the only one in iderw() with it.
LEMMA Alone ==
  ASSUME IInv, NEW p \in Procs, pc[p] \in Holding
  PROVE  /\ buf[p] \in Bufs /\ blockno[buf[p]] \in Blocks /\ owner[buf[p]] = p
         /\ \A q \in Procs : q # p /\ pc[q] \in Holding => buf[q] # buf[p]
         /\ \A i \in Bufs : owner[i] = p => i = buf[p]
<1>1. buf[p] \in Bufs /\ blockno[buf[p]] \in Blocks /\ owner[buf[p]] = p
  BY InUse DEF IInv, Using, Locks, Holding
<1>2. \A q \in Procs : q # p /\ pc[q] \in Holding => buf[q] # buf[p]
  BY <1>1 DEF IInv, Locks
<1> QED
  BY <1>1, <1>2, NullFresh DEF IInv, Locks

\* A buffer in the queue is held by a process in iderw().
LEMMA NotQueued ==
  ASSUME IInv, NEW p \in Procs, pc[p] \in {"got", "use", "changed"}
  PROVE  \A n \in 1..Len(idequeue) : idequeue[n] # buf[p]
BY Alone DEF IInv, Queue, Holding

\* What the holder of a buffer does between two calls of iderw() does not
\* concern the others.
LEMMA HolderStep ==
  ASSUME IInv, NEW p \in Procs, pc[p] \in {"got", "use", "changed"},
         NEW x \in {"use", "changed"}, pc' = [pc EXCEPT ![p] = x],
         buf' = buf, blockno' = blockno, refcnt' = refcnt, owner' = owner,
         disk' = disk, idequeue' = idequeue, sent' = sent, valid' = valid,
         valid[buf[p]],
         \A i \in Bufs : i # buf[p] => dirty'[i] = dirty[i] /\ data'[i] = data[i],
         dirty' \in [Bufs -> BOOLEAN], data' \in [Bufs -> Vals],
         dirty'[buf[p]] \/ data'[buf[p]] = disk[blockno[buf[p]]] \/ x = "changed"
  PROVE  IInv'
<1> USE DEF IInv
<1>1. pc[p] \in Holding
  BY DEF Holding
<1>2. \A q \in Procs : pc'[q] = IF q = p THEN x ELSE pc[q]
  BY DEF TypeOK
<1>3. TypeOK'
  BY DEF TypeOK, Holding
<1>4. Using' /\ Locks' /\ OneBuffer' /\ NoMissedWakeup'
  BY <1>1, <1>2 DEF Using, Locks, OneBuffer, NoMissedWakeup, TypeOK, Holding
<1>5. Flags'
  BY <1>1, <1>2, Alone DEF Flags
<1>6. Counts'
  BY DEF Counts, Users
<1>7. Queue' /\ Sent'
  <2>1. \A q \in Procs : pc[q] \in {"io", "iosleep"} => buf[q] \in Bufs /\ buf[q] # buf[p]
    BY <1>1, Alone DEF Holding
  <2> QED
    BY <1>2, <2>1, QueueKept
<1>8. Coherent'
  <2> SUFFICES ASSUME NEW i \in Bufs, valid'[i], ~dirty'[i]
               PROVE  \/ data'[i] = disk'[blockno'[i]]
                      \/ owner'[i] # NULL /\ pc'[owner'[i]] = "changed"
    BY DEF Coherent
  <2>1. CASE i = buf[p]
    BY <1>1, <1>2, <2>1, Alone, NullFresh
  <2>2. CASE i # buf[p]
    <3>1. owner[i] # p
      BY <1>1, <2>2, Alone
    <3> QED
      BY <1>2, <2>2, <3>1 DEF Coherent, TypeOK
  <2> QED
    BY <2>1, <2>2
<1> QED
  BY <1>3, <1>4, <1>5, <1>6, <1>7, <1>8

\* The process changes the block that it holds.
LEMMA ChangeInv ==
  ASSUME IInv, NEW p \in Procs, NEW v \in Vals, Change(p, v)
  PROVE  IInv'
<1>1. pc[p] = "use" /\ pc[p] \in Holding
  BY DEF Change, Holding
<1>2. buf[p] \in Bufs
  BY <1>1, Alone
<1>3. valid[buf[p]]
  BY <1>1 DEF IInv, Flags
<1>4. /\ dirty' \in [Bufs -> BOOLEAN] /\ data' \in [Bufs -> Vals]
      /\ \A i \in Bufs : i # buf[p] => dirty'[i] = dirty[i] /\ data'[i] = data[i]
  BY DEF Change, IInv, TypeOK
<1> QED
  BY <1>1, <1>3, <1>4, HolderStep DEF Change, ide

\* log_write() pins the buffer.
LEMMA LogWriteInv ==
  ASSUME IInv, NEW p \in Procs, log_write(p)
  PROVE  IInv'
<1>1. pc[p] = "changed" /\ pc[p] \in Holding
  BY DEF log_write, Holding
<1>2. buf[p] \in Bufs
  BY <1>1, Alone
<1>3. valid[buf[p]]
  BY <1>1 DEF IInv, Flags
<1>4. /\ dirty' \in [Bufs -> BOOLEAN] /\ data' \in [Bufs -> Vals]
      /\ \A i \in Bufs : i # buf[p] => dirty'[i] = dirty[i] /\ data'[i] = data[i]
      /\ dirty'[buf[p]]
  BY <1>2 DEF log_write, IInv, TypeOK
<1> QED
  BY <1>1, <1>3, <1>4, HolderStep DEF log_write, ide

\* iderw() queues a request for a buffer that is not in the queue.
LEMMA IderwInv ==
  ASSUME IInv, NEW p \in Procs, NEW write \in BOOLEAN,
         pc[p] \in {"got", "use", "changed"}, iderw(p, write),
         buf' = buf, blockno' = blockno, refcnt' = refcnt, owner' = owner,
         disk' = disk, valid' = valid, data' = data,
         dirty' \in [Bufs -> BOOLEAN],
         \A i \in Bufs : i # buf[p] => dirty'[i] = dirty[i],
         dirty'[buf[p]] = write, write = valid[buf[p]]
  PROVE  IInv'
<1> USE DEF IInv
<1>1. pc[p] \in Holding
  BY DEF Holding
<1>2. buf[p] \in Bufs /\ owner[buf[p]] = p
  BY <1>1, Alone
<1>3. \A q \in Procs : pc'[q] = IF q = p THEN "iosleep" ELSE pc[q]
  BY DEF iderw, TypeOK
<1>4. /\ idequeue \in Seq(Bufs) /\ idequeue' = Append(idequeue, buf[p])
      /\ Len(idequeue') = Len(idequeue) + 1 /\ Len(idequeue) \in Nat
      /\ idequeue' \in Seq(Bufs) /\ idequeue'[Len(idequeue) + 1] = buf[p]
      /\ \A n \in 1..Len(idequeue) : idequeue'[n] = idequeue[n]
  BY <1>2 DEF iderw, TypeOK
<1>5. \A n \in 1..Len(idequeue) : idequeue[n] \in Bufs /\ idequeue[n] # buf[p]
  BY <1>4, NotQueued
<1>6. TypeOK'
  <2>1. sent' \in Vals \cup {NULL}
    BY <1>2 DEF iderw, Started, idestart, TypeOK
  <2>2. pc' \in [Procs -> Holding \cup {"out", "lock", "locksleep", "release", "panic"}]
    BY DEF iderw, TypeOK, Holding
  <2> QED
    BY <1>4, <2>1, <2>2 DEF TypeOK
<1>7. Using' /\ Locks' /\ OneBuffer'
  <2>1. Using' /\ OneBuffer'
    BY <1>3 DEF Using, OneBuffer
  <2>2. \A q \in Procs : pc'[q] \in Holding <=> pc[q] \in Holding
    BY <1>1, <1>3 DEF Holding
  <2> QED
    BY <2>1, <2>2 DEF Locks, TypeOK
<1>8. Counts'
  BY DEF Counts, Users
<1>9. Flags'
  BY <1>1, <1>2, <1>3, Alone DEF Flags, Holding
<1>10. \A n \in 1..Len(idequeue) :
          /\ owner[idequeue[n]] # NULL
          /\ pc'[owner[idequeue[n]]] \in {"io", "iosleep"}
          /\ ~Done(idequeue[n])'
  <2> SUFFICES ASSUME NEW n \in 1..Len(idequeue)
               PROVE  /\ owner[idequeue[n]] # NULL
                      /\ pc'[owner[idequeue[n]]] \in {"io", "iosleep"}
                      /\ ~Done(idequeue[n])'
    OBVIOUS
  <2>1. owner[idequeue[n]] \in Procs /\ owner[idequeue[n]] # NULL
    BY <1>5 DEF Queue, TypeOK
  <2>2. pc'[owner[idequeue[n]]] \in {"io", "iosleep"}
    BY <1>3, <2>1 DEF Queue
  <2>3. ~Done(idequeue[n])'
    BY <1>4, <1>5 DEF Queue, Done
  <2> QED
    BY <2>1, <2>2, <2>3
<1>11. ~Done(buf[p])'
  BY DEF Done
<1>12. ASSUME NEW q \in Procs, q # p, pc[q] \in {"io", "iosleep"}
       PROVE  /\ Done(buf[q])' <=> Done(buf[q])
              /\ Contains(idequeue, buf[q]) => Contains(idequeue, buf[q])'
  <2>1. buf[q] \in Bufs /\ buf[q] # buf[p]
    BY <1>1, <1>12, Alone DEF Holding
  <2>2. Done(buf[q])' <=> Done(buf[q])
    BY <2>1 DEF Done
  <2>3. Contains(idequeue, buf[q]) => Contains(idequeue, buf[q])'
    BY <1>4 DEF Contains
  <2> QED
    BY <2>2, <2>3
<1>13. Queue'
  <2>1. \A m, n \in 1..Len(idequeue') : idequeue'[m] = idequeue'[n] => m = n
    BY <1>4, <1>5 DEF Queue
  <2>2. \A n \in 1..Len(idequeue') :
           /\ owner'[idequeue'[n]] # NULL
           /\ pc'[owner'[idequeue'[n]]] \in {"io", "iosleep"}
           /\ ~Done(idequeue[n])'
    <3> SUFFICES ASSUME NEW n \in 1..Len(idequeue')
                 PROVE  /\ owner'[idequeue'[n]] # NULL
                        /\ pc'[owner'[idequeue'[n]]] \in {"io", "iosleep"}
                        /\ ~Done(idequeue[n])'
      OBVIOUS
    <3>1. CASE n \in 1..Len(idequeue)
      <4>1. idequeue'[n] = idequeue[n]
        BY <1>4, <3>1
      <4>2. ~(valid'[idequeue[n]] /\ ~dirty'[idequeue[n]])
        BY <1>4, <1>10, <3>1 DEF Done
      <4> QED
        BY <1>10, <3>1, <4>1, <4>2 DEF Done
    <3>2. CASE n = Len(idequeue) + 1
      BY <1>2, <1>3, <1>4, <3>2, <1>11, NullFresh DEF Done
    <3> QED
      BY <1>4, <3>1, <3>2
  <2>3. \A q \in Procs : pc'[q] = "io" => Done(buf[q])' \/ Contains(idequeue, buf[q])'
    BY <1>3, <1>12 DEF Queue
  <2> QED
    BY <2>1, <2>2, <2>3 DEF Queue
<1>14. Sent'
  <2>1. CASE idequeue = <<>>
    <3>1. Head(idequeue') = buf[p]
      BY <1>4, <2>1
    <3>2. sent' = IF write THEN data[buf[p]] ELSE NULL
      BY <2>1 DEF iderw, Started, idestart
    <3> QED
      BY <3>1, <3>2 DEF Sent
  <2>2. CASE idequeue # <<>>
    <3>1. Head(idequeue') = Head(idequeue) /\ Head(idequeue) = idequeue[1] /\ 1 \in 1..Len(idequeue)
      BY <1>4, <2>2
    <3>2. sent' = sent
      BY <2>2 DEF iderw, Started
    <3> QED
      BY <1>5, <2>2, <3>1, <3>2 DEF Sent
  <2> QED
    BY <2>1, <2>2
<1>15. Coherent'
  <2> SUFFICES ASSUME NEW i \in Bufs, valid'[i], ~dirty'[i]
               PROVE  \/ data'[i] = disk'[blockno'[i]]
                      \/ owner'[i] # NULL /\ pc'[owner'[i]] = "changed"
    BY DEF Coherent
  <2>1. i # buf[p]
    OBVIOUS
  <2>2. owner[i] # p
    BY <1>1, <2>1, Alone
  <2> QED
    BY <1>3, <2>1, <2>2 DEF Coherent, TypeOK
<1>16. NoMissedWakeup'
  <2>1. Contains(idequeue, buf[p])'
    BY <1>4 DEF Contains
  <2> QED
    BY <1>3, <1>12, <2>1 DEF NoMissedWakeup
<1> QED
  BY <1>6, <1>7, <1>8, <1>9, <1>13, <1>14, <1>15, <1>16

\* bread() reads a block that is not in its buffer.
LEMMA BreadInv ==
  ASSUME IInv, NEW p \in Procs, bread(p)
  PROVE  IInv'
<1>1. pc[p] = "got" /\ pc[p] \in Holding
  BY DEF bread, Holding
<1>2. buf[p] \in Bufs
  BY <1>1, Alone
<1>3. /\ buf' = buf /\ blockno' = blockno /\ refcnt' = refcnt /\ owner' = owner
      /\ disk' = disk /\ valid' = valid /\ dirty' = dirty /\ data' = data
  BY DEF bread, cache
<1>4. CASE valid[buf[p]]
  <2>1. dirty[buf[p]] \/ data[buf[p]] = disk[blockno[buf[p]]]
    BY <1>1, <1>2, <1>4, Alone DEF IInv, Coherent
  <2>2. dirty' \in [Bufs -> BOOLEAN] /\ data' \in [Bufs -> Vals]
    BY <1>3 DEF IInv, TypeOK
  <2>3. pc' = [pc EXCEPT ![p] = "use"] /\ idequeue' = idequeue /\ sent' = sent
    BY <1>4 DEF bread
  <2> QED
    BY <1>1, <1>3, <1>4, <2>1, <2>2, <2>3, HolderStep
<1>5. CASE ~valid[buf[p]]
  <2>1. dirty[buf[p]] = FALSE /\ valid[buf[p]] = FALSE
    BY <1>2, <1>5 DEF IInv, Flags, TypeOK
  <2>2. iderw(p, FALSE)
    BY <1>5 DEF bread
  <2> QED
    BY <1>1, <1>3, <2>1, <2>2, IderwInv DEF IInv, TypeOK
<1> QED
  BY <1>4, <1>5

\* bwrite() writes the block of its buffer.
LEMMA BwriteInv ==
  ASSUME IInv, NEW p \in Procs, bwrite(p)
  PROVE  IInv'
<1>1. pc[p] \in {"use", "changed"} /\ pc[p] \in Holding
  BY DEF bwrite, Holding
<1>2. buf[p] \in Bufs
  BY <1>1, Alone
<1>3. valid[buf[p]] = TRUE
  BY <1>1, <1>2 DEF IInv, Flags, TypeOK
<1>4. /\ buf' = buf /\ blockno' = blockno /\ refcnt' = refcnt /\ owner' = owner
      /\ disk' = disk /\ valid' = valid /\ data' = data
      /\ iderw(p, TRUE)
  BY DEF bwrite
<1>5. /\ dirty' \in [Bufs -> BOOLEAN] /\ dirty'[buf[p]] = TRUE
      /\ \A i \in Bufs : i # buf[p] => dirty'[i] = dirty[i]
  BY <1>2 DEF bwrite, IInv, TypeOK
<1> QED
  BY <1>1, <1>3, <1>4, <1>5, IderwInv

\* A process that wakes up in iderw() tests the flags again.
LEMMA LoopInv ==
  ASSUME IInv, NEW p \in Procs, IderwLoop(p)
  PROVE  IInv'
<1> USE DEF IInv
<1>1. /\ pc[p] = "io" /\ buf' = buf /\ pc[p] \in Holding
      /\ blockno' = blockno /\ valid' = valid /\ dirty' = dirty /\ data' = data
      /\ refcnt' = refcnt /\ owner' = owner /\ disk' = disk
      /\ idequeue' = idequeue /\ sent' = sent
  BY DEF IderwLoop, ide, cache, Holding
<1>2. buf[p] \in Bufs /\ owner[buf[p]] = p
  BY <1>1, Alone
<1>3. CASE Done(buf[p])
  <2>1. pc' = [pc EXCEPT ![p] = "use"]
    BY <1>3 DEF IderwLoop
  <2>2. \A q \in Procs : pc'[q] = IF q = p THEN "use" ELSE pc[q]
    BY <2>1 DEF TypeOK
  <2>3. TypeOK'
    BY <1>1, <2>1 DEF TypeOK, Holding
  <2>4. Using' /\ OneBuffer' /\ Counts' /\ Flags' /\ NoMissedWakeup'
    BY <1>1, <1>3, <2>2 DEF Using, OneBuffer, Counts, Users, Flags, NoMissedWakeup, Done
  <2>5. Locks'
    <3>1. \A q \in Procs : pc'[q] \in Holding <=> pc[q] \in Holding
      BY <1>1, <2>2 DEF Holding
    <3> QED
      BY <1>1, <3>1 DEF Locks, TypeOK
  <2>6. \A n \in 1..Len(idequeue) : idequeue[n] \in Bufs /\ owner[idequeue[n]] # p
    BY <1>1, <1>3, Alone DEF Queue, TypeOK
  <2>7. Queue' /\ Sent'
    <3>1. \A n \in 1..Len(idequeue) :
             /\ owner[idequeue[n]] # NULL
             /\ pc'[owner[idequeue[n]]] \in {"io", "iosleep"}
             /\ ~Done(idequeue[n])
      BY <2>2, <2>6 DEF Queue, TypeOK
    <3> QED
      BY <1>1, <2>2, <3>1 DEF Queue, Sent, Done, Contains
  <2>8. Coherent'
    BY <1>1, <2>2 DEF Coherent, TypeOK
  <2> QED
    BY <2>3, <2>4, <2>5, <2>7, <2>8
<1>4. CASE ~Done(buf[p])
  <2>1. pc' = [pc EXCEPT ![p] = "iosleep"]
    BY <1>4 DEF IderwLoop
  <2>2. \A q \in Procs : pc'[q] = IF q = p THEN "iosleep" ELSE pc[q]
    BY <2>1 DEF TypeOK
  <2>3. TypeOK'
    BY <1>1, <2>1 DEF TypeOK, Holding
  <2>4. Using' /\ OneBuffer' /\ Counts' /\ Flags'
    BY <1>1, <2>2 DEF Using, OneBuffer, Counts, Users, Flags
  <2>5. Locks'
    <3>1. \A q \in Procs : pc'[q] \in Holding <=> pc[q] \in Holding
      BY <1>1, <2>2 DEF Holding
    <3> QED
      BY <1>1, <3>1 DEF Locks, TypeOK
  <2>6. Queue' /\ Sent'
    BY <1>1, <2>2, QueueKept
  <2>7. Coherent'
    BY <1>1, <2>2 DEF Coherent, TypeOK
  <2>8. NoMissedWakeup'
    <3>1. Contains(idequeue, buf[p])
      BY <1>1, <1>4 DEF Queue
    <3> QED
      BY <1>1, <2>2, <3>1 DEF NoMissedWakeup
  <2> QED
    BY <2>3, <2>4, <2>5, <2>6, <2>7, <2>8
<1> QED
  BY <1>3, <1>4

\* kill() makes a sleeping process test again.
LEMMA KillInv ==
  ASSUME IInv, NEW p \in Procs, kill(p)
  PROVE  IInv'
<1> USE DEF IInv
<1>1. /\ pc[p] \in {"iosleep", "locksleep"} /\ buf' = buf
      /\ blockno' = blockno /\ valid' = valid /\ dirty' = dirty /\ data' = data
      /\ refcnt' = refcnt /\ owner' = owner /\ disk' = disk
      /\ idequeue' = idequeue /\ sent' = sent
  BY DEF kill, ide, cache
<1>2. \A q \in Procs : pc'[q] = IF q # p THEN pc[q]
                                ELSE IF pc[p] = "iosleep" THEN "io" ELSE "lock"
  BY DEF kill, TypeOK
<1>3. TypeOK'
  BY <1>1 DEF TypeOK, kill, Holding
<1>4. Using' /\ OneBuffer' /\ Counts' /\ Flags' /\ NoMissedWakeup'
  BY <1>1, <1>2 DEF Using, OneBuffer, Counts, Users, Flags, NoMissedWakeup
<1>5. Locks'
  <2>1. \A q \in Procs : pc'[q] \in Holding <=> pc[q] \in Holding
    BY <1>1, <1>2 DEF Holding
  <2> QED
    BY <1>1, <2>1 DEF Locks, TypeOK
<1>6. Queue' /\ Sent'
  BY <1>1, <1>2, QueueKept
<1>7. Coherent'
  BY <1>1, <1>2 DEF Coherent, TypeOK
<1> QED
  BY <1>3, <1>4, <1>5, <1>6, <1>7

\* releasesleep() wakes everybody who waits for the lock.
LEMMA ReleaseInv ==
  ASSUME IInv, NEW p \in Procs, releasesleep(p)
  PROVE  IInv'
<1> USE DEF IInv
<1>1. /\ pc[p] = "use" /\ buf' = buf /\ pc[p] \in Holding
      /\ owner' = [owner EXCEPT ![buf[p]] = NULL]
      /\ blockno' = blockno /\ valid' = valid /\ dirty' = dirty /\ data' = data
      /\ refcnt' = refcnt /\ disk' = disk /\ idequeue' = idequeue /\ sent' = sent
  BY DEF releasesleep, ide, Holding
<1>2. buf[p] \in Bufs /\ owner[buf[p]] = p
  BY <1>1, Alone
<1>3. /\ \A q \in Procs : pc'[q] =
            IF q = p THEN "release"
            ELSE IF pc[q] = "locksleep" /\ buf[q] = buf[p] THEN "lock" ELSE pc[q]
      /\ pc' \in [Procs -> Holding \cup {"out", "lock", "locksleep", "release", "panic"}]
  BY DEF releasesleep, Released, TypeOK
<1>4. \A i \in Bufs : owner'[i] = IF i = buf[p] THEN NULL ELSE owner[i]
  BY <1>1 DEF TypeOK
<1>5. TypeOK'
  BY <1>1, <1>3 DEF TypeOK
<1>6. Using' /\ OneBuffer' /\ Counts' /\ Flags'
  BY <1>1, <1>3 DEF Using, OneBuffer, Counts, Users, Flags
<1>7. \A q \in Procs : pc'[q] \in Holding <=> pc[q] \in Holding /\ q # p
  BY <1>3 DEF Holding
<1>8. \A q \in Procs : pc[q] \in Holding /\ q # p =>
         /\ buf[q] \in Bufs /\ buf[q] # buf[p] /\ owner'[buf[q]] = owner[buf[q]]
         /\ pc'[q] = pc[q]
  BY <1>1, <1>3, <1>4, Alone DEF Holding
<1>9. Locks'
  <2>1. \A i \in Bufs : owner'[i] # NULL => owner'[i] = owner[i] /\ owner[i] # p /\ owner[i] \in Procs
    BY <1>1, <1>2, <1>4, Alone DEF TypeOK
  <2> QED
    BY <1>1, <1>7, <1>8, <2>1 DEF Locks
<1>10. Queue' /\ Sent'
  <2>1. \A q \in Procs : pc[q] \in {"io", "iosleep"} => pc[q] \in Holding /\ q # p
    BY <1>1 DEF Holding
  <2>2. \A q \in Procs : pc'[q] = "io" => pc[q] = "io"
    BY <1>3
  <2> QED
    BY <1>1, <1>8, <2>1, <2>2, QueueKept
<1>11. Coherent'
  <2> SUFFICES ASSUME NEW i \in Bufs, valid'[i], ~dirty'[i]
               PROVE  \/ data'[i] = disk'[blockno'[i]]
                      \/ owner'[i] # NULL /\ pc'[owner'[i]] = "changed"
    BY DEF Coherent
  <2>1. CASE data[i] = disk[blockno[i]]
    BY <1>1, <2>1
  <2>2. CASE owner[i] # NULL /\ pc[owner[i]] = "changed"
    BY <1>1, <1>2, <1>3, <1>4, <2>2 DEF TypeOK
  <2> QED
    BY <1>1, <2>1, <2>2 DEF Coherent
<1>12. NoMissedWakeup'
  <2>1. \A q \in Procs : pc[q] = "locksleep" => buf[q] \in Bufs
    BY InUse DEF Using
  <2> QED
    BY <1>1, <1>3, <1>4, <2>1 DEF NoMissedWakeup
<1> QED
  BY <1>5, <1>6, <1>9, <1>10, <1>11, <1>12

\* The second half of brelse(): the process is no longer a user.
LEMMA BrelseInv ==
  ASSUME IInv, NEW p \in Procs, brelse(p)
  PROVE  IInv'
<1> USE DEF IInv
<1>1. /\ pc[p] = "release" /\ buf' = [buf EXCEPT ![p] = NULL]
      /\ refcnt' = [refcnt EXCEPT ![buf[p]] = @ - 1]
      /\ pc' = [pc EXCEPT ![p] = "out"]
      /\ blockno' = blockno /\ valid' = valid /\ dirty' = dirty /\ data' = data
      /\ owner' = owner /\ disk' = disk /\ idequeue' = idequeue /\ sent' = sent
  BY DEF brelse, ide
<1>2. buf[p] \in Bufs /\ refcnt[buf[p]] # 0
  BY <1>1, InUse DEF Using
<1>3. \A q \in Procs : /\ pc'[q] = IF q = p THEN "out" ELSE pc[q]
                       /\ buf'[q] = IF q = p THEN NULL ELSE buf[q]
  BY <1>1 DEF TypeOK
<1>4. TypeOK'
  <2>1. refcnt' \in [Bufs -> Nat]
    BY <1>1, <1>2 DEF TypeOK
  <2>2. /\ pc' \in [Procs -> Holding \cup {"out", "lock", "locksleep", "release", "panic"}]
        /\ buf' \in [Procs -> Bufs \cup {NULL}]
    BY <1>1 DEF TypeOK
  <2> QED
    BY <1>1, <2>1, <2>2 DEF TypeOK
<1>5. Using' /\ OneBuffer' /\ Flags' /\ NoMissedWakeup'
  BY <1>1, <1>3 DEF Using, OneBuffer, Flags, NoMissedWakeup
<1>6. Counts'
  <2> SUFFICES ASSUME NEW j \in Bufs
               PROVE  /\ IsFiniteSet(Users(j)') /\ refcnt'[j] = Cardinality(Users(j)')
    BY DEF Counts
  <2>1. CASE j = buf[p]
    <3>1. Users(j)' = Users(j) \ {p} /\ p \in Users(j)
      BY <1>3, <2>1, NullFresh DEF Users
    <3>2. refcnt'[j] = refcnt[j] - 1
      BY <1>1, <1>2, <2>1 DEF TypeOK
    <3> QED
      BY <3>1, <3>2, FS_RemoveElement DEF Counts
  <2>2. CASE j # buf[p]
    <3>1. Users(j)' = Users(j)
      BY <1>3, <2>2, NullFresh DEF Users
    <3> QED
      BY <1>1, <2>2, <3>1 DEF Counts, TypeOK
  <2> QED
    BY <2>1, <2>2
<1>7. \A i \in Bufs : owner[i] # p
  BY <1>1, NullFresh DEF Locks, Holding
<1>8. Locks'
  BY <1>1, <1>3, <1>7 DEF Locks, TypeOK, Holding
<1>9. Queue' /\ Sent'
  BY <1>1, <1>3, QueueKept
<1>10. Coherent'
  BY <1>1, <1>3, <1>7 DEF Coherent, TypeOK
<1> QED
  BY <1>4, <1>5, <1>6, <1>8, <1>9, <1>10

\* The interrupt finishes the request at the head of the queue, wakes its
\* process and starts the next request.
LEMMA IdeintrInv ==
  ASSUME IInv, ideintr
  PROVE  IInv'
<1> USE DEF IInv
<1> DEFINE i == Head(idequeue)
           rest == Tail(idequeue)
<1>1. /\ idequeue # <<>> /\ idequeue \in Seq(Bufs) /\ Len(idequeue) \in Nat \ {0}
      /\ i = idequeue[1] /\ i \in Bufs /\ 1 \in 1..Len(idequeue)
      /\ rest \in Seq(Bufs) /\ Len(rest) = Len(idequeue) - 1
      /\ \A n \in 1..Len(rest) : rest[n] = idequeue[n + 1] /\ rest[n] \in Bufs
  BY DEF ideintr, TypeOK
<1>2. \A n \in 1..Len(rest) : rest[n] # i
  BY <1>1 DEF Queue
<1>3. /\ idequeue' = rest
      /\ valid' = [valid EXCEPT ![i] = TRUE] /\ dirty' = [dirty EXCEPT ![i] = FALSE]
      /\ blockno' = blockno /\ refcnt' = refcnt /\ owner' = owner /\ buf' = buf
      /\ sent' = IF rest = <<>> THEN NULL ELSE idestart(Head(rest), dirty[Head(rest)])
      /\ pc' = WakeIo(i)
      /\ dirty[i] => disk' = [disk EXCEPT ![blockno[i]] = sent] /\ data' = data
      /\ ~dirty[i] => data' = [data EXCEPT ![i] = disk[blockno[i]]] /\ disk' = disk
  BY DEF ideintr
<1>4. PICK p \in Procs : /\ owner[i] = p /\ buf[p] = i
                         /\ pc[p] \in {"io", "iosleep"} /\ pc[p] \in Holding
  BY <1>1 DEF Queue, TypeOK, Locks, Holding
<1>5. /\ \A q \in Procs : pc'[q] = IF q = p /\ pc[p] = "iosleep" THEN "io" ELSE pc[q]
      /\ pc'[p] = "io"
      /\ pc' \in [Procs -> Holding \cup {"out", "lock", "locksleep", "release", "panic"}]
  <2>1. \A q \in Procs : pc[q] = "iosleep" /\ buf[q] = i => q = p
    BY <1>4 DEF Locks, Holding
  <2>2. \A q \in Procs : pc'[q] = IF pc[q] = "iosleep" /\ buf[q] = i THEN "io" ELSE pc[q]
    BY <1>3 DEF WakeIo
  <2>3. pc' \in [Procs -> Holding \cup {"out", "lock", "locksleep", "release", "panic"}]
    BY <1>3 DEF WakeIo, TypeOK, Holding
  <2> HIDE DEF i
  <2> QED
    BY <1>4, <2>1, <2>2, <2>3
<1>6. /\ blockno[i] \in Blocks
      /\ \A j \in Bufs : j # i => blockno[j] # blockno[i]
  BY <1>1, <1>4, Alone, NullFresh DEF OneBuffer, TypeOK
<1> HIDE DEF i, rest
<1>7. \A j \in Bufs : /\ valid'[j] = IF j = i THEN TRUE ELSE valid[j]
                      /\ dirty'[j] = IF j = i THEN FALSE ELSE dirty[j]
  BY <1>3 DEF TypeOK
<1>8. dirty[i] => sent = data[i] /\ sent \in Vals
  BY <1>1 DEF Sent, TypeOK, i
<1>9. TypeOK'
  <2>1. disk' \in [Blocks -> Vals] /\ data' \in [Bufs -> Vals]
    <3>1. CASE dirty[i]
      BY <1>3, <1>8, <3>1 DEF TypeOK
    <3>2. CASE ~dirty[i]
      BY <1>3, <1>6, <3>2 DEF TypeOK
    <3> QED
      BY <3>1, <3>2
  <2>2. valid' \in [Bufs -> BOOLEAN] /\ dirty' \in [Bufs -> BOOLEAN]
    BY <1>3 DEF TypeOK
  <2>3. sent' \in Vals \cup {NULL}
    <3>1. CASE rest = <<>>
      BY <1>3, <3>1
    <3>2. CASE rest # <<>>
      <4>1. Head(rest) \in Bufs
        BY <1>1, <3>2
      <4> QED
        BY <1>3, <3>2, <4>1 DEF TypeOK, idestart
    <3> QED
      BY <3>1, <3>2
  <2> QED
    BY <1>1, <1>3, <1>5, <2>1, <2>2, <2>3 DEF TypeOK
<1>10. Using' /\ OneBuffer'
  BY <1>3, <1>5 DEF Using, OneBuffer
<1>11. Counts'
  BY <1>3 DEF Counts, Users
<1>12. Flags'
  BY <1>3, <1>5, <1>6, <1>7, NullFresh DEF Flags, TypeOK
<1>13. Locks'
  <2>1. \A q \in Procs : pc'[q] \in Holding <=> pc[q] \in Holding
    BY <1>5 DEF Holding
  <2> QED
    BY <1>3, <2>1 DEF Locks, TypeOK
<1>14. ASSUME NEW j \in Bufs, j # i, Contains(idequeue, j)
       PROVE  Contains(rest, j)
  <2>1. PICK n \in 1..Len(idequeue) : idequeue[n] = j
    BY <1>14 DEF Contains
  <2>2. n # 1 /\ n - 1 \in 1..Len(rest) /\ rest[n - 1] = j
    BY <1>1, <1>14, <2>1
  <2> QED
    BY <2>2 DEF Contains
<1>15. Queue'
  <2>1. ASSUME NEW m \in 1..Len(rest), NEW n \in 1..Len(rest), rest[m] = rest[n]
        PROVE  m = n
    <3>1. /\ m + 1 \in 1..Len(idequeue) /\ n + 1 \in 1..Len(idequeue)
          /\ idequeue[m + 1] = idequeue[n + 1]
      BY <1>1, <2>1
    <3>2. m + 1 = n + 1
      BY <3>1 DEF Queue
    <3> QED
      BY <3>2
  <2>2. ASSUME NEW n \in 1..Len(rest)
        PROVE  /\ owner[rest[n]] # NULL
               /\ pc'[owner[rest[n]]] \in {"io", "iosleep"}
               /\ ~(valid'[rest[n]] /\ ~dirty'[rest[n]])
    <3>1. n + 1 \in 1..Len(idequeue) /\ rest[n] = idequeue[n + 1] /\ rest[n] \in Bufs
          /\ rest[n] # i
      BY <1>1, <1>2
    <3>2. /\ owner[rest[n]] \in Procs /\ owner[rest[n]] # NULL
          /\ pc[owner[rest[n]]] \in {"io", "iosleep"} /\ ~Done(rest[n])
      BY <3>1 DEF Queue, TypeOK
    <3>3. ~(valid'[rest[n]] /\ ~dirty'[rest[n]])
      BY <1>7, <3>1, <3>2 DEF Done
    <3> QED
      BY <1>5, <3>2, <3>3
  <2>3. ASSUME NEW q \in Procs, pc'[q] = "io"
        PROVE  Done(buf[q])' \/ Contains(idequeue, buf[q])'
    <3>1. CASE q = p
      BY <1>1, <1>3, <1>4, <1>7, <3>1 DEF Done
    <3>2. CASE q # p
      <4>1. pc[q] = "io" /\ buf[q] \in Bufs /\ buf[q] # i /\ buf'[q] = buf[q]
        BY <1>3, <1>4, <1>5, <2>3, <3>2, Alone DEF Holding
      <4> QED
        BY <1>3, <1>7, <1>14, <4>1 DEF Queue, Done
    <3> QED
      BY <3>1, <3>2
  <2> QED
    BY <1>3, <2>1, <2>2, <2>3 DEF Queue, Done
<1>16. Sent'
  <2>1. CASE rest = <<>>
    BY <1>3, <2>1 DEF Sent
  <2>2. CASE rest # <<>>
    <3>1. Head(rest) \in Bufs /\ Head(rest) # i
      BY <1>1, <1>2, <2>2
    <3>2. data'[Head(rest)] = data[Head(rest)]
      BY <1>3, <3>1 DEF TypeOK
    <3> QED
      BY <1>3, <1>7, <2>2, <3>1, <3>2 DEF Sent, idestart
  <2> QED
    BY <2>1, <2>2
<1>17. Coherent'
  <2> SUFFICES ASSUME NEW j \in Bufs, valid'[j], ~dirty'[j]
               PROVE  \/ data'[j] = disk'[blockno'[j]]
                      \/ owner'[j] # NULL /\ pc'[owner'[j]] = "changed"
    BY DEF Coherent
  <2>1. CASE j = i
    BY <1>1, <1>3, <1>6, <1>8, <2>1 DEF TypeOK
  <2>2. CASE j # i
    <3>1. valid[j] /\ ~dirty[j]
      BY <1>7, <2>2
    <3>2. data'[j] = data[j]
      BY <1>3, <2>2 DEF TypeOK
    <3>3. blockno[j] \in Blocks /\ blockno[j] # blockno[i]
      BY <1>6, <2>2, <3>1 DEF Flags, TypeOK
    <3>4. disk'[blockno[j]] = disk[blockno[j]]
      BY <1>3, <3>3 DEF TypeOK
    <3>5. CASE owner[j] # NULL /\ pc[owner[j]] = "changed"
      BY <1>3, <1>5, <3>5 DEF TypeOK
    <3> QED
      BY <1>3, <3>1, <3>2, <3>4, <3>5 DEF Coherent
  <2> QED
    BY <2>1, <2>2
<1>18. NoMissedWakeup'
  <2> SUFFICES ASSUME NEW q \in Procs
               PROVE  /\ pc'[q] = "iosleep" => Contains(idequeue, buf[q])'
                      /\ pc'[q] = "locksleep" => owner'[buf'[q]] # NULL
    BY DEF NoMissedWakeup
  <2>1. ASSUME pc'[q] = "iosleep"
        PROVE  Contains(idequeue, buf[q])'
    <3>1. q # p /\ pc[q] = "iosleep"
      BY <1>5, <2>1
    <3>2. buf[q] \in Bufs /\ buf[q] # i
      BY <1>4, <3>1, Alone DEF Holding
    <3> QED
      BY <1>3, <1>14, <3>1, <3>2 DEF NoMissedWakeup
  <2> QED
    BY <1>3, <1>5, <2>1 DEF NoMissedWakeup
<1> QED
  BY <1>9, <1>10, <1>11, <1>12, <1>13, <1>15, <1>16, <1>17, <1>18

\* Every step keeps the invariant.
LEMMA NextInv == IInv /\ [Next]_vars => IInv'
<1> SUFFICES ASSUME IInv, [Next]_vars PROVE IInv'
  OBVIOUS
<1>1. CASE UNCHANGED vars
  <2>1. /\ disk' = disk /\ blockno' = blockno /\ valid' = valid /\ dirty' = dirty
        /\ refcnt' = refcnt /\ data' = data /\ owner' = owner /\ idequeue' = idequeue
        /\ sent' = sent /\ pc' = pc /\ buf' = buf
    BY <1>1 DEF vars, cache, ide
  <2>2. TypeOK' /\ Using' /\ Counts' /\ Locks' /\ OneBuffer' /\ Flags'
    BY <2>1 DEF IInv, TypeOK, Using, Counts, Users, Locks, OneBuffer, Flags
  <2>3. Queue' /\ Sent'
    BY <2>1, QueueKept
  <2>4. Coherent' /\ NoMissedWakeup'
    BY <2>1 DEF IInv, Coherent, NoMissedWakeup
  <2> QED
    BY <2>2, <2>3, <2>4 DEF IInv
<1>2. CASE Next
  BY <1>2, GetCachedInv, GetRecycleInv, GetPanicInv, AcquireInv, BreadInv,
     ChangeInv, LogWriteInv, BwriteInv, ReleaseInv, BrelseInv, LoopInv,
     KillInv, IdeintrInv DEF Next
<1> QED
  BY <1>1, <1>2

\* The inductive invariant holds in every reachable state.
THEOREM Invariance == Spec => []IInv
BY InitInv, NextInv, PTL DEF Spec

\* Type correctness.
THEOREM TypeCorrect == Spec => []TypeOK
<1>1. IInv => TypeOK
  BY DEF IInv
<1> QED
  BY <1>1, Invariance, PTL

\* The reference counts are exact.
THEOREM RefcntsExact == Spec => []RefcntExact
<1>1. IInv => RefcntExact
  BY DEF IInv, Counts, Users, RefcntExact
<1> QED
  BY <1>1, Invariance, PTL

\* No process sleeps on a request or a lock without being woken.
THEOREM WakeupsComplete == Spec => []NoMissedWakeup
<1>1. IInv => NoMissedWakeup
  BY DEF IInv
<1> QED
  BY <1>1, Invariance, PTL

-----------------------------------------------------------------------------
(* The buffer cache implements BlockStore                                  *)

\* What BlockStore calls mem and holder.
Mem ==
    [b \in Blocks |->
        IF \E i \in Cached(b) : valid[i]
        THEN data[CHOOSE i \in Cached(b) : valid[i]] ELSE disk[b]]

Holder ==
    [b \in Blocks |->
        IF \E i \in Cached(b) : owner[i] # NULL
        THEN owner[CHOOSE i \in Cached(b) : owner[i] # NULL] ELSE NULL]

\* A block that no buffer has is on the disk and not in use; one that a
\* buffer has is what the buffer shows.
StoreIs ==
    /\ Mem = [b \in Blocks |-> Mem[b]] /\ Holder = [b \in Blocks |-> Holder[b]]
    /\ \A b \in Blocks : (\A i \in Bufs : blockno[i] # b) =>
          Mem[b] = disk[b] /\ Holder[b] = NULL
    /\ \A i \in Bufs : blockno[i] # NULL =>
          /\ Mem[blockno[i]] = IF valid[i] THEN data[i] ELSE disk[blockno[i]]
          /\ Holder[blockno[i]] = owner[i]

\* Mem and Holder are what the buffers say, because no block is in two.
LEMMA StoreLemma == IInv => StoreIs
<1> SUFFICES ASSUME IInv PROVE StoreIs
  OBVIOUS
<1>1. Mem = [b \in Blocks |-> Mem[b]] /\ Holder = [b \in Blocks |-> Holder[b]]
  BY DEF Mem, Holder
<1>2. ASSUME NEW b \in Blocks, \A i \in Bufs : blockno[i] # b
      PROVE  Mem[b] = disk[b] /\ Holder[b] = NULL
  BY <1>2 DEF Mem, Holder, Cached
<1>3. ASSUME NEW i \in Bufs, blockno[i] # NULL
      PROVE  /\ Mem[blockno[i]] = IF valid[i] THEN data[i] ELSE disk[blockno[i]]
             /\ Holder[blockno[i]] = owner[i]
  <2>1. blockno[i] \in Blocks /\ Cached(blockno[i]) = {i}
    BY <1>3 DEF IInv, TypeOK, OneBuffer, Cached
  <2>2. valid[i] => (CHOOSE j \in Cached(blockno[i]) : valid[j]) = i
    BY <2>1
  <2>3. owner[i] # NULL => (CHOOSE j \in Cached(blockno[i]) : owner[j] # NULL) = i
    BY <2>1
  <2> QED
    BY <2>1, <2>2, <2>3 DEF Mem, Holder
<1> QED
  BY <1>1, <1>2, <1>3 DEF StoreIs

\* Two functions that agree on every block are the same.
LEMMA SameBlocks ==
  ASSUME NEW f, NEW g, f = [b \in Blocks |-> f[b]], g = [b \in Blocks |-> g[b]],
         \A b \in Blocks : f[b] = g[b]
  PROVE  f = g
OBVIOUS

\* A step that changes neither the blocks nor the flags, contents and
\* owners of the buffers changes nothing in BlockStore.
LEMMA StoreKept ==
  ASSUME blockno' = blockno, valid' = valid, data' = data, disk' = disk
  PROVE  Mem' = Mem /\ (owner' = owner => Holder' = Holder)
BY DEF Mem, Holder, Cached

\* A change of the owner of a buffer is one of the holder of its block.
LEMMA HolderChange ==
  ASSUME IInv, StoreIs, StoreIs', blockno' = blockno,
         NEW i \in Bufs, blockno[i] # NULL, NEW x, owner' = [owner EXCEPT ![i] = x]
  PROVE  Holder' = [Holder EXCEPT ![blockno[i]] = x]
<1>1. \A j \in Bufs : owner'[j] = IF j = i THEN x ELSE owner[j]
  BY DEF IInv, TypeOK
<1>2. ASSUME NEW c \in Blocks
      PROVE  Holder'[c] = IF c = blockno[i] THEN x ELSE Holder[c]
  <2>1. CASE \E j \in Bufs : blockno[j] = c
    <3>1. PICK j \in Bufs : blockno[j] = c /\ blockno[j] # NULL
      BY <2>1, NullFresh
    <3>2. Holder[c] = owner[j] /\ Holder'[c] = owner'[j]
      BY <3>1 DEF StoreIs
    <3>3. c = blockno[i] <=> j = i
      BY <3>1 DEF IInv, OneBuffer
    <3> QED
      BY <1>1, <3>2, <3>3
  <2>2. CASE \A j \in Bufs : blockno[j] # c
    <3>1. Holder[c] = NULL /\ Holder'[c] = NULL
      BY <2>2 DEF StoreIs
    <3> QED
      BY <2>2, <3>1
  <2> QED
    BY <2>1, <2>2
<1>3. Holder = [c \in Blocks |-> Holder[c]] /\ Holder' = [c \in Blocks |-> Holder'[c]]
  BY DEF StoreIs
<1> QED
  BY <1>2, <1>3

\* A change of the contents of a valid buffer is one of its block.
LEMMA MemChange ==
  ASSUME IInv, StoreIs, StoreIs', blockno' = blockno, valid' = valid, disk' = disk,
         NEW i \in Bufs, blockno[i] # NULL, valid[i],
         NEW v, data' = [data EXCEPT ![i] = v]
  PROVE  Mem' = [Mem EXCEPT ![blockno[i]] = v]
<1>1. \A j \in Bufs : data'[j] = IF j = i THEN v ELSE data[j]
  BY DEF IInv, TypeOK
<1>2. ASSUME NEW c \in Blocks
      PROVE  Mem'[c] = IF c = blockno[i] THEN v ELSE Mem[c]
  <2>1. CASE \E j \in Bufs : blockno[j] = c
    <3>1. PICK j \in Bufs : blockno[j] = c /\ blockno[j] # NULL
      BY <2>1, NullFresh
    <3>2. /\ Mem[c] = (IF valid[j] THEN data[j] ELSE disk[c])
          /\ Mem'[c] = (IF valid[j] THEN data'[j] ELSE disk[c])
      BY <3>1 DEF StoreIs
    <3>3. c = blockno[i] <=> j = i
      BY <3>1 DEF IInv, OneBuffer
    <3> QED
      BY <1>1, <3>2, <3>3
  <2>2. CASE \A j \in Bufs : blockno[j] # c
    <3>1. Mem[c] = disk[c] /\ Mem'[c] = disk[c]
      BY <2>2 DEF StoreIs
    <3> QED
      BY <2>2, <3>1
  <2> QED
    BY <2>1, <2>2
<1>3. Mem = [c \in Blocks |-> Mem[c]] /\ Mem' = [c \in Blocks |-> Mem'[c]]
  BY DEF StoreIs
<1> QED
  BY <1>2, <1>3

\* acquiresleep() is Acquire, Change is Write and releasesleep() is Release;
\* every other step changes nothing in BlockStore.
LEMMA StepRefines ==
  ASSUME IInv, IInv', [Next]_vars
  PROVE  [Store!Next]_(Store!vars)
<1> DEFINE Same == Mem' = Mem /\ Holder' = Holder
<1>1. Same => UNCHANGED Store!vars
  BY DEF Store!vars, Mem, Holder
<1>2. StoreIs /\ StoreIs'
  <2>1. IInv' => StoreIs'
    BY StoreLemma, PTL
  <2> QED
    BY <2>1, StoreLemma
<1>3. ASSUME NEW p \in Procs, NEW b \in Blocks, bget_recycle(p, b)
      PROVE  Same
  <2>1. PICK i \in Bufs : /\ refcnt[i] = 0 /\ ~dirty[i]
                          /\ blockno' = [blockno EXCEPT ![i] = b]
                          /\ valid' = [valid EXCEPT ![i] = FALSE]
    BY <1>3 DEF bget_recycle, Recycled, Free
  <2>2. /\ data' = data /\ owner' = owner /\ disk' = disk
        /\ \A j \in Bufs : blockno[j] # b
    BY <1>3 DEF bget_recycle, ide, Cached
  <2>3. owner[i] = NULL
    BY <2>1, LockedInUse
  <2>4. valid[i] => data[i] = disk[blockno[i]]
    BY <2>1, <2>3 DEF IInv, Coherent
  <2>5. \A j \in Bufs : /\ blockno'[j] = IF j = i THEN b ELSE blockno[j]
                        /\ valid'[j] = IF j = i THEN FALSE ELSE valid[j]
    BY <2>1 DEF IInv, TypeOK
  <2>6. ASSUME NEW c \in Blocks
        PROVE  Mem'[c] = Mem[c] /\ Holder'[c] = Holder[c]
    <3>1. CASE c = b
      <4>1. Mem[c] = disk[c] /\ Holder[c] = NULL
        BY <1>2, <2>2, <3>1 DEF StoreIs
      <4>2. blockno'[i] = c /\ ~valid'[i] /\ blockno'[i] # NULL
        BY <2>5, <3>1, NullFresh
      <4>3. Mem'[c] = disk'[c] /\ Holder'[c] = owner'[i]
        BY <1>2, <4>2 DEF StoreIs
      <4> QED
        BY <2>2, <2>3, <4>1, <4>3
    <3>2. CASE c # b /\ c = blockno[i]
      <4>1. Mem[c] = disk[c] /\ Holder[c] = NULL
        BY <1>2, <2>3, <2>4, <3>2, NullFresh DEF StoreIs
      <4>2. \A j \in Bufs : blockno'[j] # c
        BY <2>5, <3>2, NullFresh DEF IInv, OneBuffer
      <4>3. Mem'[c] = disk'[c] /\ Holder'[c] = NULL
        BY <1>2, <4>2 DEF StoreIs
      <4> QED
        BY <2>2, <4>1, <4>3
    <3>3. CASE c # b /\ c # blockno[i]
      <4>1. CASE \E j \in Bufs : blockno[j] = c
        <5>1. PICK j \in Bufs : blockno[j] = c
          BY <4>1
        <5>2. j # i /\ blockno'[j] = c /\ valid'[j] = valid[j] /\ c # NULL
          BY <2>5, <3>3, <5>1, NullFresh
        <5>3. /\ Mem[c] = (IF valid[j] THEN data[j] ELSE disk[c])
              /\ Holder[c] = owner[j]
          <6>1. StoreIs
            BY <1>2
          <6> QED
            BY <5>1, <5>2, <6>1 DEF StoreIs
        <5>4. /\ Mem'[c] = (IF valid'[j] THEN data'[j] ELSE disk'[c])
              /\ Holder'[c] = owner'[j]
          BY <1>2, <5>2 DEF StoreIs
        <5> QED
          BY <2>2, <5>2, <5>3, <5>4
      <4>2. CASE \A j \in Bufs : blockno[j] # c
        <5>1. \A j \in Bufs : blockno'[j] # c
          BY <2>5, <3>3, <4>2
        <5>2. Mem[c] = disk[c] /\ Holder[c] = NULL
          BY <1>2, <4>2 DEF StoreIs
        <5>3. Mem'[c] = disk'[c] /\ Holder'[c] = NULL
          BY <1>2, <5>1 DEF StoreIs
        <5> QED
          BY <2>2, <5>2, <5>3
      <4> QED
        BY <4>1, <4>2
    <3> QED
      BY <3>1, <3>2, <3>3
  <2> QED
    BY <1>2, <2>6, SameBlocks DEF StoreIs
<1>4. ASSUME NEW p \in Procs, acquiresleep(p)
      PROVE  Same \/ \E b \in Blocks : Store!Acquire(p, b)
  <2>1. PICK b \in Blocks : buf[p] \in Bufs /\ b = blockno[buf[p]]
    BY <1>4, InUse DEF acquiresleep, IInv, Using
  <2>2. blockno' = blockno /\ valid' = valid /\ data' = data /\ disk' = disk
    BY <1>4 DEF acquiresleep, ide
  <2>3. CASE Locked(buf[p])
    BY <1>4, <2>2, <2>3, StoreKept DEF acquiresleep
  <2>4. CASE ~Locked(buf[p])
    <3>1. owner[buf[p]] = NULL /\ owner' = [owner EXCEPT ![buf[p]] = p]
      BY <1>4, <2>4 DEF acquiresleep, Locked
    <3>2. Holder' = [Holder EXCEPT ![b] = p]
      BY <1>2, <2>1, <2>2, <3>1, HolderChange, NullFresh
    <3>3. Holder[b] = NULL
      BY <1>2, <2>1, <3>1, NullFresh DEF StoreIs
    <3>4. Mem' = Mem
      BY <2>2, StoreKept
    <3>5. Store!Acquire(p, b)
      BY <3>2, <3>3, <3>4 DEF Store!Acquire, Mem, Holder
    <3> QED
      BY <2>1, <3>5
  <2> QED
    BY <2>3, <2>4
<1>5. ASSUME NEW p \in Procs, NEW v \in Vals, Change(p, v)
      PROVE  \E b \in Blocks : Store!Write(p, b, v)
  <2>1. pc[p] = "use" /\ pc[p] \in Holding
    BY <1>5 DEF Change, Holding
  <2>2. PICK b \in Blocks :
           /\ buf[p] \in Bufs /\ b = blockno[buf[p]] /\ owner[buf[p]] = p /\ valid[buf[p]]
    BY <2>1, Alone DEF IInv, Flags
  <2>3. /\ blockno' = blockno /\ valid' = valid /\ disk' = disk /\ owner' = owner
        /\ data' = [data EXCEPT ![buf[p]] = v]
    BY <1>5 DEF Change, ide
  <2>4. Holder' = Holder
    BY <2>3 DEF Holder, Cached
  <2>5. Mem' = [Mem EXCEPT ![b] = v]
    BY <1>2, <2>2, <2>3, MemChange, NullFresh
  <2>6. Holder[b] = p
    BY <1>2, <2>2, NullFresh DEF StoreIs
  <2>7. Store!Write(p, b, v)
    BY <2>4, <2>5, <2>6 DEF Store!Write, Mem, Holder
  <2> QED
    BY <2>7
<1>6. ASSUME NEW p \in Procs, releasesleep(p)
      PROVE  \E b \in Blocks : Store!Release(p, b)
  <2>1. pc[p] = "use" /\ pc[p] \in Holding
    BY <1>6 DEF releasesleep, Holding
  <2>2. PICK b \in Blocks :
           /\ buf[p] \in Bufs /\ b = blockno[buf[p]] /\ owner[buf[p]] = p
    BY <2>1, Alone
  <2>3. /\ blockno' = blockno /\ valid' = valid /\ disk' = disk /\ data' = data
        /\ owner' = [owner EXCEPT ![buf[p]] = NULL]
    BY <1>6 DEF releasesleep, ide
  <2>4. Mem' = Mem
    BY <2>3, StoreKept
  <2>5. Holder' = [Holder EXCEPT ![b] = NULL]
    BY <1>2, <2>2, <2>3, HolderChange, NullFresh
  <2>6. Holder[b] = p
    BY <1>2, <2>2, NullFresh DEF StoreIs
  <2>7. Store!Release(p, b)
    BY <2>4, <2>5, <2>6 DEF Store!Release, Mem, Holder
  <2> QED
    BY <2>7
<1>7. ASSUME ideintr
      PROVE  Same
  <2> DEFINE i == Head(idequeue)
  <2>1. idequeue # <<>> /\ i \in Bufs /\ i = idequeue[1] /\ 1 \in 1..Len(idequeue)
    BY <1>7 DEF ideintr, IInv, TypeOK
  <2>2. /\ owner[i] \in Procs /\ owner[i] # NULL /\ buf[owner[i]] = i /\ ~Done(i)
        /\ sent = IF dirty[i] THEN data[i] ELSE NULL
    BY <2>1 DEF IInv, Queue, TypeOK, Locks, Sent
  <2>3. blockno[i] \in Blocks
    BY <2>1, <2>2, InUse, NullFresh
  <2>4. /\ blockno' = blockno /\ owner' = owner
        /\ valid' = [valid EXCEPT ![i] = TRUE]
        /\ dirty[i] => disk' = [disk EXCEPT ![blockno[i]] = sent] /\ data' = data
        /\ ~dirty[i] => data' = [data EXCEPT ![i] = disk[blockno[i]]] /\ disk' = disk
    BY <1>7 DEF ideintr
  <2> HIDE DEF i
  <2>5. Holder' = Holder
    BY <2>4 DEF Holder, Cached
  <2>6. ASSUME NEW c \in Blocks
        PROVE  Mem'[c] = Mem[c]
    <3>1. CASE \A j \in Bufs : blockno[j] # c
      <4>1. disk'[c] = disk[c]
        BY <2>1, <2>4, <3>1 DEF IInv, TypeOK
      <4> QED
        BY <1>2, <2>4, <3>1, <4>1 DEF StoreIs
    <3>2. CASE c = blockno[i]
      <4>1. Mem[c] = IF valid[i] THEN data[i] ELSE disk[c]
        BY <1>2, <2>1, <2>3, <3>2, NullFresh DEF StoreIs
      <4>2. Mem'[c] = data'[i]
        <5>1. valid'[i] /\ blockno'[i] = c /\ c # NULL
          BY <2>1, <2>3, <2>4, <3>2, NullFresh DEF IInv, TypeOK
        <5>2. StoreIs'
          BY <1>2
        <5> QED
          BY <2>1, <5>1, <5>2 DEF StoreIs
      <4>3. CASE dirty[i]
        BY <2>1, <2>4, <4>1, <4>2, <4>3 DEF IInv, Flags
      <4>4. CASE ~dirty[i]
        <5>1. ~valid[i]
          BY <2>2, <4>4 DEF Done
        <5>2. data'[i] = disk[c]
          BY <2>1, <2>4, <3>2, <4>4 DEF IInv, TypeOK
        <5> QED
          BY <4>1, <4>2, <5>1, <5>2
      <4> QED
        BY <4>3, <4>4
    <3>3. CASE c # blockno[i] /\ \E j \in Bufs : blockno[j] = c
      <4>1. PICK j \in Bufs : blockno[j] = c /\ j # i /\ c # NULL
        BY <3>3, NullFresh
      <4>2. valid'[j] = valid[j] /\ data'[j] = data[j] /\ disk'[c] = disk[c]
        BY <2>4, <3>3, <4>1 DEF IInv, TypeOK
      <4>3. Mem[c] = (IF valid[j] THEN data[j] ELSE disk[c])
        BY <1>2, <4>1 DEF StoreIs
      <4>4. Mem'[c] = (IF valid'[j] THEN data'[j] ELSE disk'[c])
        BY <1>2, <2>4, <4>1 DEF StoreIs
      <4> QED
        BY <4>2, <4>3, <4>4
    <3> QED
      BY <3>1, <3>2, <3>3
  <2>7. Mem' = Mem
    BY <1>2, <2>6, SameBlocks DEF StoreIs
  <2> QED
    BY <2>5, <2>7
<1>8. ASSUME NEW p \in Procs,
             \/ \E b \in Blocks : bget_cached(p, b) \/ bget_panic(p, b)
             \/ bread(p) \/ log_write(p) \/ bwrite(p) \/ brelse(p)
             \/ IderwLoop(p) \/ kill(p)
      PROVE  Same
  <2>1. /\ blockno' = blockno /\ valid' = valid /\ data' = data /\ disk' = disk
        /\ owner' = owner
    BY <1>8 DEF bget_cached, bget_panic, bread, log_write, bwrite, brelse,
       IderwLoop, kill, cache, ide
  <2> QED
    BY <2>1, StoreKept
<1>9. CASE UNCHANGED vars
  BY <1>1, <1>9, StoreKept DEF vars, cache, ide
<1>10. CASE Next
  <2> HIDE DEF Same
  <2>1. CASE \E p \in Procs, b \in Blocks : bget_recycle(p, b)
    BY <1>1, <1>3, <2>1
  <2>2. CASE \E p \in Procs : acquiresleep(p)
    BY <1>1, <1>4, <2>2 DEF Store!Next
  <2>3. CASE \E p \in Procs : \E v \in Vals : Change(p, v)
    BY <1>5, <2>3 DEF Store!Next
  <2>4. CASE \E p \in Procs : releasesleep(p)
    BY <1>6, <2>4 DEF Store!Next
  <2>5. CASE ideintr
    BY <1>1, <1>7, <2>5
  <2>6. CASE \E p \in Procs :
             \/ \E b \in Blocks : bget_cached(p, b) \/ bget_panic(p, b)
             \/ bread(p) \/ log_write(p) \/ bwrite(p) \/ brelse(p)
             \/ IderwLoop(p) \/ kill(p)
    BY <1>1, <1>8, <2>6
  <2> QED
    BY <1>10, <2>1, <2>2, <2>3, <2>4, <2>5, <2>6 DEF Next
<1> QED
  BY <1>9, <1>10

\* The cache starts as BlockStore does.
LEMMA InitRefines == Init => Store!Init
<1> SUFFICES ASSUME Init PROVE Store!Init
  OBVIOUS
<1>1. \A b \in Blocks : Cached(b) = {}
  BY NullFresh DEF Init, Cached
<1>2. Mem = disk /\ Holder = [b \in Blocks |-> NULL]
  BY <1>1 DEF Mem, Holder, Init
<1> QED
  BY <1>2 DEF Init, Store!Init, Mem, Holder

\* The cache is transparent: recycling, reading, pinning and writing back
\* never change what a block contains, and one process at a time has it.
THEOREM CacheIsTransparent == Spec => Transparent
<1>1. IInv /\ IInv' /\ [Next]_vars => [Store!Next]_(Store!vars)
  BY StepRefines
<1> QED
  BY <1>1, InitRefines, Invariance, PTL DEF Spec, Transparent, Store!Spec

-----------------------------------------------------------------------------
(* What counting needs                                                     *)

\* A set of numbers that is not empty has a least element.
LEMMA LeastNumber ==
  ASSUME NEW T, T \subseteq Nat, T # {}
  PROVE  \E m \in T : \A n \in T : m <= n
<1> DEFINE R == OpToRel(<, Nat)
<1>1. IsWellFoundedOn(R, Nat)
  BY NatLessThanWellFounded
<1>2. \A x, y \in Nat : <<y, x>> \in R <=> y < x
  BY DEF OpToRel
<1> HIDE DEF R
<1>3. PICK m \in T : \A n \in T : ~(<<n, m>> \in R)
  BY <1>1, WFMin
<1>4. \A n \in T : m <= n
  <2>1. SUFFICES ASSUME NEW n \in T PROVE m <= n
    OBVIOUS
  <2>2. m \in Nat /\ n \in Nat /\ ~(n < m)
    BY <1>2, <1>3
  <2> QED
    BY <2>2
<1> QED
  BY <1>4

\* A condition, counted.
One(b) == IF b THEN 1 ELSE 0

-----------------------------------------------------------------------------
(* The file table, the descriptors and what a closed file gives back       *)

\* What the assumptions on the constants are used for.
LEMMA FileConstants ==
  /\ NFILE \in Nat /\ NOFILE \in Nat \ {0} /\ IsFiniteSet(Procs)
         /\ Inums \subseteq Nat \ {0} /\ 0 \notin Pipes
BY FileAssumption, InodeAssumption

\* The items of a work list, which has at most two, and the work lists.
Items == {CloseOf(f) : f \in Files} \cup {IputOf(i) : i \in Inums}
         \cup {PipeOf(x, w) : x \in Pipes, w \in BOOLEAN}
Works == {s \in Seq(Items) : Len(s) <= 2}

\* An entry of the file table; what its offset is does not matter here.
FileEntry(e) ==
    /\ e = [ref |-> e.ref, type |-> e.type, ip |-> e.ip, off |-> e.off, pipe |-> e.pipe,
            writable |-> e.writable]
    /\ e.ref \in Nat /\ e.type \in {"none", "inode", "pipe"}
    /\ e.ref = 0 => e.type = "none"
    /\ e.type = "inode" => e.ip \in Inums
    /\ e.type = "pipe" => e.pipe \in Pipes /\ e.writable \in BOOLEAN

Descriptors == [Procs -> [Fds -> 0..NFILE]]

FileType ==
    /\ ftable = [f \in Files |-> ftable[f]] /\ \A f \in Files : FileEntry(ftable[f])
    /\ iref \in [Inums -> Nat] /\ pipe \in [Pipes -> SUBSET {"read", "write"}]
    /\ ofile \in Descriptors /\ work \in [Procs -> Works]

\* What refers to a resource: the descriptors in o that are file f, the
\* files in t that have inode i or an end of pipe x, the items it in k.
DescIn(o, f)     == {e \in Procs \X Fds : o[e[1]][e[2]] = f}
HasInode(e, i)   == e.type = "inode" /\ e.ip = i
HasEnd(e, x, w)  == e.type = "pipe" /\ e.pipe = x /\ e.writable = w
InodeIn(t, i)    == {f \in Files : HasInode(t[f], i)}
EndIn(t, x, w)   == {f \in Files : HasEnd(t[f], x, w)}
ItemIn(k, it)    == {e \in Procs \X (1..2) : e[2] \in DOMAIN k[e[1]] /\ k[e[1]][e[2]] = it}
End(w)           == IF w THEN "write" ELSE "read"

\* The counts, for each end of a pipe.
FileCounted ==
    /\ \A f \in Files : ftable[f].ref =
          Cardinality(ItemIn(work, CloseOf(f))) + Cardinality(DescIn(ofile, f))
    /\ \A i \in Inums : iref[i] =
          Cardinality(ItemIn(work, IputOf(i))) + Cardinality(InodeIn(ftable, i))
    /\ \A x \in Pipes, w \in BOOLEAN : One(End(w) \in pipe[x]) =
          Cardinality(ItemIn(work, PipeOf(x, w))) + Cardinality(EndIn(ftable, x, w))

FileInv == FileType /\ FileCounted

\* A set changes by one element.
LEMMA ChangeOne ==
  ASSUME NEW K, IsFiniteSet(K), NEW D, D \subseteq K, NEW E, E \subseteq K, NEW a \in K,
         D \ {a} = E \ {a}
  PROVE  /\ Cardinality(D) \in Nat /\ Cardinality(E) \in Nat
         /\ Cardinality(E) + One(a \in D) = Cardinality(D) + One(a \in E)
<1> DEFINE R == D \ {a}
<1>1. IsFiniteSet(D) /\ IsFiniteSet(E) /\ IsFiniteSet(R)
  BY FS_Subset
<1>2. Cardinality(D) \in Nat /\ Cardinality(E) \in Nat /\ Cardinality(R) \in Nat
  BY <1>1, FS_CardinalityType
<1>3. /\ a \in D => D = R \cup {a}
      /\ a \notin D => D = R
      /\ a \in E => E = R \cup {a}
      /\ a \notin E => E = R
  OBVIOUS
<1>4. a \notin R
  OBVIOUS
<1> HIDE DEF R
<1>5. Cardinality(R \cup {a}) = Cardinality(R) + 1
  BY <1>1, <1>4, FS_AddElement
<1>6. /\ Cardinality(D) = Cardinality(R) + One(a \in D)
      /\ Cardinality(E) = Cardinality(R) + One(a \in E)
  <2>1. a \in D => Cardinality(D) = Cardinality(R) + One(a \in D)
    BY <1>3, <1>5 DEF One
  <2>2. a \notin D => Cardinality(D) = Cardinality(R) + One(a \in D)
    BY <1>2, <1>3 DEF One
  <2>3. a \in E => Cardinality(E) = Cardinality(R) + One(a \in E)
    BY <1>3, <1>5 DEF One
  <2>4. a \notin E => Cardinality(E) = Cardinality(R) + One(a \in E)
    BY <1>2, <1>3 DEF One
  <2> QED
    BY <2>1, <2>2, <2>3, <2>4
<1>7. One(a \in D) \in Nat /\ One(a \in E) \in Nat
  BY DEF One
<1> QED
  BY <1>2, <1>6, <1>7

\* How often an item is in a work list.
Occurs(s, it) == One(1 \in DOMAIN s /\ s[1] = it) + One(2 \in DOMAIN s /\ s[2] = it)

\* The items of one process change.
LEMMA WorkCount ==
  ASSUME IsFiniteSet(Procs), NEW p \in Procs, NEW k, NEW l, NEW it,
         \A q \in Procs : q # p => l[q] = k[q]
  PROVE  /\ Cardinality(ItemIn(k, it)) \in Nat /\ Cardinality(ItemIn(l, it)) \in Nat
         /\ Cardinality(ItemIn(l, it)) + Occurs(k[p], it)
              = Cardinality(ItemIn(k, it)) + Occurs(l[p], it)
<1> DEFINE K == Procs \X (1..2)
           a == <<p, 1>>
           b == <<p, 2>>
           D == ItemIn(k, it)
           E == ItemIn(l, it)
           M == {e \in K : IF e = a THEN e \in E ELSE e \in D}
<1>1. IsFiniteSet(K)
  <2>1. IsFiniteSet({1} \cup {2})
    BY FS_Singleton, FS_AddElement
  <2>2. 1..2 = {1} \cup {2}
    OBVIOUS
  <2> QED
    BY <2>1, <2>2, FS_Product
<1>2. D \subseteq K /\ E \subseteq K /\ M \subseteq K /\ a \in K /\ b \in K /\ a # b
  BY DEF ItemIn
<1>3. D \ {a} = M \ {a}
  BY <1>2
<1>4. M \ {b} = E \ {b}
  <2>1. SUFFICES ASSUME NEW e \in K, e # b, e # a PROVE e \in D <=> e \in E
    BY <1>2
  <2>2. e[1] \in Procs /\ e[2] \in 1..2 /\ e = <<e[1], e[2]>>
    OBVIOUS
  <2>3. e[1] # p
    BY <2>1, <2>2
  <2>4. l[e[1]] = k[e[1]]
    BY <2>2, <2>3
  <2> QED
    BY <2>4 DEF ItemIn
<1>5. (a \in M <=> a \in E) /\ (b \in M <=> b \in D)
  BY <1>2
<1>6. /\ (a \in D <=> 1 \in DOMAIN k[p] /\ k[p][1] = it)
      /\ (b \in D <=> 2 \in DOMAIN k[p] /\ k[p][2] = it)
      /\ (a \in E <=> 1 \in DOMAIN l[p] /\ l[p][1] = it)
      /\ (b \in E <=> 2 \in DOMAIN l[p] /\ l[p][2] = it)
  BY <1>2 DEF ItemIn
<1> HIDE DEF K, a, b, D, E, M
<1>7. /\ Cardinality(D) \in Nat /\ Cardinality(M) \in Nat
      /\ Cardinality(M) + One(a \in D) = Cardinality(D) + One(a \in M)
  BY <1>1, <1>2, <1>3, ChangeOne
<1>8. /\ Cardinality(E) \in Nat
      /\ Cardinality(E) + One(b \in M) = Cardinality(M) + One(b \in E)
  BY <1>1, <1>2, <1>4, ChangeOne
<1>9. /\ Occurs(k[p], it) = One(a \in D) + One(b \in D)
      /\ Occurs(l[p], it) = One(a \in E) + One(b \in E)
  BY <1>6 DEF Occurs, One
<1>10. Cardinality(E) + Occurs(k[p], it) = Cardinality(D) + Occurs(l[p], it)
  BY <1>5, <1>7, <1>8, <1>9 DEF One
<1> QED
  BY <1>7, <1>8, <1>10 DEF D, E

\* One descriptor changes, from file h to file g.
SetDesc(o, p, d, g) == [o EXCEPT ![p][d] = g]
DescChange(o, u, h, g) ==
    \A f : /\ Cardinality(DescIn(o, f)) \in Nat /\ Cardinality(DescIn(u, f)) \in Nat
          /\ Cardinality(DescIn(u, f)) + One(h = f) = Cardinality(DescIn(o, f)) + One(g = f)

\* Setting one descriptor moves one reference from the old file to the new one.
LEMMA DescCount ==
  ASSUME IsFiniteSet(Procs), NOFILE \in Nat \ {0}, NEW p \in Procs, NEW d \in Fds,
         NEW o \in Descriptors, NEW g \in 0..NFILE, NEW u, u = SetDesc(o, p, d, g)
  PROVE  u \in Descriptors /\ DescChange(o, u, o[p][d], g)
<1> USE DEF SetDesc
<1>0. u \in Descriptors
  BY DEF Descriptors
<1>9. SUFFICES ASSUME NEW f
               PROVE  /\ Cardinality(DescIn(o, f)) \in Nat /\ Cardinality(DescIn(u, f)) \in Nat
                      /\ Cardinality(DescIn(u, f)) + One(o[p][d] = f)
                         = Cardinality(DescIn(o, f)) + One(g = f)
  BY <1>0 DEF DescChange
<1> DEFINE
           K == Procs \X Fds
           a == <<p, d>>
           D == DescIn(o, f)
           E == DescIn(u, f)
<1>1. IsFiniteSet(K)
  <2>1. IsFiniteSet(Fds)
    BY FS_Interval DEF Fds
  <2> QED
    BY <2>1, FS_Product
<1>2. D \subseteq K /\ E \subseteq K /\ a \in K
  BY DEF DescIn
<1>3. u \in Descriptors /\ u[p][d] = g
  BY DEF Descriptors
<1>4. \A q \in Procs, c \in Fds : ~(q = p /\ c = d) => u[q][c] = o[q][c]
  BY DEF Descriptors
<1>5. D \ {a} = E \ {a}
  <2>1. SUFFICES ASSUME NEW e \in K, e # a PROVE e \in D <=> e \in E
    BY <1>2
  <2>2. e[1] \in Procs /\ e[2] \in Fds /\ e = <<e[1], e[2]>>
    OBVIOUS
  <2>3. u[e[1]][e[2]] = o[e[1]][e[2]]
    BY <1>4, <2>1, <2>2
  <2> QED
    BY <2>3 DEF DescIn
<1>6. (a \in D <=> o[p][d] = f) /\ (a \in E <=> g = f)
  BY <1>2, <1>3 DEF DescIn
<1> HIDE DEF K, a, D, E
<1>7. /\ Cardinality(D) \in Nat /\ Cardinality(E) \in Nat
      /\ Cardinality(E) + One(a \in D) = Cardinality(D) + One(a \in E)
  BY <1>1, <1>2, <1>5, ChangeOne
<1>8. One(a \in D) = One(o[p][d] = f) /\ One(a \in E) = One(g = f)
  BY <1>6 DEF One
<1> QED
  BY <1>7, <1>8 DEF D, E

\* One file changes.
Alike(t, u, f) == \A g \in Files : g # f => u[g] = t[g]

\* Changing one entry of the file table changes the counts by what it has.
LEMMA FileCount ==
  ASSUME NFILE \in Nat, NEW f \in Files, NEW t, NEW u, Alike(t, u, f)
  PROVE  /\ \A i : /\ Cardinality(InodeIn(t, i)) \in Nat /\ Cardinality(InodeIn(u, i)) \in Nat
                   /\ Cardinality(InodeIn(u, i)) + One(HasInode(t[f], i))
                        = Cardinality(InodeIn(t, i)) + One(HasInode(u[f], i))
         /\ \A x, w : /\ Cardinality(EndIn(t, x, w)) \in Nat /\ Cardinality(EndIn(u, x, w)) \in Nat
                      /\ Cardinality(EndIn(u, x, w)) + One(HasEnd(t[f], x, w))
                           = Cardinality(EndIn(t, x, w)) + One(HasEnd(u[f], x, w))
<1>0. SUFFICES ASSUME NEW i, NEW x, NEW w
      PROVE  /\ Cardinality(InodeIn(t, i)) \in Nat /\ Cardinality(InodeIn(u, i)) \in Nat
             /\ Cardinality(InodeIn(u, i)) + One(HasInode(t[f], i))
                  = Cardinality(InodeIn(t, i)) + One(HasInode(u[f], i))
             /\ Cardinality(EndIn(t, x, w)) \in Nat /\ Cardinality(EndIn(u, x, w)) \in Nat
             /\ Cardinality(EndIn(u, x, w)) + One(HasEnd(t[f], x, w))
                  = Cardinality(EndIn(t, x, w)) + One(HasEnd(u[f], x, w))
  OBVIOUS
<1>1. IsFiniteSet(Files)
  BY FS_Interval DEF Files
<1>2. /\ InodeIn(t, i) \subseteq Files /\ InodeIn(u, i) \subseteq Files
      /\ EndIn(t, x, w) \subseteq Files /\ EndIn(u, x, w) \subseteq Files
  BY DEF InodeIn, EndIn
<1>3. /\ InodeIn(t, i) \ {f} = InodeIn(u, i) \ {f}
      /\ EndIn(t, x, w) \ {f} = EndIn(u, x, w) \ {f}
  BY DEF InodeIn, EndIn, Alike
<1>4. /\ (f \in InodeIn(t, i)) = HasInode(t[f], i) /\ (f \in InodeIn(u, i)) = HasInode(u[f], i)
      /\ (f \in EndIn(t, x, w)) = HasEnd(t[f], x, w) /\ (f \in EndIn(u, x, w)) = HasEnd(u[f], x, w)
  BY DEF InodeIn, EndIn, HasInode, HasEnd
<1>5. /\ Cardinality(InodeIn(t, i)) \in Nat /\ Cardinality(InodeIn(u, i)) \in Nat
      /\ Cardinality(InodeIn(u, i)) + One(f \in InodeIn(t, i))
              = Cardinality(InodeIn(t, i)) + One(f \in InodeIn(u, i))
  BY <1>1, <1>2, <1>3, ChangeOne
<1>6. /\ Cardinality(EndIn(t, x, w)) \in Nat /\ Cardinality(EndIn(u, x, w)) \in Nat
      /\ Cardinality(EndIn(u, x, w)) + One(f \in EndIn(t, x, w))
              = Cardinality(EndIn(t, x, w)) + One(f \in EndIn(u, x, w))
  BY <1>1, <1>2, <1>3, ChangeOne
<1> QED
  BY <1>4, <1>5, <1>6

\* What refers to a resource can be counted.
LEMMA Countable ==
  ASSUME IsFiniteSet(Procs), NFILE \in Nat, NOFILE \in Nat \ {0},
         NEW o, NEW f, NEW t, NEW i, NEW x, NEW w
  PROVE  /\ Cardinality(DescIn(o, f)) \in Nat
         /\ Cardinality(InodeIn(t, i)) \in Nat /\ Cardinality(EndIn(t, x, w)) \in Nat
<1>1. IsFiniteSet(Fds) /\ IsFiniteSet(Files)
  BY FS_Interval DEF Fds, Files
<1>2. IsFiniteSet(Procs \X Fds)
  BY <1>1, FS_Product
<1>3. /\ DescIn(o, f) \subseteq Procs \X Fds
      /\ InodeIn(t, i) \subseteq Files /\ EndIn(t, x, w) \subseteq Files
  BY DEF DescIn, InodeIn, EndIn
<1>4. IsFiniteSet(DescIn(o, f)) /\ IsFiniteSet(InodeIn(t, i)) /\ IsFiniteSet(EndIn(t, x, w))
  BY <1>1, <1>2, <1>3, FS_Subset
<1> QED
  BY <1>4, FS_CardinalityType

\* The first item of a work list, and what is left without it.
LEMMA WorkList ==
  ASSUME NEW s \in Works, s # <<>>
  PROVE  /\ Head(s) \in Items /\ Tail(s) \in Works
         /\ \A it : Occurs(s, it) = One(Head(s) = it) + Occurs(Tail(s), it)
         /\ \A a \in Items : <<a>> \o Tail(s) \in Works
         /\ \A a, it : Occurs(<<a>> \o Tail(s), it) = One(a = it) + Occurs(Tail(s), it)
<1> DEFINE T == Tail(s)
<1>1. s \in Seq(Items) /\ Len(s) \in Nat /\ Len(s) <= 2 /\ Len(s) # 0
  BY DEF Works
<1>2. /\ Head(s) = s[1] /\ s[1] \in Items
      /\ T \in Seq(Items) /\ Len(T) = Len(s) - 1
      /\ \A j \in 1..Len(s) - 1 : T[j] = s[j + 1]
  BY <1>1
<1>3. DOMAIN s = 1..Len(s) /\ DOMAIN T = 1..(Len(s) - 1)
  BY <1>1, <1>2
<1> HIDE DEF T
<1>e. Len(s) = 1 \/ Len(s) = 2
  <2> DEFINE n == Len(s)
  <2>1. n \in Nat /\ n <= 2 /\ n # 0
    BY <1>1
  <2> HIDE DEF n
  <2>2. n = 1 \/ n = 2
    BY <2>1
  <2> QED
    BY <2>2 DEF n
<1>d. \A j : (j \in DOMAIN s <=> j \in 1..Len(s)) /\ (j \in DOMAIN T <=> j \in 1..(Len(s) - 1))
  BY <1>3
<1>4. /\ 1 \in DOMAIN s /\ 2 \notin DOMAIN T
      /\ 2 \in DOMAIN s => 1 \in DOMAIN T /\ T[1] = s[2]
      /\ 2 \notin DOMAIN s => 1 \notin DOMAIN T
  <2>1. CASE Len(s) = 1
    BY <1>d, <2>1
  <2>2. CASE Len(s) = 2
    <3>1. T[1] = s[2]
      BY <1>2, <2>2
    <3> QED
      BY <1>d, <2>2, <3>1
  <2> QED
    BY <1>e, <2>1, <2>2
<1>5. ASSUME NEW it PROVE Occurs(s, it) = One(Head(s) = it) + Occurs(T, it)
  BY <1>2, <1>4 DEF Occurs, One
<1>6. ASSUME NEW a \in Items PROVE <<a>> \o T \in Works
  BY <1>1, <1>2, <1>6 DEF Works
<1>7. ASSUME NEW a, NEW it
      PROVE  Occurs(<<a>> \o T, it) = One(a = it) + Occurs(T, it)
  <2> DEFINE u == <<a>> \o T
  <2>1. DOMAIN u = 1..Len(s) /\ u[1] = a /\ \A j \in 1..Len(s) - 1 : u[j + 1] = T[j]
    BY <1>1, <1>2
  <2> HIDE DEF u
  <2>d. \A j : j \in DOMAIN u <=> j \in 1..Len(s)
    BY <2>1
  <2>2. /\ 1 \in DOMAIN u /\ 2 \notin DOMAIN T
        /\ 2 \in DOMAIN u => 1 \in DOMAIN T /\ T[1] = u[2]
        /\ 2 \notin DOMAIN u => 1 \notin DOMAIN T
    <3>1. CASE Len(s) = 1
      BY <1>d, <2>d, <3>1
    <3>2. CASE Len(s) = 2
      <4>1. T[1] = u[2]
        BY <2>1, <3>2
      <4> QED
        BY <1>d, <2>d, <3>2, <4>1
    <3> QED
      BY <1>e, <3>1, <3>2
  <2>3. Occurs(u, it) = One(a = it) + Occurs(T, it)
    BY <2>1, <2>2 DEF Occurs, One
  <2> QED
    BY <2>3 DEF u
<1>8. T \in Works
  BY <1>1, <1>2 DEF Works
<1> QED
  BY <1>2, <1>5, <1>6, <1>7, <1>8 DEF T

\* Work lists of no, one and two items.
LEMMA NoItem == <<>> \in Works /\ \A it : Occurs(<<>>, it) = 0
<1>1. <<>> \in Works
  BY DEF Works
<1>2. DOMAIN <<>> = {}
  OBVIOUS
<1> QED
  BY <1>1, <1>2 DEF Occurs, One

\* A work list of one item.
LEMMA OneItem ==
  ASSUME NEW a \in Items
  PROVE  <<a>> \in Works /\ \A it : Occurs(<<a>>, it) = One(a = it)
<1>1. <<a>> \in Works
  BY DEF Works
<1>2. DOMAIN <<a>> = 1..1 /\ <<a>>[1] = a
  OBVIOUS
<1> QED
  BY <1>1, <1>2 DEF Occurs, One

\* A work list of two items.
LEMMA TwoItems ==
  ASSUME NEW a \in Items, NEW b \in Items
  PROVE  <<a, b>> \in Works /\ \A it : Occurs(<<a, b>>, it) = One(a = it) + One(b = it)
<1>1. <<a, b>> \in Works
  BY DEF Works
<1>2. DOMAIN <<a, b>> = 1..2 /\ <<a, b>>[1] = a /\ <<a, b>>[2] = b
  OBVIOUS
<1> QED
  BY <1>1, <1>2 DEF Occurs, One

\* The step of p changes the counts with what refers to the resources.
FileBalance(p) ==
    \A f \in Files :
       ftable'[f].ref + Occurs(work[p], CloseOf(f)) + Cardinality(DescIn(ofile, f))
       = ftable[f].ref + Occurs(work'[p], CloseOf(f)) + Cardinality(DescIn(ofile', f))
InodeBalance(p) ==
    \A i \in Inums :
       iref'[i] + Occurs(work[p], IputOf(i)) + Cardinality(InodeIn(ftable, i))
       = iref[i] + Occurs(work'[p], IputOf(i)) + Cardinality(InodeIn(ftable', i))
EndBalance(p) ==
    \A x \in Pipes, w \in BOOLEAN :
       One(End(w) \in pipe'[x]) + Occurs(work[p], PipeOf(x, w)) + Cardinality(EndIn(ftable, x, w))
       = One(End(w) \in pipe[x]) + Occurs(work'[p], PipeOf(x, w)) + Cardinality(EndIn(ftable', x, w))

\* A step of p that balances every resource keeps the invariant.
LEMMA FileBalanced ==
  ASSUME FileInv, FileType', NEW p \in Procs,
         \A q \in Procs : q # p => work'[q] = work[q],
         FileBalance(p), InodeBalance(p), EndBalance(p)
  PROVE  FileInv'
<1>1. IsFiniteSet(Procs) /\ NFILE \in Nat /\ NOFILE \in Nat \ {0}
  BY FileConstants
<1>2. ASSUME NEW it
      PROVE  /\ Cardinality(ItemIn(work, it)) \in Nat /\ Cardinality(ItemIn(work', it)) \in Nat
             /\ Cardinality(ItemIn(work', it)) + Occurs(work[p], it)
                  = Cardinality(ItemIn(work, it)) + Occurs(work'[p], it)
             /\ Occurs(work[p], it) \in Nat /\ Occurs(work'[p], it) \in Nat
  <2>1. Occurs(work[p], it) \in Nat /\ Occurs(work'[p], it) \in Nat
    BY DEF Occurs, One
  <2> QED
    BY <1>1, <2>1, WorkCount
<1>3. ASSUME NEW f \in Files
      PROVE  ftable'[f].ref =
               Cardinality(ItemIn(work', CloseOf(f))) + Cardinality(DescIn(ofile', f))
  <2>1. Cardinality(DescIn(ofile, f)) \in Nat /\ Cardinality(DescIn(ofile', f)) \in Nat
    BY <1>1, Countable
  <2>2. ftable[f].ref \in Nat /\ ftable'[f].ref \in Nat
    BY <1>3 DEF FileInv, FileType, FileEntry
  <2>3. /\ ftable[f].ref = Cardinality(ItemIn(work, CloseOf(f))) + Cardinality(DescIn(ofile, f))
        /\ ftable'[f].ref + Occurs(work[p], CloseOf(f)) + Cardinality(DescIn(ofile, f))
           = ftable[f].ref + Occurs(work'[p], CloseOf(f)) + Cardinality(DescIn(ofile', f))
    BY <1>3 DEF FileInv, FileCounted, FileBalance
  <2> QED
    BY <1>2, <2>1, <2>2, <2>3
<1>4. ASSUME NEW i \in Inums
      PROVE  iref'[i] = Cardinality(ItemIn(work', IputOf(i))) + Cardinality(InodeIn(ftable', i))
  <2>1. Cardinality(InodeIn(ftable, i)) \in Nat /\ Cardinality(InodeIn(ftable', i)) \in Nat
    BY <1>1, Countable
  <2>2. iref[i] \in Nat /\ iref'[i] \in Nat
    BY <1>4 DEF FileInv, FileType
  <2>3. /\ iref[i] = Cardinality(ItemIn(work, IputOf(i))) + Cardinality(InodeIn(ftable, i))
        /\ iref'[i] + Occurs(work[p], IputOf(i)) + Cardinality(InodeIn(ftable, i))
           = iref[i] + Occurs(work'[p], IputOf(i)) + Cardinality(InodeIn(ftable', i))
    BY <1>4 DEF FileInv, FileCounted, InodeBalance
  <2> QED
    BY <1>2, <2>1, <2>2, <2>3
<1>5. ASSUME NEW x \in Pipes, NEW w \in BOOLEAN
      PROVE  One(End(w) \in pipe'[x]) =
               Cardinality(ItemIn(work', PipeOf(x, w))) + Cardinality(EndIn(ftable', x, w))
  <2>1. Cardinality(EndIn(ftable, x, w)) \in Nat /\ Cardinality(EndIn(ftable', x, w)) \in Nat
    BY <1>1, Countable
  <2>2. One(End(w) \in pipe[x]) \in Nat /\ One(End(w) \in pipe'[x]) \in Nat
    BY DEF One
  <2>3. /\ One(End(w) \in pipe[x]) =
             Cardinality(ItemIn(work, PipeOf(x, w))) + Cardinality(EndIn(ftable, x, w))
        /\ One(End(w) \in pipe'[x]) + Occurs(work[p], PipeOf(x, w))
             + Cardinality(EndIn(ftable, x, w))
           = One(End(w) \in pipe[x]) + Occurs(work'[p], PipeOf(x, w))
             + Cardinality(EndIn(ftable', x, w))
    BY <1>5 DEF FileInv, FileCounted, EndBalance
  <2> QED
    BY <1>2, <2>1, <2>2, <2>3
<1>6. FileCounted'
  BY <1>3, <1>4, <1>5 DEF FileCounted
<1> QED
  BY <1>6 DEF FileInv

\* The items of a work list differ.
LEMMA ItemsDiffer ==
  ASSUME NEW f, NEW g, NEW i, NEW j, NEW x, NEW y, NEW w, NEW v
  PROVE  /\ (CloseOf(f) = CloseOf(g)) = (f = g)
         /\ (IputOf(i) = IputOf(j)) = (i = j)
         /\ (PipeOf(x, w) = PipeOf(y, v)) = (x = y /\ w = v)
         /\ CloseOf(f) # IputOf(i) /\ CloseOf(f) # PipeOf(x, w)
         /\ IputOf(i) # PipeOf(x, w) /\ IputOf(i) # CloseOf(f)
         /\ PipeOf(x, w) # IputOf(i) /\ PipeOf(x, w) # CloseOf(f)
BY DEF CloseOf, IputOf, PipeOf

\* The same, as the numbers that the counts add up.
LEMMA ItemsOne ==
  /\ \A f, g : One(CloseOf(f) = CloseOf(g)) = One(f = g)
  /\ \A f, i : One(CloseOf(f) = IputOf(i)) = 0
  /\ \A f, x, w : One(CloseOf(f) = PipeOf(x, w)) = 0
  /\ \A i, f : One(IputOf(i) = CloseOf(f)) = 0
  /\ \A i, j : One(IputOf(i) = IputOf(j)) = One(i = j)
  /\ \A i, x, w : One(IputOf(i) = PipeOf(x, w)) = 0
  /\ \A x, w, f : One(PipeOf(x, w) = CloseOf(f)) = 0
  /\ \A x, w, i : One(PipeOf(x, w) = IputOf(i)) = 0
  /\ \A x, w, y, v : One(PipeOf(x, w) = PipeOf(y, v)) = One(x = y /\ w = v)
BY DEF CloseOf, IputOf, PipeOf, One

\* What an item of a work list is.
LEMMA ItemIs ==
  ASSUME NEW it \in Items
  PROVE  /\ it.op \in {"fileclose", "iput", "pipeclose"}
         /\ it.op = "fileclose" => it.x \in Files /\ it = CloseOf(it.x)
         /\ it.op = "iput" => it.x \in Inums /\ it = IputOf(it.x)
         /\ it.op = "pipeclose" => it.x \in Pipes /\ it.w \in BOOLEAN /\ it = PipeOf(it.x, it.w)
BY DEF Items, CloseOf, IputOf, PipeOf

\* Everything that a call may have to give back is an item.
LEMMA ItemsAre ==
  /\ \A f \in Files : CloseOf(f) \in Items
  /\ \A i \in Inums : IputOf(i) \in Items
  /\ \A x \in Pipes, w \in BOOLEAN : PipeOf(x, w) \in Items
BY DEF Items

\* A step that changes the offset of a file only, or nothing.
LEMMA OffsetStep ==
  ASSUME FileInv, NEW f, NEW v, ftable' = [ftable EXCEPT ![f].off = v],
         UNCHANGED <<iref, pipe, ofile, work>>
  PROVE  FileInv'
<1>1. /\ ftable = [g \in Files |-> ftable[g]] /\ \A g \in Files : FileEntry(ftable[g])
  BY DEF FileInv, FileType
<1>2. /\ ftable' = [g \in Files |-> ftable'[g]]
      /\ \A g \in Files : ftable'[g] = IF g = f THEN [ftable[g] EXCEPT !.off = v] ELSE ftable[g]
  BY <1>1
<1>3. ASSUME NEW g \in Files
      PROVE  /\ ftable'[g].ref = ftable[g].ref /\ ftable'[g].type = ftable[g].type
             /\ ftable'[g].ip = ftable[g].ip /\ ftable'[g].pipe = ftable[g].pipe
             /\ ftable'[g].writable = ftable[g].writable
             /\ FileEntry(ftable'[g])
  <2>1. FileEntry(ftable[g])
    BY <1>1
  <2>2. CASE g = f
    BY <1>2, <2>1, <2>2 DEF FileEntry
  <2>3. CASE g # f
    BY <1>2, <2>1, <2>3
  <2> QED
    BY <2>2, <2>3
<1>4. FileType'
  BY <1>2, <1>3 DEF FileInv, FileType
<1>5. \A i : InodeIn(ftable', i) = InodeIn(ftable, i)
  BY <1>3 DEF InodeIn, HasInode
<1>6. \A x, w : EndIn(ftable', x, w) = EndIn(ftable, x, w)
  BY <1>3 DEF EndIn, HasEnd
<1>7. \A g \in Files : ftable'[g].ref =
          Cardinality(ItemIn(work', CloseOf(g))) + Cardinality(DescIn(ofile', g))
  BY <1>3 DEF FileInv, FileCounted
<1>8. \A i \in Inums : iref'[i] =
          Cardinality(ItemIn(work', IputOf(i))) + Cardinality(InodeIn(ftable', i))
  BY <1>5 DEF FileInv, FileCounted
<1>9. \A x \in Pipes, w \in BOOLEAN : One(End(w) \in pipe'[x]) =
          Cardinality(ItemIn(work', PipeOf(x, w))) + Cardinality(EndIn(ftable', x, w))
  BY <1>6 DEF FileInv, FileCounted
<1>10. FileCounted'
  BY <1>7, <1>8, <1>9 DEF FileCounted
<1> QED
  BY <1>4, <1>10 DEF FileInv

\* The counts do not depend on the other variables.
LEMMA FileUnchanged ==
  ASSUME FileInv, UNCHANGED <<iref, ftable, pipe, ofile, work>>
  PROVE  FileInv'
BY DEF FileInv, FileType, FileCounted

\* Who has an item to do is counted.
LEMMA ItemCounted ==
  ASSUME IsFiniteSet(Procs), NEW p \in Procs, NEW k \in [Procs -> Works], k[p] # <<>>
  PROVE  Cardinality(ItemIn(k, Head(k[p]))) \in Nat \ {0}
<1> DEFINE D == ItemIn(k, Head(k[p]))
<1>1. k[p] \in Works
  OBVIOUS
<1>2. k[p] \in Seq(Items) /\ Len(k[p]) \in Nat \ {0} /\ DOMAIN k[p] = 1..Len(k[p])
  BY <1>1 DEF Works
<1>3. 1 \in DOMAIN k[p] /\ k[p][1] = Head(k[p])
  BY <1>2
<1>4. <<p, 1>> \in D
  BY <1>3 DEF ItemIn
<1>5. IsFiniteSet(D)
  <2>1. IsFiniteSet({1} \cup {2})
    BY FS_Singleton, FS_AddElement
  <2>2. 1..2 = {1} \cup {2}
    OBVIOUS
  <2>3. IsFiniteSet(Procs \X (1..2))
    BY <2>1, <2>2, FS_Product
  <2>4. D \subseteq Procs \X (1..2)
    BY DEF ItemIn
  <2> QED
    BY <2>3, <2>4, FS_Subset
<1> HIDE DEF D
<1>6. Cardinality(D) \in Nat
  BY <1>5, FS_CardinalityType
<1>7. D # {}
  BY <1>4
<1>8. Cardinality(D) # 0
  BY <1>5, <1>7, FS_EmptySet
<1>9. Cardinality(D) \in Nat \ {0}
  BY <1>6, <1>8
<1> QED
  BY <1>9 DEF D

\* What p has to do next.
LEMMA NextItem ==
  ASSUME FileInv, NEW p \in Procs, work[p] # <<>>
  PROVE  LET it == Head(work[p]) IN
         /\ work[p] \in Works /\ it \in Items
         /\ it.op = "fileclose" => it.x \in Files /\ it = CloseOf(it.x) /\ ftable[it.x].ref > 0
         /\ it.op = "iput" => it.x \in Inums /\ it = IputOf(it.x) /\ iref[it.x] > 0
         /\ it.op = "pipeclose" => /\ it.x \in Pipes /\ it.w \in BOOLEAN
                                   /\ it = PipeOf(it.x, it.w) /\ End(it.w) \in pipe[it.x]
<1> DEFINE it == Head(work[p])
<1>1. IsFiniteSet(Procs) /\ NFILE \in Nat /\ NOFILE \in Nat \ {0}
  BY FileConstants
<1>2. work \in [Procs -> Works]
  BY DEF FileInv, FileType
<1>3. work[p] \in Works /\ it \in Items
  BY <1>2, WorkList
<1>4. Cardinality(ItemIn(work, it)) \in Nat \ {0}
  BY <1>1, <1>2, ItemCounted
<1> HIDE DEF it
<1>5. CASE it.op = "fileclose"
  <2> DEFINE f == it.x
  <2>1. f \in Files /\ it = CloseOf(f)
    BY <1>3, <1>5, ItemIs
  <2> HIDE DEF f
  <2>2. ftable[f].ref = Cardinality(ItemIn(work, it)) + Cardinality(DescIn(ofile, f))
    BY <2>1 DEF FileInv, FileCounted
  <2>3. Cardinality(DescIn(ofile, f)) \in Nat
    BY <1>1, Countable
  <2>4. ftable[f].ref > 0
    BY <1>4, <2>2, <2>3
  <2> QED
    BY <1>3, <1>5, <2>1, <2>4 DEF it, f
<1>6. CASE it.op = "iput"
  <2> DEFINE i == it.x
  <2>1. i \in Inums /\ it = IputOf(i)
    BY <1>3, <1>6, ItemIs
  <2> HIDE DEF i
  <2>2. iref[i] = Cardinality(ItemIn(work, it)) + Cardinality(InodeIn(ftable, i))
    BY <2>1 DEF FileInv, FileCounted
  <2>3. Cardinality(InodeIn(ftable, i)) \in Nat
    BY <1>1, Countable
  <2>4. iref[i] > 0
    BY <1>4, <2>2, <2>3
  <2> QED
    BY <1>3, <1>6, <2>1, <2>4 DEF it, i
<1>7. CASE it.op = "pipeclose"
  <2> DEFINE x == it.x
             w == it.w
  <2>1. x \in Pipes /\ w \in BOOLEAN /\ it = PipeOf(x, w)
    BY <1>3, <1>7, ItemIs
  <2> HIDE DEF x, w
  <2>2. One(End(w) \in pipe[x]) = Cardinality(ItemIn(work, it)) + Cardinality(EndIn(ftable, x, w))
    BY <2>1 DEF FileInv, FileCounted
  <2>3. Cardinality(EndIn(ftable, x, w)) \in Nat
    BY <1>1, Countable
  <2>4. One(End(w) \in pipe[x]) # 0
    BY <1>4, <2>2, <2>3
  <2>5. End(w) \in pipe[x]
    BY <2>4 DEF One
  <2> QED
    BY <1>3, <1>7, <2>1, <2>5 DEF it, x, w
<1>8. it.op \in {"fileclose", "iput", "pipeclose"}
  BY <1>3, ItemIs
<1> QED
  BY <1>5, <1>6, <1>7, <1>8 DEF it

\* iput()
LEMMA FileIputStep ==
  ASSUME FileInv, NEW p \in Procs, Iput(p)
  PROVE  FileInv'
<1> DEFINE i == Head(work[p]).x
           T == Tail(work[p])
<1>1. /\ work[p] # <<>> /\ Head(work[p]).op = "iput"
      /\ iref' = [iref EXCEPT ![i] = @ - 1]
      /\ work' = [work EXCEPT ![p] = T]
      /\ UNCHANGED <<ftable, pipe, ofile>>
  BY DEF Iput
<1>2. work[p] \in Works /\ i \in Inums /\ Head(work[p]) = IputOf(i) /\ iref[i] > 0
  BY <1>1, NextItem
<1>3. /\ T \in Works
      /\ \A it : Occurs(work[p], it) = One(IputOf(i) = it) + Occurs(T, it)
  BY <1>1, <1>2, WorkList
<1> HIDE DEF i, T
<1>4. iref \in [Inums -> Nat] /\ work \in [Procs -> Works]
  BY DEF FileInv, FileType
<1>5. iref' \in [Inums -> Nat] /\ \A j \in Inums : iref'[j] = iref[j] - One(i = j)
  BY <1>1, <1>2, <1>4 DEF One
<1>6. work' \in [Procs -> Works] /\ work'[p] = T /\ \A q \in Procs : q # p => work'[q] = work[q]
  BY <1>1, <1>3, <1>4
<1>7. FileType'
  BY <1>1, <1>5, <1>6 DEF FileInv, FileType
<1>8. \A it : Occurs(T, it) \in Nat
  BY DEF Occurs, One
<1>9. FileBalance(p)
  <2>1. \A f : Occurs(work[p], CloseOf(f)) = Occurs(T, CloseOf(f))
    BY <1>3, <1>8, ItemsDiffer DEF One
  <2> QED
    BY <1>1, <1>6, <2>1 DEF FileBalance
<1>10. EndBalance(p)
  <2>1. \A x, w : Occurs(work[p], PipeOf(x, w)) = Occurs(T, PipeOf(x, w))
    BY <1>3, <1>8, ItemsDiffer DEF One
  <2> QED
    BY <1>1, <1>6, <2>1 DEF EndBalance
<1>11. InodeBalance(p)
  <2>1. SUFFICES ASSUME NEW j \in Inums
        PROVE iref'[j] + Occurs(work[p], IputOf(j)) + Cardinality(InodeIn(ftable, j))
              = iref[j] + Occurs(work'[p], IputOf(j)) + Cardinality(InodeIn(ftable', j))
    BY DEF InodeBalance
  <2>2. Occurs(work[p], IputOf(j)) = One(i = j) + Occurs(T, IputOf(j))
    BY <1>3, ItemsDiffer
  <2>3. Cardinality(InodeIn(ftable, j)) \in Nat
    BY Countable, FileConstants
  <2>4. iref[j] \in Nat /\ iref'[j] = iref[j] - One(i = j) /\ One(i = j) \in Nat
    BY <1>4, <1>5 DEF One
  <2> QED
    BY <1>1, <1>6, <1>8, <2>2, <2>3, <2>4
<1> QED
  BY <1>6, <1>7, <1>9, <1>10, <1>11, FileBalanced

\* pipeclose()
LEMMA PipeCloseStep ==
  ASSUME FileInv, NEW p \in Procs, PipeClose(p)
  PROVE  FileInv'
<1> DEFINE y == Head(work[p]).x
           v == Head(work[p]).w
           T == Tail(work[p])
<1>1. /\ work[p] # <<>> /\ Head(work[p]).op = "pipeclose"
      /\ pipe' = [pipe EXCEPT ![y] = @ \ {End(v)}]
      /\ work' = [work EXCEPT ![p] = T]
      /\ UNCHANGED <<ftable, iref, ofile>>
  BY DEF PipeClose, End
<1>2. /\ work[p] \in Works /\ y \in Pipes /\ v \in BOOLEAN /\ Head(work[p]) = PipeOf(y, v)
      /\ End(v) \in pipe[y]
  BY <1>1, NextItem
<1>3. /\ T \in Works
      /\ \A it : Occurs(work[p], it) = One(PipeOf(y, v) = it) + Occurs(T, it)
  BY <1>1, <1>2, WorkList
<1> HIDE DEF y, v, T
<1>4. pipe \in [Pipes -> SUBSET {"read", "write"}] /\ work \in [Procs -> Works]
  BY DEF FileInv, FileType
<1>5. /\ pipe' \in [Pipes -> SUBSET {"read", "write"}]
      /\ \A x \in Pipes : pipe'[x] = IF x = y THEN pipe[x] \ {End(v)} ELSE pipe[x]
  BY <1>1, <1>2, <1>4
<1>6. work' \in [Procs -> Works] /\ work'[p] = T /\ \A q \in Procs : q # p => work'[q] = work[q]
  BY <1>1, <1>3, <1>4
<1>7. FileType'
  BY <1>1, <1>5, <1>6 DEF FileInv, FileType
<1>8. \A it : Occurs(T, it) \in Nat
  BY DEF Occurs, One
<1>9. FileBalance(p)
  <2>1. \A f : Occurs(work[p], CloseOf(f)) = Occurs(T, CloseOf(f))
    BY <1>3, <1>8, ItemsDiffer DEF One
  <2> QED
    BY <1>1, <1>6, <2>1 DEF FileBalance
<1>10. InodeBalance(p)
  <2>1. \A i : Occurs(work[p], IputOf(i)) = Occurs(T, IputOf(i))
    BY <1>3, <1>8, ItemsDiffer DEF One
  <2> QED
    BY <1>1, <1>6, <2>1 DEF InodeBalance
<1>11. EndBalance(p)
  <2>1. SUFFICES ASSUME NEW x \in Pipes, NEW w \in BOOLEAN
        PROVE One(End(w) \in pipe'[x]) + Occurs(work[p], PipeOf(x, w)) + Cardinality(EndIn(ftable, x, w))
              = One(End(w) \in pipe[x]) + Occurs(work'[p], PipeOf(x, w)) + Cardinality(EndIn(ftable', x, w))
    BY DEF EndBalance
  <2>2. Occurs(work[p], PipeOf(x, w)) = One(y = x /\ v = w) + Occurs(T, PipeOf(x, w))
    BY <1>3, ItemsDiffer
  <2>3. Cardinality(EndIn(ftable, x, w)) \in Nat
    BY Countable, FileConstants
  <2>4. One(End(w) \in pipe[x]) = One(End(w) \in pipe'[x]) + One(y = x /\ v = w)
    <3>1. (End(w) = End(v)) <=> (w = v)
      BY <1>2 DEF End
    <3>2. CASE y = x /\ v = w
      BY <1>2, <1>5, <3>2 DEF One
    <3>3. CASE ~(y = x /\ v = w)
      BY <1>5, <3>1, <3>3 DEF One
    <3> QED
      BY <3>2, <3>3
  <2>5. One(y = x /\ v = w) \in Nat /\ One(End(w) \in pipe'[x]) \in Nat
    BY DEF One
  <2> QED
    BY <1>1, <1>6, <1>8, <2>2, <2>3, <2>4, <2>5
<1> QED
  BY <1>6, <1>7, <1>9, <1>10, <1>11, FileBalanced

\* An entry that is free.
LEMMA NoneIs == FileEntry(None) /\ None.ref = 0 /\ None.type = "none"
BY DEF FileEntry, None

\* What fileclose() leaves in the table and hands on.
LEMMA Handed ==
  ASSUME NEW e, FileEntry(e), e.ref > 0, NEW u, u = IF e.ref > 1 THEN [e EXCEPT !.ref = @ - 1] ELSE None
  PROVE  /\ FileEntry(u) /\ u.ref = e.ref - 1
         /\ \A i : HasInode(u, i) <=> HasInode(e, i) /\ e.ref # 1
         /\ \A x, w : HasEnd(u, x, w) <=> HasEnd(e, x, w) /\ e.ref # 1
<1>1. CASE e.ref > 1
  BY <1>1 DEF FileEntry, HasInode, HasEnd
<1>2. CASE e.ref = 1
  <2>1. u = None
    BY <1>2
  <2>2. FileEntry(u) /\ u.ref = 0 /\ u.type = "none"
    BY <2>1, NoneIs
  <2> QED
    BY <1>2, <2>2 DEF HasInode, HasEnd
<1>3. e.ref \in Nat
  BY DEF FileEntry
<1> QED
  BY <1>1, <1>2, <1>3

\* fileclose()
LEMMA FileCloseStep ==
  ASSUME FileInv, NEW p \in Procs, FileClose(p)
  PROVE  FileInv'
<1> DEFINE f == Head(work[p]).x
           e == ftable[f]
           T == Tail(work[p])
           s == IF e.ref = 1 /\ e.type = "inode" THEN <<IputOf(e.ip)>> \o T
                ELSE IF e.ref = 1 /\ e.type = "pipe" THEN <<PipeOf(e.pipe, e.writable)>> \o T
                ELSE T
           u == IF e.ref > 1 THEN [e EXCEPT !.ref = @ - 1] ELSE None
<1>1. /\ work[p] # <<>> /\ Head(work[p]).op = "fileclose"
      /\ ftable' = [ftable EXCEPT ![f] = u]
      /\ work' = [work EXCEPT ![p] = s]
      /\ UNCHANGED <<iref, pipe, ofile>>
  <2>1. /\ work[p] # <<>> /\ Head(work[p]).op = "fileclose"
        /\ ftable' = Closed(f) /\ UNCHANGED <<iref, pipe, ofile>>
    BY DEF FileClose
  <2>2. work' = [work EXCEPT ![p] = s]
    BY DEF FileClose
  <2>3. ftable' = [ftable EXCEPT ![f] = u]
    <3>1. CASE e.ref > 1
      BY <2>1, <3>1 DEF Closed
    <3>2. CASE ~(e.ref > 1)
      BY <2>1, <3>2 DEF Closed
    <3> QED
      BY <3>1, <3>2
  <2> QED
    BY <2>1, <2>2, <2>3
<1>2. work[p] \in Works /\ f \in Files /\ Head(work[p]) = CloseOf(f) /\ e.ref > 0
  BY <1>1, NextItem
<1>3. /\ T \in Works
      /\ \A it : Occurs(work[p], it) = One(CloseOf(f) = it) + Occurs(T, it)
      /\ \A a \in Items : <<a>> \o T \in Works
      /\ \A a, it : Occurs(<<a>> \o T, it) = One(a = it) + Occurs(T, it)
  <2>1. /\ T \in Works
        /\ \A it : Occurs(work[p], it) = One(Head(work[p]) = it) + Occurs(T, it)
        /\ \A a \in Items : <<a>> \o T \in Works
        /\ \A a, it : Occurs(<<a>> \o T, it) = One(a = it) + Occurs(T, it)
    <3>1. work[p] \in Works /\ work[p] # <<>>
      BY <1>1, <1>2
    <3> QED
      BY <3>1, WorkList
  <2> HIDE DEF f, T
  <2> QED
    BY <1>2, <2>1
<1> HIDE DEF f, T
<1>4. /\ ftable = [g \in Files |-> ftable[g]] /\ \A g \in Files : FileEntry(ftable[g])
      /\ work \in [Procs -> Works]
  BY DEF FileInv, FileType
<1>5. FileEntry(e)
  BY <1>2, <1>4
<1>6. /\ FileEntry(u) /\ u.ref = e.ref - 1
      /\ \A i : HasInode(u, i) <=> HasInode(e, i) /\ e.ref # 1
      /\ \A x, w : HasEnd(u, x, w) <=> HasEnd(e, x, w) /\ e.ref # 1
  BY <1>2, <1>5, Handed
<1>7. \A it : Occurs(T, it) \in Nat
  BY DEF Occurs, One
<1>8. /\ s \in Works
      /\ \A g : Occurs(s, CloseOf(g)) = Occurs(T, CloseOf(g))
      /\ \A i : Occurs(s, IputOf(i)) = One(HasInode(e, i) /\ e.ref = 1) + Occurs(T, IputOf(i))
      /\ \A x, w : Occurs(s, PipeOf(x, w)) =
                     One(HasEnd(e, x, w) /\ e.ref = 1) + Occurs(T, PipeOf(x, w))
  <2>1. CASE e.ref = 1 /\ e.type = "inode"
    <3>1. s = <<IputOf(e.ip)>> \o T /\ IputOf(e.ip) \in Items
      BY <1>5, <2>1, ItemsAre DEF FileEntry
    <3>2. \A i, x, w : (HasInode(e, i) <=> e.ip = i) /\ ~HasEnd(e, x, w)
      BY <2>1 DEF HasInode, HasEnd
    <3> HIDE DEF s, e
    <3>3. s \in Works
      BY <1>3, <3>1
    <3>4. \A g : Occurs(s, CloseOf(g)) = Occurs(T, CloseOf(g))
      <4>1. \A g : Occurs(s, CloseOf(g)) = 0 + Occurs(T, CloseOf(g))
        BY <1>3, <3>1, ItemsOne
      <4> QED
        BY <1>7, <4>1
    <3>5. \A i : Occurs(s, IputOf(i)) = One(HasInode(e, i) /\ e.ref = 1) + Occurs(T, IputOf(i))
      <4>1. \A i : One(HasInode(e, i) /\ e.ref = 1) = One(e.ip = i)
        BY <2>1, <3>2 DEF One
      <4>2. \A i : Occurs(s, IputOf(i)) = One(e.ip = i) + Occurs(T, IputOf(i))
        BY <1>3, <3>1, ItemsOne
      <4> QED
        BY <4>1, <4>2
    <3>6. \A x, w : Occurs(s, PipeOf(x, w)) =
                      One(HasEnd(e, x, w) /\ e.ref = 1) + Occurs(T, PipeOf(x, w))
      <4>1. \A x, w : One(HasEnd(e, x, w) /\ e.ref = 1) = 0
        BY <3>2 DEF One
      <4>2. \A x, w : Occurs(s, PipeOf(x, w)) = 0 + Occurs(T, PipeOf(x, w))
        BY <1>3, <3>1, ItemsOne
      <4> QED
        BY <4>1, <4>2
    <3> QED
      BY <3>3, <3>4, <3>5, <3>6
  <2>2. CASE e.ref = 1 /\ e.type = "pipe"
    <3>1. /\ s = <<PipeOf(e.pipe, e.writable)>> \o T
          /\ PipeOf(e.pipe, e.writable) \in Items
      BY <1>5, <2>2, ItemsAre DEF FileEntry
    <3>2. \A i, x, w : (HasEnd(e, x, w) <=> e.pipe = x /\ e.writable = w) /\ ~HasInode(e, i)
      BY <2>2 DEF HasInode, HasEnd
    <3> HIDE DEF s, e
    <3>3. s \in Works
      BY <1>3, <3>1
    <3>4. \A g : Occurs(s, CloseOf(g)) = Occurs(T, CloseOf(g))
      <4>1. \A g : Occurs(s, CloseOf(g)) = 0 + Occurs(T, CloseOf(g))
        BY <1>3, <3>1, ItemsOne
      <4> QED
        BY <1>7, <4>1
    <3>5. \A i : Occurs(s, IputOf(i)) = One(HasInode(e, i) /\ e.ref = 1) + Occurs(T, IputOf(i))
      <4>1. \A i : One(HasInode(e, i) /\ e.ref = 1) = 0
        BY <3>2 DEF One
      <4>2. \A i : Occurs(s, IputOf(i)) = 0 + Occurs(T, IputOf(i))
        BY <1>3, <3>1, ItemsOne
      <4> QED
        BY <4>1, <4>2
    <3>6. \A x, w : Occurs(s, PipeOf(x, w)) =
                      One(HasEnd(e, x, w) /\ e.ref = 1) + Occurs(T, PipeOf(x, w))
      <4>1. \A x, w : One(HasEnd(e, x, w) /\ e.ref = 1) = One(e.pipe = x /\ e.writable = w)
        BY <2>2, <3>2 DEF One
      <4>2. \A x, w : Occurs(s, PipeOf(x, w)) =
                       One(e.pipe = x /\ e.writable = w) + Occurs(T, PipeOf(x, w))
        BY <1>3, <3>1, ItemsOne
      <4> QED
        BY <4>1, <4>2
    <3> QED
      BY <3>3, <3>4, <3>5, <3>6
  <2>3. CASE ~(e.ref = 1 /\ e.type \in {"inode", "pipe"})
    <3>1. s = T
      BY <2>3
    <3>2. \A i, x, w : ~(HasInode(e, i) /\ e.ref = 1) /\ ~(HasEnd(e, x, w) /\ e.ref = 1)
      BY <2>3 DEF HasInode, HasEnd
    <3> HIDE DEF s, e
    <3> QED
      BY <1>3, <1>7, <3>1, <3>2 DEF One
  <2> QED
    BY <2>1, <2>2, <2>3
<1> HIDE DEF s, u
<1>9. /\ ftable' = [g \in Files |-> ftable'[g]] /\ ftable'[f] = u
      /\ \A g \in Files : g # f => ftable'[g] = ftable[g]
  BY <1>1, <1>2, <1>4
<1>10. /\ work' \in [Procs -> Works] /\ work'[p] = s
       /\ \A q \in Procs : q # p => work'[q] = work[q]
  BY <1>1, <1>4, <1>8
<1>11. FileType'
  <2>1. \A g \in Files : FileEntry(ftable'[g])
    BY <1>4, <1>6, <1>9
  <2> QED
    BY <1>1, <1>9, <1>10, <2>1 DEF FileInv, FileType
<1>12. FileBalance(p)
  <2>1. SUFFICES ASSUME NEW g \in Files
        PROVE ftable'[g].ref + Occurs(work[p], CloseOf(g)) + Cardinality(DescIn(ofile, g))
              = ftable[g].ref + Occurs(work'[p], CloseOf(g)) + Cardinality(DescIn(ofile', g))
    BY DEF FileBalance
  <2>2. Occurs(work[p], CloseOf(g)) = One(f = g) + Occurs(T, CloseOf(g))
    BY <1>3, ItemsDiffer
  <2>3. ftable'[g].ref = ftable[g].ref - One(f = g) /\ ftable[g].ref \in Nat /\ One(f = g) \in Nat
    <3>1. ftable[g].ref \in Nat
      BY <1>4, <2>1 DEF FileEntry
    <3>2. CASE g = f
      BY <1>6, <1>9, <3>1, <3>2 DEF One
    <3>3. CASE g # f
      BY <1>9, <2>1, <3>1, <3>3 DEF One
    <3> QED
      BY <3>2, <3>3
  <2>4. Cardinality(DescIn(ofile, g)) \in Nat
    BY Countable, FileConstants
  <2> QED
    BY <1>1, <1>7, <1>8, <1>10, <2>2, <2>3, <2>4
<1>13. InodeBalance(p)
  <2>1. SUFFICES ASSUME NEW i \in Inums
        PROVE iref'[i] + Occurs(work[p], IputOf(i)) + Cardinality(InodeIn(ftable, i))
              = iref[i] + Occurs(work'[p], IputOf(i)) + Cardinality(InodeIn(ftable', i))
    BY DEF InodeBalance
  <2>2. Occurs(work[p], IputOf(i)) = Occurs(T, IputOf(i))
    BY <1>3, <1>7, ItemsDiffer DEF One
  <2>3. /\ Cardinality(InodeIn(ftable, i)) \in Nat /\ Cardinality(InodeIn(ftable', i)) \in Nat
        /\ Cardinality(InodeIn(ftable', i)) + One(HasInode(e, i))
           = Cardinality(InodeIn(ftable, i)) + One(HasInode(u, i))
    BY <1>2, <1>9, FileCount, FileConstants DEF Alike
  <2>4. One(HasInode(e, i)) = One(HasInode(u, i)) + One(HasInode(e, i) /\ e.ref = 1)
    BY <1>6 DEF One
  <2>5. One(HasInode(u, i)) \in Nat /\ One(HasInode(e, i) /\ e.ref = 1) \in Nat
    BY DEF One
  <2>6. iref'[i] = iref[i] /\ iref[i] \in Nat
    BY <1>1 DEF FileInv, FileType
  <2> QED
    BY <1>7, <1>8, <1>10, <2>2, <2>3, <2>4, <2>5, <2>6
<1>14. EndBalance(p)
  <2>1. SUFFICES ASSUME NEW x \in Pipes, NEW w \in BOOLEAN
        PROVE One(End(w) \in pipe'[x]) + Occurs(work[p], PipeOf(x, w)) + Cardinality(EndIn(ftable, x, w))
              = One(End(w) \in pipe[x]) + Occurs(work'[p], PipeOf(x, w)) + Cardinality(EndIn(ftable', x, w))
    BY DEF EndBalance
  <2>2. Occurs(work[p], PipeOf(x, w)) = Occurs(T, PipeOf(x, w))
    BY <1>3, <1>7, ItemsDiffer DEF One
  <2>3. /\ Cardinality(EndIn(ftable, x, w)) \in Nat /\ Cardinality(EndIn(ftable', x, w)) \in Nat
        /\ Cardinality(EndIn(ftable', x, w)) + One(HasEnd(e, x, w))
           = Cardinality(EndIn(ftable, x, w)) + One(HasEnd(u, x, w))
    BY <1>2, <1>9, FileCount, FileConstants DEF Alike
  <2>4. One(HasEnd(e, x, w)) = One(HasEnd(u, x, w)) + One(HasEnd(e, x, w) /\ e.ref = 1)
    BY <1>6 DEF One
  <2>5. One(HasEnd(u, x, w)) \in Nat /\ One(HasEnd(e, x, w) /\ e.ref = 1) \in Nat
    BY DEF One
  <2>6. One(End(w) \in pipe'[x]) = One(End(w) \in pipe[x]) /\ One(End(w) \in pipe[x]) \in Nat
    BY <1>1 DEF One
  <2> QED
    BY <1>7, <1>8, <1>10, <2>2, <2>3, <2>4, <2>5, <2>6
<1> QED
  BY <1>10, <1>11, <1>12, <1>13, <1>14, FileBalanced

\* The least element of a set of numbers is in it.
LEMMA MinIn ==
  ASSUME NEW T, T \subseteq Nat, T # {}
  PROVE  Min(T) \in T
BY LeastNumber DEF Min

\* A table of open files.
Table(t) == t = [f \in Files |-> t[f]] /\ \A f \in Files : FileEntry(t[f])

\* A step of p that puts s on its empty work list.
LEMMA WorkSet ==
  ASSUME FileInv, NEW p \in Procs, work[p] = <<>>, NEW s \in Works,
         work' = [work EXCEPT ![p] = s]
  PROVE  /\ work' \in [Procs -> Works] /\ work'[p] = s
         /\ \A q \in Procs : q # p => work'[q] = work[q]
         /\ \A it : Occurs(work[p], it) = 0
<1>1. work \in [Procs -> Works]
  BY DEF FileInv, FileType
<1>2. \A it : Occurs(<<>>, it) = 0
  BY NoItem
<1> QED
  BY <1>1, <1>2

\* A descriptor becomes work to do: close(), and the loop in exit().
LEMMA CloseDescriptor ==
  ASSUME FileInv, NEW p \in Procs, NEW d \in Fds,
         work[p] = <<>>, ofile[p][d] # 0,
         ofile' = [ofile EXCEPT ![p][d] = 0],
         work' = [work EXCEPT ![p] = <<CloseOf(ofile[p][d])>>],
         UNCHANGED <<iref, ftable, pipe>>
  PROVE  FileInv'
<1> DEFINE f == ofile[p][d]
           s == <<CloseOf(f)>>
<1>1. NFILE \in Nat /\ NOFILE \in Nat \ {0} /\ IsFiniteSet(Procs)
  BY FileConstants
<1>2. ofile \in Descriptors
  BY DEF FileInv, FileType
<1>3. f \in Files
  BY <1>1, <1>2 DEF Descriptors, Files
<1>4. CloseOf(f) \in Items
  BY <1>3, ItemsAre
<1> HIDE DEF f
<1>5. s \in Works /\ \A it : Occurs(s, it) = One(CloseOf(f) = it)
  BY <1>4, OneItem
<1> HIDE DEF s
<1>6. /\ work' \in [Procs -> Works] /\ work'[p] = s
      /\ \A q \in Procs : q # p => work'[q] = work[q]
      /\ \A it : Occurs(work[p], it) = 0
  BY <1>5, WorkSet DEF s, f
<1>7. 0 \in 0..NFILE
  BY <1>1
<1>8. ofile' \in Descriptors /\ DescChange(ofile, ofile', f, 0)
  <2>1. ofile' = SetDesc(ofile, p, d, 0)
    BY DEF SetDesc
  <2> QED
    BY <1>1, <1>2, <1>7, <2>1, DescCount DEF f
<1>9. FileType'
  BY <1>6, <1>8 DEF FileInv, FileType
<1>10. InodeBalance(p)
  <2>1. \A i : Occurs(work'[p], IputOf(i)) = 0
    BY <1>5, <1>6, ItemsOne
  <2> QED
    BY <1>6, <2>1 DEF InodeBalance
<1>11. EndBalance(p)
  <2>1. \A x, w : Occurs(work'[p], PipeOf(x, w)) = 0
    BY <1>5, <1>6, ItemsOne
  <2> QED
    BY <1>6, <2>1 DEF EndBalance
<1>12. FileBalance(p)
  <2>1. SUFFICES ASSUME NEW g \in Files
        PROVE ftable'[g].ref + Occurs(work[p], CloseOf(g)) + Cardinality(DescIn(ofile, g))
              = ftable[g].ref + Occurs(work'[p], CloseOf(g)) + Cardinality(DescIn(ofile', g))
    BY DEF FileBalance
  <2>2. Occurs(work[p], CloseOf(g)) = 0 /\ Occurs(work'[p], CloseOf(g)) = One(f = g)
    BY <1>5, <1>6, ItemsOne
  <2>3. ftable'[g].ref = ftable[g].ref /\ ftable[g].ref \in Nat
    BY DEF FileInv, FileType, FileEntry
  <2>4. One(0 = g) = 0 /\ One(f = g) \in Nat
    BY DEF One, Files
  <2>5. /\ Cardinality(DescIn(ofile, g)) \in Nat /\ Cardinality(DescIn(ofile', g)) \in Nat
        /\ Cardinality(DescIn(ofile', g)) + One(f = g) = Cardinality(DescIn(ofile, g)) + One(0 = g)
    BY <1>8 DEF DescChange
  <2> QED
    BY <2>2, <2>3, <2>4, <2>5
<1> QED
  BY <1>6, <1>9, <1>10, <1>11, <1>12, FileBalanced

\* close(), and each turn of the loop in exit().
LEMMA FileCloseCall ==
  ASSUME FileInv, NEW p \in Procs,
         (\E d \in Fds : Close(p, d)) \/ ExitClose(p)
  PROVE  FileInv'
<1>1. ASSUME NEW d \in Fds, Close(p, d) PROVE FileInv'
  BY <1>1, CloseDescriptor DEF Close, Ready
<1>2. CASE ExitClose(p)
  <2> DEFINE d == Min(Fds \ FreeFds(p))
  <2>1. /\ work[p] = <<>> /\ FreeFds(p) # Fds
        /\ ofile' = [ofile EXCEPT ![p][d] = 0]
        /\ work' = [work EXCEPT ![p] = <<CloseOf(ofile[p][d])>>]
        /\ UNCHANGED <<iref, ftable, pipe>>
    BY <1>2 DEF ExitClose
  <2>2. Fds \ FreeFds(p) \subseteq Nat /\ Fds \ FreeFds(p) # {}
    BY <2>1, FileConstants DEF FreeFds, Fds
  <2>3. d \in Fds \ FreeFds(p)
    BY <2>2, MinIn
  <2>4. d \in Fds /\ ofile[p][d] # 0
    BY <2>3 DEF FreeFds
  <2> HIDE DEF d
  <2> QED
    BY <2>1, <2>4, CloseDescriptor
<1> QED
  BY <1>1, <1>2

\* unlink()
LEMMA UnlinkStep ==
  ASSUME FileInv, NEW p \in Procs, Unlink(p)
  PROVE  FileInv'
<1>1. /\ work[p] = <<>> /\ UNCHANGED <<ftable, pipe, ofile>>
  BY DEF Unlink, Ready
<1>2. PICK i \in Named : /\ iref' = [iref EXCEPT ![i] = @ + 1]
                          /\ work' = [work EXCEPT ![p] = <<IputOf(i)>>]
  BY DEF Unlink
<1>3. i \in Inums
  BY DEF Named
<1> DEFINE s == <<IputOf(i)>>
<1>4. IputOf(i) \in Items
  BY <1>3, ItemsAre
<1>5. s \in Works /\ \A it : Occurs(s, it) = One(IputOf(i) = it)
  BY <1>4, OneItem
<1> HIDE DEF s
<1>6. /\ work' \in [Procs -> Works] /\ work'[p] = s
      /\ \A q \in Procs : q # p => work'[q] = work[q]
      /\ \A it : Occurs(work[p], it) = 0
  BY <1>1, <1>2, <1>5, WorkSet DEF s
<1>7. iref \in [Inums -> Nat]
  BY DEF FileInv, FileType
<1>8. iref' \in [Inums -> Nat] /\ \A j \in Inums : iref'[j] = iref[j] + One(i = j)
  BY <1>2, <1>3, <1>7 DEF One
<1>9. FileType'
  BY <1>1, <1>6, <1>8 DEF FileInv, FileType
<1>10. FileBalance(p)
  <2>1. \A f : Occurs(work'[p], CloseOf(f)) = 0
    BY <1>5, <1>6, ItemsOne
  <2> QED
    BY <1>1, <1>6, <2>1 DEF FileBalance
<1>11. EndBalance(p)
  <2>1. \A x, w : Occurs(work'[p], PipeOf(x, w)) = 0
    BY <1>5, <1>6, ItemsOne
  <2> QED
    BY <1>1, <1>6, <2>1 DEF EndBalance
<1>12. InodeBalance(p)
  <2>1. SUFFICES ASSUME NEW j \in Inums
        PROVE iref'[j] + Occurs(work[p], IputOf(j)) + Cardinality(InodeIn(ftable, j))
              = iref[j] + Occurs(work'[p], IputOf(j)) + Cardinality(InodeIn(ftable', j))
    BY DEF InodeBalance
  <2>2. Occurs(work[p], IputOf(j)) = 0 /\ Occurs(work'[p], IputOf(j)) = One(i = j)
    BY <1>5, <1>6, ItemsOne
  <2>3. Cardinality(InodeIn(ftable, j)) \in Nat
    BY Countable, FileConstants
  <2>4. iref[j] \in Nat /\ iref'[j] = iref[j] + One(i = j) /\ One(i = j) \in Nat
    BY <1>7, <1>8 DEF One
  <2> QED
    BY <1>1, <2>2, <2>3, <2>4
<1> QED
  BY <1>6, <1>9, <1>10, <1>11, <1>12, FileBalanced

\* dup()
LEMMA DupStep ==
  ASSUME FileInv, NEW p \in Procs, NEW d \in Fds, Dup(p, d)
  PROVE  FileInv'
<1> DEFINE f == ofile[p][d]
           c == Min(FreeFds(p))
<1>1. /\ f # 0 /\ FreeFds(p) # {}
      /\ ofile' = [ofile EXCEPT ![p][c] = f]
      /\ ftable' = [ftable EXCEPT ![f].ref = @ + 1]
      /\ UNCHANGED <<iref, pipe, work>>
  BY DEF Dup
<1>2. NFILE \in Nat /\ NOFILE \in Nat \ {0} /\ IsFiniteSet(Procs)
  BY FileConstants
<1>3. FreeFds(p) \subseteq Nat
  BY <1>2 DEF FreeFds, Fds
<1>4. c \in FreeFds(p)
  BY <1>1, <1>3, MinIn
<1>5. c \in Fds /\ ofile[p][c] = 0
  BY <1>4 DEF FreeFds
<1>6. /\ ofile \in Descriptors /\ ftable = [g \in Files |-> ftable[g]]
      /\ \A g \in Files : FileEntry(ftable[g])
      /\ work \in [Procs -> Works]
  BY DEF FileInv, FileType
<1>7. f \in Files /\ f \in 0..NFILE
  BY <1>1, <1>2, <1>6 DEF Descriptors, Files
<1> HIDE DEF f, c
<1>8. ofile' \in Descriptors /\ DescChange(ofile, ofile', 0, f)
  <2>1. ofile' = SetDesc(ofile, p, c, f)
    BY <1>1 DEF SetDesc
  <2> QED
    BY <1>2, <1>5, <1>6, <1>7, <2>1, DescCount
<1>9. /\ ftable' = [g \in Files |-> ftable'[g]]
      /\ ftable'[f] = [ftable[f] EXCEPT !.ref = @ + 1]
      /\ \A g \in Files : g # f => ftable'[g] = ftable[g]
  BY <1>1, <1>6, <1>7
<1>10. ftable[f].ref # 0
  <2>1. /\ ftable[f].ref =
             Cardinality(ItemIn(work, CloseOf(f))) + Cardinality(DescIn(ofile, f))
    BY <1>7 DEF FileInv, FileCounted
  <2>2. Cardinality(DescIn(ofile, f)) # 0
    <3>1. IsFiniteSet(Fds)
      BY <1>2, FS_Interval DEF Fds
    <3>2. IsFiniteSet(Procs \X Fds)
      BY <1>2, <3>1, FS_Product
    <3>3. DescIn(ofile, f) \subseteq Procs \X Fds /\ <<p, d>> \in DescIn(ofile, f)
      BY DEF DescIn, f
    <3>4. IsFiniteSet(DescIn(ofile, f)) /\ DescIn(ofile, f) # {}
      BY <3>2, <3>3, FS_Subset
    <3> QED
      BY <3>4, FS_EmptySet
  <2>3. Cardinality(ItemIn(work, CloseOf(f))) \in Nat
    BY <1>2, WorkCount
  <2>4. Cardinality(DescIn(ofile, f)) \in Nat
    BY <1>8 DEF DescChange
  <2> QED
    BY <2>1, <2>2, <2>3, <2>4
<1>11. /\ FileEntry(ftable'[f]) /\ ftable'[f].ref = ftable[f].ref + 1
       /\ ftable'[f].type = ftable[f].type /\ ftable'[f].ip = ftable[f].ip
       /\ ftable'[f].pipe = ftable[f].pipe /\ ftable'[f].writable = ftable[f].writable
  <2>1. FileEntry(ftable[f])
    BY <1>6, <1>7
  <2> QED
    BY <1>9, <1>10, <2>1 DEF FileEntry
<1>12. FileType'
  <2>1. \A g \in Files : FileEntry(ftable'[g])
    BY <1>6, <1>9, <1>11
  <2> QED
    BY <1>1, <1>8, <1>9, <2>1 DEF FileInv, FileType
<1>13. \A i : InodeIn(ftable', i) = InodeIn(ftable, i)
  <2>1. \A g \in Files : \A i : HasInode(ftable'[g], i) <=> HasInode(ftable[g], i)
    BY <1>9, <1>11 DEF HasInode
  <2> QED
    BY <2>1 DEF InodeIn
<1>14. \A x, w : EndIn(ftable', x, w) = EndIn(ftable, x, w)
  <2>1. \A g \in Files : \A x, w : HasEnd(ftable'[g], x, w) <=> HasEnd(ftable[g], x, w)
    BY <1>9, <1>11 DEF HasEnd
  <2> QED
    BY <2>1 DEF EndIn
<1>15. InodeBalance(p)
  BY <1>1, <1>13 DEF InodeBalance
<1>16. EndBalance(p)
  BY <1>1, <1>14 DEF EndBalance
<1>17. FileBalance(p)
  <2>1. SUFFICES ASSUME NEW g \in Files
        PROVE ftable'[g].ref + Occurs(work[p], CloseOf(g)) + Cardinality(DescIn(ofile, g))
              = ftable[g].ref + Occurs(work'[p], CloseOf(g)) + Cardinality(DescIn(ofile', g))
    BY DEF FileBalance
  <2>2. Occurs(work'[p], CloseOf(g)) = Occurs(work[p], CloseOf(g))
    BY <1>1
  <2>3. Occurs(work[p], CloseOf(g)) \in Nat
    BY DEF Occurs, One
  <2>4. ftable'[g].ref = ftable[g].ref + One(f = g) /\ ftable[g].ref \in Nat
    <3>1. ftable[g].ref \in Nat
      BY <1>6, <2>1 DEF FileEntry
    <3>2. CASE g = f
      BY <1>11, <3>1, <3>2 DEF One
    <3>3. CASE g # f
      BY <1>9, <2>1, <3>1, <3>3 DEF One
    <3> QED
      BY <3>2, <3>3
  <2>5. One(0 = g) = 0 /\ One(f = g) \in Nat
    BY DEF One, Files
  <2>6. /\ Cardinality(DescIn(ofile, g)) \in Nat /\ Cardinality(DescIn(ofile', g)) \in Nat
        /\ Cardinality(DescIn(ofile', g)) + One(0 = g) = Cardinality(DescIn(ofile, g)) + One(f = g)
    BY <1>8 DEF DescChange
  <2> QED
    BY <2>2, <2>3, <2>4, <2>5, <2>6
<1> QED
  BY <1>1, <1>12, <1>15, <1>16, <1>17, FileBalanced

\* fork() copies the descriptors of p to a child that has none.
NoDesc(o, c)      == \A d \in Fds : o[c][d] = 0
CopyDesc(o, c, p) == [o EXCEPT ![c] = o[p]]
DescOf(o, p, f)   == {d \in Fds : o[p][d] = f}

\* fork() adds to file f as many descriptors as the parent has of it.
LEMMA ForkDescriptors ==
  ASSUME IsFiniteSet(Procs), NOFILE \in Nat \ {0}, NEW p \in Procs, NEW c \in Procs,
         NEW o \in Descriptors, NoDesc(o, c), NEW u, u = CopyDesc(o, c, p), NEW f, f # 0
  PROVE  /\ Cardinality(DescOf(o, p, f)) \in Nat /\ Cardinality(DescIn(o, f)) \in Nat
         /\ Cardinality(DescIn(u, f)) = Cardinality(DescIn(o, f)) + Cardinality(DescOf(o, p, f))
<1> USE DEF NoDesc, CopyDesc, DescOf
<1> DEFINE N == DescOf(o, p, f)
           D == DescIn(o, f)
           C == {c} \X N
<1>1. IsFiniteSet(Fds)
  BY FS_Interval DEF Fds
<1>2. IsFiniteSet(Procs \X Fds)
  BY <1>1, FS_Product
<1>3. N \subseteq Fds /\ D \subseteq Procs \X Fds
  BY DEF DescIn
<1>4. IsFiniteSet(N) /\ IsFiniteSet(D)
  BY <1>1, <1>2, <1>3, FS_Subset
<1>5. \A q \in Procs, d \in Fds : u[q][d] = IF q = c THEN o[p][d] ELSE o[q][d]
  BY DEF Descriptors
<1>6. DescIn(u, f) = D \cup C /\ D \cap C = {}
  <2>1. \A e \in Procs \X Fds : e[1] \in Procs /\ e[2] \in Fds /\ e = <<e[1], e[2]>>
    OBVIOUS
  <2>2. \A e \in Procs \X Fds : e \in C <=> e[1] = c /\ o[p][e[2]] = f
    BY <2>1
  <2>3. \A e \in Procs \X Fds : e \in D <=> o[e[1]][e[2]] = f
    BY DEF DescIn
  <2>4. \A e \in Procs \X Fds : e \in DescIn(u, f) <=> u[e[1]][e[2]] = f
    BY DEF DescIn
  <2>5. C \subseteq Procs \X Fds /\ DescIn(u, f) \subseteq Procs \X Fds
    BY DEF DescIn
  <2>6. \A e \in Procs \X Fds : e \in D => e[1] # c
    BY <2>1, <2>3
  <2> HIDE DEF C, D
  <2>7. \A e \in Procs \X Fds : e \in DescIn(u, f) <=> e \in D \/ e \in C
    <3>1. SUFFICES ASSUME NEW e \in Procs \X Fds
                   PROVE  e \in DescIn(u, f) <=> e \in D \/ e \in C
      OBVIOUS
    <3>2. e[1] \in Procs /\ e[2] \in Fds
      BY <2>1
    <3>3. u[e[1]][e[2]] = IF e[1] = c THEN o[p][e[2]] ELSE o[e[1]][e[2]]
      BY <1>5, <3>2
    <3>4. CASE e[1] = c
      <4>1. e \notin D
        BY <2>6, <3>4
      <4>2. u[e[1]][e[2]] = o[p][e[2]]
        BY <3>3, <3>4
      <4> QED
        BY <2>2, <2>4, <3>4, <4>1, <4>2
    <3>5. CASE e[1] # c
      BY <2>2, <2>3, <2>4, <3>3, <3>5
    <3> QED
      BY <3>4, <3>5
  <2>8. \A e \in Procs \X Fds : ~(e \in D /\ e \in C)
    BY <2>2, <2>6
  <2> QED
    BY <1>3, <2>5, <2>7, <2>8
<1>7. IsFiniteSet({c}) /\ Cardinality({c}) = 1
  BY FS_Singleton
<1> HIDE DEF N, D
<1>8. Cardinality(N) \in Nat /\ Cardinality(D) \in Nat
  BY <1>4, FS_CardinalityType
<1>9. IsFiniteSet(C) /\ Cardinality(C) = 1 * Cardinality(N)
  BY <1>4, <1>7, FS_Product
<1> HIDE DEF C
<1>10. Cardinality(D \cup C) = Cardinality(D) + Cardinality(C) - Cardinality(D \cap C)
  BY <1>4, <1>9, FS_Union
<1>11. Cardinality(D \cap C) = 0
  BY <1>6, FS_EmptySet
<1>12. Cardinality(DescIn(u, f)) = Cardinality(D) + Cardinality(N)
  <2>1. Cardinality(C) = Cardinality(N)
    BY <1>8, <1>9
  <2>2. DescIn(u, f) = D \cup C
    BY <1>6
  <2> HIDE DEF NoDesc, CopyDesc, DescOf
  <2>3. Cardinality(DescIn(u, f)) = Cardinality(D) + Cardinality(N) - 0
    BY <1>10, <1>11, <2>1, <2>2
  <2> QED
    BY <1>8, <2>3
<1> QED
  BY <1>8, <1>12 DEF N, D

\* fork()
LEMMA ForkStep ==
  ASSUME FileInv, NEW p \in Procs, NEW c \in Procs, Fork(p, c)
  PROVE  FileInv'
<1> DEFINE N(f) == Cardinality(DescOf(ofile, p, f))
<1>1. /\ FreeFds(c) = Fds
      /\ ofile' = [ofile EXCEPT ![c] = ofile[p]]
      /\ ftable' = Duped(p)
      /\ UNCHANGED <<iref, pipe, work>>
  BY DEF Fork
<1>2. NFILE \in Nat /\ NOFILE \in Nat \ {0} /\ IsFiniteSet(Procs)
  BY FileConstants
<1>3. /\ ofile \in Descriptors /\ ftable = [g \in Files |-> ftable[g]]
      /\ \A g \in Files : FileEntry(ftable[g])
      /\ work \in [Procs -> Works]
  BY DEF FileInv, FileType
<1>4. NoDesc(ofile, c) /\ ofile' = CopyDesc(ofile, c, p)
  BY <1>1 DEF FreeFds, NoDesc, CopyDesc
<1>5. \A f : f # 0 => /\ N(f) \in Nat /\ Cardinality(DescIn(ofile, f)) \in Nat
                      /\ Cardinality(DescIn(ofile', f)) = Cardinality(DescIn(ofile, f)) + N(f)
  BY <1>2, <1>3, <1>4, ForkDescriptors
<1>6. /\ ftable' = [g \in Files |-> ftable'[g]]
      /\ \A g \in Files : ftable'[g] = [ftable[g] EXCEPT !.ref = ftable[g].ref + N(g)]
  <2>1. ftable' = [g \in Files |-> [ftable[g] EXCEPT !.ref = @ + N(g)]]
    BY <1>1 DEF Duped, DescOf
  <2> HIDE DEF N
  <2> QED
    BY <2>1
<1> HIDE DEF N
<1>7. ASSUME NEW g \in Files
      PROVE  /\ FileEntry(ftable'[g]) /\ ftable'[g].ref = ftable[g].ref + N(g)
             /\ ftable[g].ref \in Nat /\ N(g) \in Nat
             /\ ftable'[g].type = ftable[g].type /\ ftable'[g].ip = ftable[g].ip
             /\ ftable'[g].pipe = ftable[g].pipe /\ ftable'[g].writable = ftable[g].writable
  <2>1. FileEntry(ftable[g])
    BY <1>3
  <2>2. g # 0
    BY DEF Files
  <2>3. N(g) \in Nat /\ ftable'[g] = [ftable[g] EXCEPT !.ref = ftable[g].ref + N(g)]
    BY <1>5, <1>6, <2>2
  <2>4. ftable[g].ref \in Nat /\ ftable[g].ref + N(g) \in Nat
        /\ (ftable[g].ref + N(g) = 0 => ftable[g].ref = 0)
    BY <2>1, <2>3 DEF FileEntry
  <2> QED
    BY <2>1, <2>3, <2>4 DEF FileEntry
<1>8. ofile' \in Descriptors
  BY <1>1, <1>3 DEF Descriptors
<1>9. FileType'
  BY <1>1, <1>6, <1>7, <1>8 DEF FileInv, FileType
<1>10. \A i : InodeIn(ftable', i) = InodeIn(ftable, i)
  BY <1>7 DEF InodeIn, HasInode
<1>11. \A x, w : EndIn(ftable', x, w) = EndIn(ftable, x, w)
  BY <1>7 DEF EndIn, HasEnd
<1>12. InodeBalance(p)
  BY <1>1, <1>10 DEF InodeBalance
<1>13. EndBalance(p)
  BY <1>1, <1>11 DEF EndBalance
<1>14. FileBalance(p)
  <2>1. SUFFICES ASSUME NEW g \in Files
        PROVE ftable'[g].ref + Occurs(work[p], CloseOf(g)) + Cardinality(DescIn(ofile, g))
              = ftable[g].ref + Occurs(work'[p], CloseOf(g)) + Cardinality(DescIn(ofile', g))
    BY DEF FileBalance
  <2>2. Occurs(work'[p], CloseOf(g)) = Occurs(work[p], CloseOf(g))
    BY <1>1
  <2>3. Occurs(work[p], CloseOf(g)) \in Nat
    BY DEF Occurs, One
  <2>4. g # 0
    BY DEF Files
  <2>5. /\ N(g) \in Nat /\ Cardinality(DescIn(ofile, g)) \in Nat
        /\ Cardinality(DescIn(ofile', g)) = Cardinality(DescIn(ofile, g)) + N(g)
    BY <1>5, <2>4
  <2>6. ftable'[g].ref = ftable[g].ref + N(g) /\ ftable[g].ref \in Nat
    BY <1>7
  <2> QED
    BY <2>2, <2>3, <2>5, <2>6
<1> QED
  BY <1>1, <1>9, <1>12, <1>13, <1>14, FileBalanced

\* read() and write() move the offset at most.
LEMMA ReadWriteStep ==
  ASSUME FileInv, NEW p \in Procs,
         \/ \E d \in Fds, n \in Sizes : Read(p, d, n) \/ Write(p, d, n)
         \/ WriteMore(p)
  PROVE  FileInv'
<1>1. ASSUME NEW f, NEW n, Chunk(p, f, n) PROVE FileInv'
  <2>1. UNCHANGED <<iref, pipe, ofile, work>>
    BY <1>1 DEF Chunk
  <2>2. UNCHANGED ftable \/ \E m : ftable' = Moved(f, m)
    BY <1>1 DEF Chunk
  <2>3. ASSUME NEW m, ftable' = Moved(f, m) PROVE FileInv'
    BY <2>1, <2>3, OffsetStep DEF Moved
  <2> QED
    BY <2>1, <2>2, <2>3, FileUnchanged
<1>2. ASSUME NEW d \in Fds, NEW n \in Sizes, Read(p, d, n) PROVE FileInv'
  <2>1. UNCHANGED <<iref, pipe, ofile, work>>
    BY <1>2 DEF Read
  <2>2. \E f, v : ftable' = [ftable EXCEPT ![f].off = v]
    BY <1>2 DEF Read
  <2> QED
    BY <2>1, <2>2, OffsetStep
<1> QED
  BY <1>1, <1>2 DEF Write, WriteMore

\* filealloc() takes a free file, and the call fills it in.
SetEntry(t, f, e) == [t EXCEPT ![f] = e]
Grown(t, u, f, e) ==
    /\ Table(u)
    /\ \A g \in Files : u[g].ref = t[g].ref + One(f = g)
    /\ \A i : /\ Cardinality(InodeIn(t, i)) \in Nat
              /\ Cardinality(InodeIn(u, i)) = Cardinality(InodeIn(t, i)) + One(HasInode(e, i))
    /\ \A x, w : /\ Cardinality(EndIn(t, x, w)) \in Nat
                 /\ Cardinality(EndIn(u, x, w)) = Cardinality(EndIn(t, x, w)) + One(HasEnd(e, x, w))

\* Filling in a free entry adds what the new entry has.
LEMMA NewEntry ==
  ASSUME NFILE \in Nat, NEW t, Table(t), NEW f \in Files, t[f].ref = 0,
         NEW e, FileEntry(e), e.ref = 1, NEW u, u = SetEntry(t, f, e)
  PROVE  Grown(t, u, f, e)
<1>1. t = [g \in Files |-> t[g]] /\ \A g \in Files : FileEntry(t[g])
  BY DEF Table
<1>2. u = [g \in Files |-> u[g]] /\ u[f] = e /\ \A g \in Files : g # f => u[g] = t[g]
  BY <1>1 DEF SetEntry
<1>3. Table(u)
  BY <1>1, <1>2 DEF Table
<1>4. \A g \in Files : u[g].ref = t[g].ref + One(f = g)
  <2>1. SUFFICES ASSUME NEW g \in Files PROVE u[g].ref = t[g].ref + One(f = g)
    OBVIOUS
  <2>2. t[g].ref \in Nat
    BY <1>1 DEF FileEntry
  <2>3. CASE g = f
    BY <1>2, <2>3 DEF One
  <2>4. CASE g # f
    BY <1>2, <2>2, <2>4 DEF One
  <2> QED
    BY <2>3, <2>4
<1>5. \A i, x, w : ~HasInode(t[f], i) /\ ~HasEnd(t[f], x, w)
  <2>1. t[f].type = "none"
    BY <1>1 DEF FileEntry
  <2> QED
    BY <2>1 DEF HasInode, HasEnd
<1>6. ASSUME NEW i
      PROVE  /\ Cardinality(InodeIn(t, i)) \in Nat
             /\ Cardinality(InodeIn(u, i)) = Cardinality(InodeIn(t, i)) + One(HasInode(e, i))
  <2>1. /\ Cardinality(InodeIn(t, i)) \in Nat /\ Cardinality(InodeIn(u, i)) \in Nat
        /\ Cardinality(InodeIn(u, i)) + One(HasInode(t[f], i))
           = Cardinality(InodeIn(t, i)) + One(HasInode(u[f], i))
    BY <1>2, FileCount DEF Alike
  <2>2. One(HasInode(t[f], i)) = 0 /\ One(HasInode(u[f], i)) = One(HasInode(e, i))
    BY <1>2, <1>5 DEF One
  <2> QED
    BY <2>1, <2>2
<1>7. ASSUME NEW x, NEW w
      PROVE  /\ Cardinality(EndIn(t, x, w)) \in Nat
             /\ Cardinality(EndIn(u, x, w)) = Cardinality(EndIn(t, x, w)) + One(HasEnd(e, x, w))
  <2>1. /\ Cardinality(EndIn(t, x, w)) \in Nat /\ Cardinality(EndIn(u, x, w)) \in Nat
        /\ Cardinality(EndIn(u, x, w)) + One(HasEnd(t[f], x, w))
           = Cardinality(EndIn(t, x, w)) + One(HasEnd(u[f], x, w))
    BY <1>2, FileCount DEF Alike
  <2>2. One(HasEnd(t[f], x, w)) = 0 /\ One(HasEnd(u[f], x, w)) = One(HasEnd(e, x, w))
    BY <1>2, <1>5 DEF One
  <2> QED
    BY <2>1, <2>2
<1> QED
  BY <1>3, <1>4, <1>6, <1>7 DEF Grown

\* A file that filealloc() gave and the call does not use.
Untyped(e) == FileEntry(e) /\ e.ref = 1 /\ e.type = "none"

\* filealloc() takes a free entry, whose type is FD_NONE.
LEMMA UnusedEntry ==
  ASSUME NEW e, FileEntry(e), e.ref = 0
  PROVE  Untyped([e EXCEPT !.ref = 1])
BY DEF FileEntry, Untyped

\* A file that is not used yet has no inode and no end of a pipe.
LEMMA UnusedHas ==
  ASSUME NEW e, Untyped(e)
  PROVE  (\A i : One(HasInode(e, i)) = 0) /\ (\A x, w : One(HasEnd(e, x, w)) = 0)
BY DEF Untyped, HasInode, HasEnd, One

\* filealloc() alone changes no count of inodes or of ends of pipes.
LEMMA GrownUnused ==
  ASSUME NEW t, NEW u, NEW f, NEW e, Grown(t, u, f, e), Untyped(e)
  PROVE  /\ \A i : Cardinality(InodeIn(u, i)) = Cardinality(InodeIn(t, i))
         /\ \A x, w : Cardinality(EndIn(u, x, w)) = Cardinality(EndIn(t, x, w))
<1>1. (\A i : One(HasInode(e, i)) = 0) /\ (\A x, w : One(HasEnd(e, x, w)) = 0)
  BY UnusedHas
<1>2. \A i : /\ Cardinality(InodeIn(t, i)) \in Nat
             /\ Cardinality(InodeIn(u, i)) = Cardinality(InodeIn(t, i)) + 0
  BY <1>1 DEF Grown
<1>3. \A x, w : /\ Cardinality(EndIn(t, x, w)) \in Nat
                /\ Cardinality(EndIn(u, x, w)) = Cardinality(EndIn(t, x, w)) + 0
  BY <1>1 DEF Grown
<1> QED
  BY <1>2, <1>3

\* filealloc() returns an entry that is free.
LEMMA FreeFile ==
  ASSUME NFILE \in Nat, NEW A, A \subseteq FreeFiles, A # {}
  PROVE  Min(A) \in A /\ Min(A) \in Files /\ ftable[Min(A)].ref = 0
<1>1. A \subseteq Nat
  BY DEF FreeFiles, Files
<1>2. Min(A) \in A
  BY <1>1, MinIn
<1> QED
  BY <1>2 DEF FreeFiles

\* fdalloc() returns a descriptor that is free.
LEMMA FreeDescriptor ==
  ASSUME NOFILE \in Nat \ {0}, NEW p, NEW A, A \subseteq FreeFds(p), A # {}
  PROVE  Min(A) \in A /\ Min(A) \in Fds /\ ofile[p][Min(A)] = 0
<1>1. A \subseteq Nat
  BY DEF FreeFds, Fds
<1>2. Min(A) \in A
  BY <1>1, MinIn
<1> QED
  BY <1>2 DEF FreeFds

\* The references to i increase by one.
LEMMA IrefUp ==
  ASSUME FileInv, NEW i \in Inums, iref' = [iref EXCEPT ![i] = @ + 1]
  PROVE  iref' \in [Inums -> Nat] /\ \A j \in Inums : iref[j] \in Nat /\ iref'[j] = iref[j] + One(i = j)
<1>1. iref \in [Inums -> Nat]
  BY DEF FileInv, FileType
<1> QED
  BY <1>1 DEF One

\* open() of an inode, or what is left to undo it.
LEMMA FileOpened ==
  ASSUME FileInv, NEW p \in Procs, work[p] = <<>>,
         NEW s, NEW i \in Inums, OpenFile(p, s, i)
  PROVE  FileInv'
<1> DEFINE f == Min(FreeFiles)
           d == Min(FreeFds(p))
<1>1. NFILE \in Nat /\ NOFILE \in Nat \ {0} /\ IsFiniteSet(Procs)
  BY FileConstants
<1>2. iref' = [iref EXCEPT ![i] = @ + 1] /\ UNCHANGED pipe
  BY DEF OpenFile
<1>3. /\ iref' \in [Inums -> Nat]
      /\ \A j \in Inums : iref[j] \in Nat /\ iref'[j] = iref[j] + One(i = j)
  BY <1>2, IrefUp
<1>4. IputOf(i) \in Items
  BY ItemsAre
<1>5. Table(ftable) /\ ofile \in Descriptors /\ work \in [Procs -> Works]
  BY DEF FileInv, FileType, Table
<1>6. CASE FreeFiles = {}
  <2> DEFINE k == <<IputOf(i)>>
  <2>1. work' = [work EXCEPT ![p] = k] /\ UNCHANGED <<ftable, ofile>>
    BY <1>6 DEF OpenFile
  <2>2. k \in Works /\ \A it : Occurs(k, it) = One(IputOf(i) = it)
    BY <1>4, OneItem
  <2> HIDE DEF k
  <2>3. /\ work' \in [Procs -> Works] /\ work'[p] = k
        /\ \A q \in Procs : q # p => work'[q] = work[q]
        /\ \A it : Occurs(work[p], it) = 0
    BY <2>1, <2>2, WorkSet
  <2>4. FileType'
    BY <1>2, <1>3, <2>1, <2>3 DEF FileInv, FileType
  <2>5. FileBalance(p)
    <3>1. \A g : Occurs(work'[p], CloseOf(g)) = 0
      BY <2>2, <2>3, ItemsOne
    <3> QED
      BY <2>1, <2>3, <3>1 DEF FileBalance
  <2>6. EndBalance(p)
    <3>1. \A x, w : Occurs(work'[p], PipeOf(x, w)) = 0
      BY <2>2, <2>3, ItemsOne
    <3> QED
      BY <1>2, <2>1, <2>3, <3>1 DEF EndBalance
  <2>7. InodeBalance(p)
    <3>1. SUFFICES ASSUME NEW j \in Inums
          PROVE iref'[j] + Occurs(work[p], IputOf(j)) + Cardinality(InodeIn(ftable, j))
                = iref[j] + Occurs(work'[p], IputOf(j)) + Cardinality(InodeIn(ftable', j))
      BY DEF InodeBalance
    <3>2. Occurs(work[p], IputOf(j)) = 0 /\ Occurs(work'[p], IputOf(j)) = One(i = j)
      BY <2>2, <2>3, ItemsOne
    <3>3. Cardinality(InodeIn(ftable, j)) \in Nat
      BY <1>1, Countable
    <3>4. iref[j] \in Nat /\ iref'[j] = iref[j] + One(i = j) /\ One(i = j) \in Nat
      BY <1>3 DEF One
    <3> QED
      BY <2>1, <3>2, <3>3, <3>4
  <2> QED
    BY <2>3, <2>4, <2>5, <2>6, <2>7, FileBalanced
<1>7. ASSUME FreeFiles # {} PROVE f \in Files /\ ftable[f].ref = 0 /\ FileEntry(ftable[f]) /\ f \in 1..NFILE
  BY <1>1, <1>5, <1>7, FreeFile DEF Table, Files
<1>8. CASE FreeFiles # {} /\ FreeFds(p) = {}
  <2> DEFINE k == <<CloseOf(f), IputOf(i)>>
             e == [ftable[f] EXCEPT !.ref = 1]
  <2>1. /\ work' = [work EXCEPT ![p] = k] /\ UNCHANGED ofile
        /\ ftable' = [ftable EXCEPT ![f].ref = 1]
    BY <1>8 DEF OpenFile
  <2>2. f \in Files /\ ftable[f].ref = 0 /\ FileEntry(ftable[f])
    BY <1>7, <1>8
  <2>3. CloseOf(f) \in Items
    BY <2>2, ItemsAre
  <2> HIDE DEF f
  <2>4. k \in Works /\ \A it : Occurs(k, it) = One(CloseOf(f) = it) + One(IputOf(i) = it)
    BY <1>4, <2>3, TwoItems
  <2> HIDE DEF k
  <2>5. /\ work' \in [Procs -> Works] /\ work'[p] = k
        /\ \A q \in Procs : q # p => work'[q] = work[q]
        /\ \A it : Occurs(work[p], it) = 0
    BY <2>1, <2>4, WorkSet
  <2>6. Untyped(e)
    BY <2>2, UnusedEntry
  <2>7. ftable' = SetEntry(ftable, f, e)
    BY <2>1 DEF SetEntry
  <2> HIDE DEF e
  <2>8. Grown(ftable, ftable', f, e)
    BY <1>1, <1>5, <2>2, <2>6, <2>7, NewEntry DEF Untyped
  <2>9. FileType'
    BY <1>2, <1>3, <2>1, <2>5, <2>8 DEF FileInv, FileType, Grown, Table
  <2>10. FileBalance(p)
    <3>1. SUFFICES ASSUME NEW g \in Files
          PROVE ftable'[g].ref + Occurs(work[p], CloseOf(g)) + Cardinality(DescIn(ofile, g))
                = ftable[g].ref + Occurs(work'[p], CloseOf(g)) + Cardinality(DescIn(ofile', g))
      BY DEF FileBalance
    <3>2. Occurs(work[p], CloseOf(g)) = 0 /\ Occurs(work'[p], CloseOf(g)) = One(f = g) + 0
      BY <2>4, <2>5, ItemsOne
    <3>3. ftable'[g].ref = ftable[g].ref + One(f = g) /\ ftable[g].ref \in Nat /\ One(f = g) \in Nat
      BY <1>5, <2>8 DEF Grown, One, Table, FileEntry
    <3>4. Cardinality(DescIn(ofile, g)) \in Nat
      BY <1>1, Countable
    <3> QED
      BY <2>1, <3>2, <3>3, <3>4
  <2>11. InodeBalance(p)
    <3>1. SUFFICES ASSUME NEW j \in Inums
          PROVE iref'[j] + Occurs(work[p], IputOf(j)) + Cardinality(InodeIn(ftable, j))
                = iref[j] + Occurs(work'[p], IputOf(j)) + Cardinality(InodeIn(ftable', j))
      BY DEF InodeBalance
    <3>2. Occurs(work[p], IputOf(j)) = 0 /\ Occurs(work'[p], IputOf(j)) = 0 + One(i = j)
      BY <2>4, <2>5, ItemsOne
    <3>3. /\ Cardinality(InodeIn(ftable, j)) \in Nat
          /\ Cardinality(InodeIn(ftable', j)) = Cardinality(InodeIn(ftable, j)) + 0
      BY <2>6, <2>8, UnusedHas DEF Grown
    <3>4. iref[j] \in Nat /\ iref'[j] = iref[j] + One(i = j) /\ One(i = j) \in Nat
      BY <1>3 DEF One
    <3> QED
      BY <3>2, <3>3, <3>4
  <2>12. EndBalance(p)
    <3>1. \A x, w : Occurs(work'[p], PipeOf(x, w)) = 0 + 0
      BY <2>4, <2>5, ItemsOne
    <3>2. \A x, w : /\ Cardinality(EndIn(ftable, x, w)) \in Nat
                    /\ Cardinality(EndIn(ftable', x, w)) = Cardinality(EndIn(ftable, x, w)) + 0
      BY <2>6, <2>8, UnusedHas DEF Grown
    <3> QED
      BY <1>2, <2>5, <3>1, <3>2 DEF EndBalance
  <2> QED
    BY <2>5, <2>9, <2>10, <2>11, <2>12, FileBalanced
<1>9. CASE FreeFiles # {} /\ FreeFds(p) # {}
  <2> DEFINE e == [ref |-> 1, type |-> "inode", ip |-> i, off |-> 0, pipe |-> 0, writable |-> TRUE]
  <2>1. /\ UNCHANGED work /\ ofile' = [ofile EXCEPT ![p][d] = f]
        /\ ftable' = [ftable EXCEPT ![f] = e]
    BY <1>9 DEF OpenFile
  <2>2. f \in Files /\ ftable[f].ref = 0 /\ f \in 0..NFILE
    BY <1>1, <1>7, <1>9
  <2>3. d \in Fds /\ ofile[p][d] = 0
    BY <1>1, <1>9, FreeDescriptor
  <2> HIDE DEF f, d
  <2>4. FileEntry(e) /\ e.ref = 1
    BY DEF FileEntry
  <2>5. (\A j : HasInode(e, j) <=> i = j) /\ (\A x, w : ~HasEnd(e, x, w))
    BY DEF HasInode, HasEnd
  <2> HIDE DEF e
  <2>6. ftable' = SetEntry(ftable, f, e) /\ ofile' = SetDesc(ofile, p, d, f)
    BY <2>1 DEF SetEntry, SetDesc
  <2>7. Grown(ftable, ftable', f, e)
    BY <1>1, <1>5, <2>2, <2>4, <2>6, NewEntry
  <2>8. ofile' \in Descriptors /\ DescChange(ofile, ofile', 0, f)
    BY <1>1, <1>5, <2>2, <2>3, <2>6, DescCount
  <2>9. FileType'
    BY <1>2, <1>3, <1>5, <2>1, <2>7, <2>8 DEF FileInv, FileType, Grown, Table
  <2>10. \A it : Occurs(work[p], it) = 0 /\ Occurs(work'[p], it) = 0
    BY <2>1, NoItem
  <2>11. FileBalance(p)
    <3>1. SUFFICES ASSUME NEW g \in Files
          PROVE ftable'[g].ref + Occurs(work[p], CloseOf(g)) + Cardinality(DescIn(ofile, g))
                = ftable[g].ref + Occurs(work'[p], CloseOf(g)) + Cardinality(DescIn(ofile', g))
      BY DEF FileBalance
    <3>2. Occurs(work[p], CloseOf(g)) = 0 /\ Occurs(work'[p], CloseOf(g)) = 0
      BY <2>10
    <3>3. ftable'[g].ref = ftable[g].ref + One(f = g) /\ ftable[g].ref \in Nat /\ One(f = g) \in Nat
      BY <1>5, <2>7 DEF Grown, One, Table, FileEntry
    <3>4. One(0 = g) = 0
      BY DEF One, Files
    <3>5. /\ Cardinality(DescIn(ofile, g)) \in Nat /\ Cardinality(DescIn(ofile', g)) \in Nat
          /\ Cardinality(DescIn(ofile', g)) + One(0 = g) = Cardinality(DescIn(ofile, g)) + One(f = g)
      BY <2>8 DEF DescChange
    <3> QED
      BY <3>2, <3>3, <3>4, <3>5
  <2>12. InodeBalance(p)
    <3>1. SUFFICES ASSUME NEW j \in Inums
          PROVE iref'[j] + Occurs(work[p], IputOf(j)) + Cardinality(InodeIn(ftable, j))
                = iref[j] + Occurs(work'[p], IputOf(j)) + Cardinality(InodeIn(ftable', j))
      BY DEF InodeBalance
    <3>2. Occurs(work[p], IputOf(j)) = 0 /\ Occurs(work'[p], IputOf(j)) = 0
      BY <2>10
    <3>3. /\ Cardinality(InodeIn(ftable, j)) \in Nat
          /\ Cardinality(InodeIn(ftable', j)) = Cardinality(InodeIn(ftable, j)) + One(HasInode(e, j))
      BY <2>7 DEF Grown
    <3>4. One(HasInode(e, j)) = One(i = j)
      BY <2>5 DEF One
    <3>5. iref[j] \in Nat /\ iref'[j] = iref[j] + One(i = j) /\ One(i = j) \in Nat
      BY <1>3 DEF One
    <3> QED
      BY <3>2, <3>3, <3>4, <3>5
  <2>13. EndBalance(p)
    <3>1. \A x, w : One(HasEnd(e, x, w)) = 0
      BY <2>5 DEF One
    <3>2. \A x, w : /\ Cardinality(EndIn(ftable, x, w)) \in Nat
                    /\ Cardinality(EndIn(ftable', x, w)) = Cardinality(EndIn(ftable, x, w)) + 0
      BY <2>7, <3>1 DEF Grown
    <3> QED
      BY <1>2, <2>10, <3>2 DEF EndBalance
  <2> QED
    BY <2>1, <2>9, <2>11, <2>12, <2>13, FileBalanced
<1> QED
  BY <1>6, <1>8, <1>9

\* open(), with and without O_CREATE
LEMMA FileOpenStep ==
  ASSUME FileInv, NEW p \in Procs, Open(p) \/ Create(p)
  PROVE  FileInv'
<1>1. CASE Open(p)
  <2>1. work[p] = <<>> /\ \E i \in Named : OpenFile(p, Iget(fs, i), i)
    BY <1>1 DEF Open, Ready
  <2>2. Named \subseteq Inums
    BY DEF Named
  <2> QED
    BY <2>1, <2>2, FileOpened
<1>2. CASE Create(p)
  <2> DEFINE A == {i \in Inums : ~fs.dinode[i].used}
  <2>1. work[p] = <<>> /\ A # {} /\ \E s : OpenFile(p, s, FreeInum)
    BY <1>2 DEF Create, Ready
  <2>2. A \subseteq Nat /\ A \subseteq Inums
    BY FileConstants
  <2>3. FreeInum \in Inums
    BY <2>1, <2>2, MinIn DEF FreeInum
  <2> QED
    BY <2>1, <2>3, FileOpened
<1> QED
  BY <1>1, <1>2

\* Two files are taken.
LEMMA TwoFiles ==
  ASSUME NFILE \in Nat, FileInv, Cardinality(FreeFiles) > 1
  PROVE  LET f0 == Min(FreeFiles)
             f1 == Min(FreeFiles \ {f0})
         IN /\ f0 \in Files /\ f1 \in Files /\ f0 # f1
            /\ ftable[f0].ref = 0 /\ ftable[f1].ref = 0
            /\ FileEntry(ftable[f0]) /\ FileEntry(ftable[f1])
            /\ f0 \in 0..NFILE /\ f1 \in 0..NFILE
<1> DEFINE A == FreeFiles
           f0 == Min(A)
           B == A \ {f0}
           f1 == Min(B)
<1>1. IsFiniteSet(A)
  <2>1. IsFiniteSet(Files)
    BY FS_Interval DEF Files
  <2>2. A \subseteq Files
    BY DEF FreeFiles
  <2> QED
    BY <2>1, <2>2, FS_Subset
<1>2. Cardinality(A) > 1
  OBVIOUS
<1>3. A # {}
  <2>1. Cardinality(A) # 0
    BY <1>2
  <2> QED
    BY <2>1, FS_EmptySet
<1>4. f0 \in A /\ f0 \in Files /\ ftable[f0].ref = 0
  BY <1>3, FreeFile
<1> HIDE DEF A, f0
<1>5. Cardinality(B) = Cardinality(A) - 1
  BY <1>1, <1>4, FS_RemoveElement
<1>6. Cardinality(A) \in Nat
  BY <1>1, FS_CardinalityType
<1>7. B # {}
  <2>1. Cardinality(B) # 0
    BY <1>2, <1>5, <1>6
  <2> QED
    BY <2>1, FS_EmptySet
<1>8. B \subseteq FreeFiles
  BY DEF A
<1>9. f1 \in B /\ f1 \in Files /\ ftable[f1].ref = 0
  BY <1>7, <1>8, FreeFile
<1>10. f1 # f0
  BY <1>9
<1> HIDE DEF f1, B
<1>11. \A g \in Files : FileEntry(ftable[g]) /\ g \in 0..NFILE
  BY DEF FileInv, FileType, Files
<1>12. /\ f0 \in Files /\ f1 \in Files /\ f0 # f1
       /\ ftable[f0].ref = 0 /\ ftable[f1].ref = 0
       /\ FileEntry(ftable[f0]) /\ FileEntry(ftable[f1])
       /\ f0 \in 0..NFILE /\ f1 \in 0..NFILE
  BY <1>4, <1>9, <1>10, <1>11
<1> QED
  BY <1>12 DEF f0, f1, A, B

\* So are two descriptors.
LEMMA TwoDescriptors ==
  ASSUME NOFILE \in Nat \ {0}, NEW p, Cardinality(FreeFds(p)) > 1
  PROVE  LET d0 == Min(FreeFds(p))
             d1 == Min(FreeFds(p) \ {d0})
         IN d0 \in Fds /\ d1 \in Fds /\ d0 # d1 /\ ofile[p][d0] = 0 /\ ofile[p][d1] = 0
<1> DEFINE A == FreeFds(p)
           d0 == Min(A)
           B == A \ {d0}
           d1 == Min(B)
<1>1. IsFiniteSet(A)
  <2>1. IsFiniteSet(Fds)
    BY FS_Interval DEF Fds
  <2>2. A \subseteq Fds
    BY DEF FreeFds
  <2> QED
    BY <2>1, <2>2, FS_Subset
<1>2. Cardinality(A) > 1
  OBVIOUS
<1>3. A # {}
  <2>1. Cardinality(A) # 0
    BY <1>2
  <2> QED
    BY <2>1, FS_EmptySet
<1>4. d0 \in A /\ d0 \in Fds /\ ofile[p][d0] = 0
  BY <1>3, FreeDescriptor
<1> HIDE DEF A, d0
<1>5. Cardinality(B) = Cardinality(A) - 1
  BY <1>1, <1>4, FS_RemoveElement
<1>6. Cardinality(A) \in Nat
  BY <1>1, FS_CardinalityType
<1>7. B # {}
  <2>1. Cardinality(B) # 0
    BY <1>2, <1>5, <1>6
  <2> QED
    BY <2>1, FS_EmptySet
<1>8. B \subseteq FreeFds(p)
  BY DEF A
<1>9. d1 \in B /\ d1 \in Fds /\ ofile[p][d1] = 0
  BY <1>7, <1>8, FreeDescriptor
<1>10. d1 # d0
  BY <1>9
<1> HIDE DEF d1, B
<1>11. d0 \in Fds /\ d1 \in Fds /\ d0 # d1 /\ ofile[p][d0] = 0 /\ ofile[p][d1] = 0
  BY <1>4, <1>9, <1>10
<1> QED
  BY <1>11 DEF d0, d1, A, B

\* A step that takes two files, f with entry e and g with entry h.
GrownTwo(t, u, f, e, g, h) == \E m : Grown(t, m, f, e) /\ Grown(m, u, g, h)

\* Filling in two free entries, as pipealloc() does.
LEMMA TwoEntries ==
  ASSUME NFILE \in Nat, NEW t, Table(t), NEW f \in Files, NEW g \in Files, f # g,
         t[f].ref = 0, t[g].ref = 0, NEW e, FileEntry(e), e.ref = 1, NEW h, FileEntry(h), h.ref = 1,
         NEW u, u = SetEntry(SetEntry(t, f, e), g, h)
  PROVE  GrownTwo(t, u, f, e, g, h)
<1> DEFINE m == SetEntry(t, f, e)
<1>1. m[g] = t[g]
  BY DEF SetEntry, Table
<1> HIDE DEF m
<1>2. Grown(t, m, f, e)
  BY NewEntry DEF m
<1>3. Table(m) /\ m[g].ref = 0
  BY <1>1, <1>2 DEF Grown
<1>4. u = SetEntry(m, g, h)
  BY DEF m
<1>5. Grown(m, u, g, h)
  BY <1>3, <1>4, NewEntry
<1> QED
  BY <1>2, <1>5 DEF GrownTwo

\* What two new entries add to the counts.
LEMMA TwoGrown ==
  ASSUME NEW t, Table(t), NEW u, NEW f, NEW e, NEW g, NEW h, GrownTwo(t, u, f, e, g, h)
  PROVE  /\ Table(u)
         /\ \A k \in Files : t[k].ref \in Nat /\ u[k].ref = t[k].ref + One(f = k) + One(g = k)
         /\ \A i : /\ Cardinality(InodeIn(t, i)) \in Nat
                   /\ Cardinality(InodeIn(u, i)) =
                        Cardinality(InodeIn(t, i)) + One(HasInode(e, i)) + One(HasInode(h, i))
         /\ \A x, w : /\ Cardinality(EndIn(t, x, w)) \in Nat
                      /\ Cardinality(EndIn(u, x, w)) =
                           Cardinality(EndIn(t, x, w)) + One(HasEnd(e, x, w)) + One(HasEnd(h, x, w))
<1>1. PICK m : Grown(t, m, f, e) /\ Grown(m, u, g, h)
  BY DEF GrownTwo
<1>2. \A k \in Files : t[k].ref \in Nat
  BY DEF Table, FileEntry
<1> QED
  BY <1>1, <1>2 DEF Grown

\* pipealloc() finds one free file, or no memory: it takes files that p has
\* to close.
LEMMA OneUnused ==
  ASSUME FileInv, NEW p \in Procs, work[p] = <<>>,
         NEW f \in Files, ftable[f].ref = 0, NEW e, Untyped(e),
         ftable' = SetEntry(ftable, f, e),
         work' = [work EXCEPT ![p] = <<CloseOf(f)>>],
         UNCHANGED <<iref, pipe, ofile>>
  PROVE  FileInv'
<1> DEFINE k == <<CloseOf(f)>>
<1>1. NFILE \in Nat /\ NOFILE \in Nat \ {0} /\ IsFiniteSet(Procs)
  BY FileConstants
<1>2. Table(ftable) /\ FileEntry(ftable[f])
  BY DEF FileInv, FileType, Table
<1>3. CloseOf(f) \in Items
  BY ItemsAre
<1>4. k \in Works /\ \A it : Occurs(k, it) = One(CloseOf(f) = it)
  BY <1>3, OneItem
<1>5. work' = [work EXCEPT ![p] = k]
  OBVIOUS
<1> HIDE DEF k
<1>6. /\ work' \in [Procs -> Works] /\ work'[p] = k
      /\ \A q \in Procs : q # p => work'[q] = work[q]
      /\ \A it : Occurs(work[p], it) = 0
  BY <1>4, <1>5, WorkSet
<1>8. Grown(ftable, ftable', f, e)
  BY <1>1, <1>2, NewEntry DEF Untyped
<1>9. FileType'
  BY <1>6, <1>8 DEF FileInv, FileType, Grown, Table
<1>10. FileBalance(p)
  <2>1. SUFFICES ASSUME NEW g \in Files
        PROVE ftable'[g].ref + Occurs(work[p], CloseOf(g)) + Cardinality(DescIn(ofile, g))
              = ftable[g].ref + Occurs(work'[p], CloseOf(g)) + Cardinality(DescIn(ofile', g))
    BY DEF FileBalance
  <2>2. Occurs(work[p], CloseOf(g)) = 0 /\ Occurs(work'[p], CloseOf(g)) = One(f = g)
    BY <1>4, <1>6, ItemsOne
  <2>3. ftable'[g].ref = ftable[g].ref + One(f = g) /\ ftable[g].ref \in Nat /\ One(f = g) \in Nat
    BY <1>2, <1>8 DEF Grown, One, Table, FileEntry
  <2>4. Cardinality(DescIn(ofile, g)) \in Nat
    BY <1>1, Countable
  <2> QED
    BY <2>2, <2>3, <2>4
<1>7. /\ \A i : Cardinality(InodeIn(ftable', i)) = Cardinality(InodeIn(ftable, i))
      /\ \A x, w : Cardinality(EndIn(ftable', x, w)) = Cardinality(EndIn(ftable, x, w))
  BY <1>8, GrownUnused
<1>11. InodeBalance(p)
  <2>1. \A i : Occurs(work'[p], IputOf(i)) = 0
    BY <1>4, <1>6, ItemsOne
  <2> QED
    BY <1>6, <1>7, <2>1 DEF InodeBalance
<1>12. EndBalance(p)
  <2>1. \A x, w : Occurs(work'[p], PipeOf(x, w)) = 0
    BY <1>4, <1>6, ItemsOne
  <2> QED
    BY <1>6, <1>7, <2>1 DEF EndBalance
<1> QED
  BY <1>6, <1>9, <1>10, <1>11, <1>12, FileBalanced

\* The pipe that two entries have, if they have one: what pipe() opens.
Opens(e, h) ==
    /\ \A i : One(HasInode(e, i)) + One(HasInode(h, i)) = 0
    /\ pipe' \in [Pipes -> SUBSET {"read", "write"}]
    /\ \A x \in Pipes, w \in BOOLEAN :
          One(End(w) \in pipe'[x]) = One(End(w) \in pipe[x]) + One(HasEnd(e, x, w)) + One(HasEnd(h, x, w))

\* What becomes of the two files f and g that p took.
Settles(p, f, g) ==
    /\ \A q \in Procs : q # p => work'[q] = work[q]
    /\ \A i : Occurs(work'[p], IputOf(i)) = 0
    /\ \A x, w : Occurs(work'[p], PipeOf(x, w)) = 0
    /\ \A k \in Files : Occurs(work'[p], CloseOf(k)) + Cardinality(DescIn(ofile', k))
                           = Cardinality(DescIn(ofile, k)) + One(f = k) + One(g = k)

\* The arithmetic of a step that takes two files.
LEMMA TwoMore ==
  ASSUME NEW a \in Nat, NEW b \in Nat, NEW c \in Nat, NEW d \in Nat, NEW r \in Nat,
         NEW o \in Nat, NEW u \in Nat, o + d = c + a + b, u = r + a + b
  PROVE  u + 0 + c = r + o + d
OBVIOUS

\* pipe() takes two files, and then has to close them or makes descriptors
\* of them.
LEMMA TwoTaken ==
  ASSUME FileInv, NEW p \in Procs, work[p] = <<>>,
         NEW f \in Files, NEW g \in Files, NEW e, NEW h,
         GrownTwo(ftable, ftable', f, e, g, h), Opens(e, h), UNCHANGED iref,
         ofile' \in Descriptors, work' \in [Procs -> Works], Settles(p, f, g)
  PROVE  FileInv'
<1>1. NFILE \in Nat /\ NOFILE \in Nat \ {0} /\ IsFiniteSet(Procs)
  BY FileConstants
<1>2. Table(ftable)
  BY DEF FileInv, FileType, Table
<1>3. /\ Table(ftable')
      /\ \A k \in Files : /\ ftable[k].ref \in Nat
                            /\ ftable'[k].ref = ftable[k].ref + One(f = k) + One(g = k)
      /\ \A i : /\ Cardinality(InodeIn(ftable, i)) \in Nat
                /\ Cardinality(InodeIn(ftable', i)) =
                     Cardinality(InodeIn(ftable, i)) + One(HasInode(e, i)) + One(HasInode(h, i))
      /\ \A x, w : /\ Cardinality(EndIn(ftable, x, w)) \in Nat
                   /\ Cardinality(EndIn(ftable', x, w)) =
                        Cardinality(EndIn(ftable, x, w)) + One(HasEnd(e, x, w)) + One(HasEnd(h, x, w))
  BY <1>2, TwoGrown
<1>4. \A it : Occurs(work[p], it) = 0
  BY NoItem
<1>5. FileType'
  BY <1>3 DEF FileInv, FileType, Table, Opens
<1>6. FileBalance(p)
  <2>1. SUFFICES ASSUME NEW k \in Files
        PROVE ftable'[k].ref + Occurs(work[p], CloseOf(k)) + Cardinality(DescIn(ofile, k))
              = ftable[k].ref + Occurs(work'[p], CloseOf(k)) + Cardinality(DescIn(ofile', k))
    BY DEF FileBalance
  <2>2. Occurs(work[p], CloseOf(k)) = 0 /\ Occurs(work'[p], CloseOf(k)) \in Nat
    BY <1>4 DEF Occurs, One
  <2>3. One(f = k) \in Nat /\ One(g = k) \in Nat
    BY DEF One
  <2>4. Cardinality(DescIn(ofile, k)) \in Nat /\ Cardinality(DescIn(ofile', k)) \in Nat
    BY <1>1, Countable
  <2>5. /\ ftable[k].ref \in Nat /\ ftable'[k].ref = ftable[k].ref + One(f = k) + One(g = k)
    BY <1>3
  <2>6. Occurs(work'[p], CloseOf(k)) + Cardinality(DescIn(ofile', k))
        = Cardinality(DescIn(ofile, k)) + One(f = k) + One(g = k)
    BY DEF Settles
  <2> DEFINE a == One(f = k)
             b == One(g = k)
             c == Cardinality(DescIn(ofile, k))
             d == Cardinality(DescIn(ofile', k))
             r == ftable[k].ref
             u == ftable'[k].ref
             o == Occurs(work'[p], CloseOf(k))
  <2>7. /\ a \in Nat /\ b \in Nat /\ c \in Nat /\ d \in Nat /\ r \in Nat /\ o \in Nat
        /\ o + d = c + a + b /\ u = r + a + b
    BY <2>2, <2>3, <2>4, <2>5, <2>6
  <2> HIDE DEF a, b, c, d, r, u, o
  <2>8. u \in Nat
    BY <2>7
  <2>9. u + 0 + c = r + o + d
    BY <2>7, <2>8, TwoMore
  <2> QED
    BY <2>2, <2>9 DEF a, b, c, d, r, u, o
<1>7. InodeBalance(p)
  <2>1. SUFFICES ASSUME NEW i \in Inums
        PROVE iref'[i] + Occurs(work[p], IputOf(i)) + Cardinality(InodeIn(ftable, i))
              = iref[i] + Occurs(work'[p], IputOf(i)) + Cardinality(InodeIn(ftable', i))
    BY DEF InodeBalance
  <2>2. Occurs(work[p], IputOf(i)) = 0 /\ Occurs(work'[p], IputOf(i)) = 0
    BY <1>4 DEF Settles
  <2>3. /\ One(HasInode(e, i)) + One(HasInode(h, i)) = 0
        /\ One(HasInode(e, i)) \in Nat /\ One(HasInode(h, i)) \in Nat
    BY DEF Opens, One
  <2>4. /\ Cardinality(InodeIn(ftable, i)) \in Nat
        /\ Cardinality(InodeIn(ftable', i)) =
             Cardinality(InodeIn(ftable, i)) + One(HasInode(e, i)) + One(HasInode(h, i))
    BY <1>3
  <2>5. iref'[i] = iref[i] /\ iref[i] \in Nat
    BY DEF FileInv, FileType
  <2> QED
    BY <2>2, <2>3, <2>4, <2>5
<1>8. EndBalance(p)
  <2>1. SUFFICES ASSUME NEW x \in Pipes, NEW w \in BOOLEAN
        PROVE One(End(w) \in pipe'[x]) + Occurs(work[p], PipeOf(x, w)) + Cardinality(EndIn(ftable, x, w))
              = One(End(w) \in pipe[x]) + Occurs(work'[p], PipeOf(x, w)) + Cardinality(EndIn(ftable', x, w))
    BY DEF EndBalance
  <2>2. Occurs(work[p], PipeOf(x, w)) = 0 /\ Occurs(work'[p], PipeOf(x, w)) = 0
    BY <1>4 DEF Settles
  <2>3. /\ One(End(w) \in pipe'[x])
           = One(End(w) \in pipe[x]) + One(HasEnd(e, x, w)) + One(HasEnd(h, x, w))
        /\ One(HasEnd(e, x, w)) \in Nat /\ One(HasEnd(h, x, w)) \in Nat
        /\ One(End(w) \in pipe[x]) \in Nat
    BY DEF Opens, One
  <2>4. /\ Cardinality(EndIn(ftable, x, w)) \in Nat
        /\ Cardinality(EndIn(ftable', x, w)) =
             Cardinality(EndIn(ftable, x, w)) + One(HasEnd(e, x, w)) + One(HasEnd(h, x, w))
    BY <1>3
  <2> QED
    BY <2>2, <2>3, <2>4
<1>9. \A q \in Procs : q # p => work'[q] = work[q]
  BY DEF Settles
<1> QED
  BY <1>5, <1>6, <1>7, <1>8, <1>9, FileBalanced

\* The two files are to be closed.
LEMMA TwoToClose ==
  ASSUME FileInv, NEW p \in Procs, work[p] = <<>>,
         NEW f \in Files, NEW g \in Files, NEW e, NEW h,
         GrownTwo(ftable, ftable', f, e, g, h), Opens(e, h), UNCHANGED <<iref, ofile>>,
         work' = [work EXCEPT ![p] = <<CloseOf(f), CloseOf(g)>>]
  PROVE  FileInv'
<1> DEFINE k == <<CloseOf(f), CloseOf(g)>>
<1>1. k \in Works /\ \A it : Occurs(k, it) = One(CloseOf(f) = it) + One(CloseOf(g) = it)
  BY ItemsAre, TwoItems
<1>2. work' = [work EXCEPT ![p] = k]
  OBVIOUS
<1> HIDE DEF k
<1>3. /\ work' \in [Procs -> Works] /\ work'[p] = k
      /\ \A q \in Procs : q # p => work'[q] = work[q]
      /\ \A it : Occurs(work[p], it) = 0
  BY <1>1, <1>2, WorkSet
<1>4. ofile' \in Descriptors
  BY DEF FileInv, FileType
<1>5. \A i : Occurs(work'[p], IputOf(i)) = 0
  BY <1>1, <1>3, ItemsOne
<1>6. \A x, w : Occurs(work'[p], PipeOf(x, w)) = 0
  BY <1>1, <1>3, ItemsOne
<1>7. ASSUME NEW j \in Files
      PROVE  Occurs(work'[p], CloseOf(j)) + Cardinality(DescIn(ofile', j))
             = Cardinality(DescIn(ofile, j)) + One(f = j) + One(g = j)
  <2>1. Occurs(work'[p], CloseOf(j)) = One(f = j) + One(g = j)
    BY <1>1, <1>3, ItemsOne
  <2>2. Cardinality(DescIn(ofile, j)) \in Nat /\ One(f = j) \in Nat /\ One(g = j) \in Nat
    BY Countable, FileConstants DEF One
  <2> QED
    BY <2>1, <2>2
<1>8. Settles(p, f, g)
  BY <1>3, <1>5, <1>6, <1>7 DEF Settles
<1> QED
  BY <1>3, <1>4, <1>8, TwoTaken

\* The two files get descriptors.
LEMMA TwoToKeep ==
  ASSUME FileInv, NEW p \in Procs, work[p] = <<>>,
         NEW f \in Files, NEW g \in Files, NEW e, NEW h,
         GrownTwo(ftable, ftable', f, e, g, h), Opens(e, h), UNCHANGED <<iref, work>>,
         NEW c \in Fds, NEW d \in Fds, c # d, ofile[p][c] = 0, ofile[p][d] = 0,
         ofile' = [ofile EXCEPT ![p][c] = f, ![p][d] = g]
  PROVE  FileInv'
<1> DEFINE o == SetDesc(ofile, p, c, f)
<1>1. NFILE \in Nat /\ NOFILE \in Nat \ {0} /\ IsFiniteSet(Procs)
  BY FileConstants
<1>2. f \in 0..NFILE /\ g \in 0..NFILE
  BY <1>1 DEF Files
<1>3. ofile \in Descriptors /\ work' \in [Procs -> Works]
  BY DEF FileInv, FileType
<1>4. o[p][d] = 0 /\ ofile' = SetDesc(o, p, d, g)
  BY <1>3 DEF SetDesc, Descriptors
<1>5. o \in Descriptors /\ DescChange(ofile, o, ofile[p][c], f)
  BY <1>1, <1>2, <1>3, DescCount
<1> HIDE DEF o
<1>6. ofile' \in Descriptors /\ DescChange(o, ofile', o[p][d], g)
  BY <1>1, <1>2, <1>4, <1>5, DescCount
<1>7. \A it : Occurs(work'[p], it) = 0
  BY NoItem
<1>8. ASSUME NEW j \in Files
      PROVE  Occurs(work'[p], CloseOf(j)) + Cardinality(DescIn(ofile', j))
             = Cardinality(DescIn(ofile, j)) + One(f = j) + One(g = j)
  <2>1. /\ Cardinality(DescIn(ofile, j)) \in Nat /\ Cardinality(DescIn(o, j)) \in Nat
        /\ Cardinality(DescIn(o, j)) + One(0 = j) = Cardinality(DescIn(ofile, j)) + One(f = j)
    BY <1>5 DEF DescChange
  <2>2. /\ Cardinality(DescIn(ofile', j)) \in Nat
        /\ Cardinality(DescIn(ofile', j)) + One(0 = j) = Cardinality(DescIn(o, j)) + One(g = j)
    BY <1>4, <1>6 DEF DescChange
  <2>3. One(0 = j) = 0 /\ One(f = j) \in Nat /\ One(g = j) \in Nat
    BY DEF One, Files
  <2> QED
    BY <1>7, <2>1, <2>2, <2>3
<1>9. Settles(p, f, g)
  BY <1>7, <1>8 DEF Settles
<1> QED
  BY <1>3, <1>6, <1>9, TwoTaken

\* pipe()
LEMMA PipeStep ==
  ASSUME FileInv, NEW p \in Procs, Pipe(p)
  PROVE  FileInv'
<1> DEFINE f0 == Min(FreeFiles)
           f1 == Min(FreeFiles \ {f0})
           d0 == Min(FreeFds(p))
           d1 == Min(FreeFds(p) \ {d0})
           e0(x) == [ref |-> 1, type |-> "pipe", ip |-> 0, off |-> 0, pipe |-> x, writable |-> FALSE]
           e1(x) == [ref |-> 1, type |-> "pipe", ip |-> 0, off |-> 0, pipe |-> x, writable |-> TRUE]
           Undo == [work EXCEPT ![p] = <<CloseOf(f0), CloseOf(f1)>>]
           Many == Cardinality(FreeFiles) > 1
<1>1. work[p] = <<>> /\ FreeFiles # {} /\ UNCHANGED iref
  BY DEF Pipe, Ready
<1>2. \/ /\ ftable' = [ftable EXCEPT ![f0].ref = 1]
         /\ work' = [work EXCEPT ![p] = <<CloseOf(f0)>>]
         /\ UNCHANGED <<pipe, ofile>>
      \/ /\ Many
         /\ ftable' = [ftable EXCEPT ![f0].ref = 1, ![f1].ref = 1]
         /\ work' = Undo /\ UNCHANGED <<pipe, ofile>>
      \/ /\ Many
         /\ \E x \in Pipes :
              /\ pipe[x] = {} /\ pipe' = [pipe EXCEPT ![x] = {"read", "write"}]
              /\ ftable' = [ftable EXCEPT ![f0] = e0(x), ![f1] = e1(x)]
              /\ \/ /\ Cardinality(FreeFds(p)) > 1
                    /\ ofile' = [ofile EXCEPT ![p][d0] = f0, ![p][d1] = f1]
                    /\ UNCHANGED work
                 \/ work' = Undo /\ UNCHANGED ofile
  BY DEF Pipe
<1>3. NFILE \in Nat /\ NOFILE \in Nat \ {0} /\ IsFiniteSet(Procs)
  BY FileConstants
<1>4. Table(ftable) /\ pipe \in [Pipes -> SUBSET {"read", "write"}]
  BY DEF FileInv, FileType, Table
<1>5. f0 \in Files /\ ftable[f0].ref = 0
  BY <1>1, <1>3, FreeFile
<1>6. Many => /\ f0 \in Files /\ f1 \in Files /\ f0 # f1
              /\ ftable[f0].ref = 0 /\ ftable[f1].ref = 0
              /\ FileEntry(ftable[f0]) /\ FileEntry(ftable[f1])
  BY <1>3, TwoFiles
<1>7. Cardinality(FreeFds(p)) > 1 =>
        d0 \in Fds /\ d1 \in Fds /\ d0 # d1 /\ ofile[p][d0] = 0 /\ ofile[p][d1] = 0
  BY <1>3, TwoDescriptors
<1> HIDE DEF f0, f1, d0, d1, Many
<1>8. CASE /\ ftable' = [ftable EXCEPT ![f0].ref = 1]
           /\ work' = [work EXCEPT ![p] = <<CloseOf(f0)>>]
           /\ UNCHANGED <<pipe, ofile>>
  <2> DEFINE e == [ftable[f0] EXCEPT !.ref = 1]
  <2>1. FileEntry(ftable[f0])
    BY <1>4, <1>5 DEF Table
  <2>2. Untyped(e) /\ ftable' = SetEntry(ftable, f0, e)
    BY <1>5, <1>8, <2>1, UnusedEntry DEF SetEntry
  <2> HIDE DEF e
  <2> QED
    BY <1>1, <1>5, <1>8, <2>2, OneUnused
<1>9. CASE /\ Many
           /\ ftable' = [ftable EXCEPT ![f0].ref = 1, ![f1].ref = 1]
           /\ work' = Undo /\ UNCHANGED <<pipe, ofile>>
  <2> DEFINE e == [ftable[f0] EXCEPT !.ref = 1]
             h == [ftable[f1] EXCEPT !.ref = 1]
  <2>1. Untyped(e) /\ Untyped(h)
    BY <1>6, <1>9, UnusedEntry
  <2>2. ftable' = SetEntry(SetEntry(ftable, f0, e), f1, h)
    BY <1>4, <1>6, <1>9 DEF SetEntry, Table
  <2> HIDE DEF e, h
  <2>3. GrownTwo(ftable, ftable', f0, e, f1, h)
    BY <1>3, <1>4, <1>6, <1>9, <2>1, <2>2, TwoEntries DEF Untyped
  <2>4. Opens(e, h)
    <3>1. (\A i : One(HasInode(e, i)) = 0) /\ (\A x, w : One(HasEnd(e, x, w)) = 0)
      BY <2>1, UnusedHas
    <3>2. (\A i : One(HasInode(h, i)) = 0) /\ (\A x, w : One(HasEnd(h, x, w)) = 0)
      BY <2>1, UnusedHas
    <3>3. \A x, w : One(End(w) \in pipe[x]) \in Nat
      BY DEF One
    <3> QED
      BY <1>4, <1>9, <3>1, <3>2, <3>3 DEF Opens
  <2> QED
    BY <1>1, <1>6, <1>9, <2>3, <2>4, TwoToClose
<1>10. ASSUME Many, NEW x \in Pipes,
              pipe[x] = {}, pipe' = [pipe EXCEPT ![x] = {"read", "write"}],
              ftable' = [ftable EXCEPT ![f0] = e0(x), ![f1] = e1(x)],
              \/ /\ Cardinality(FreeFds(p)) > 1
                 /\ ofile' = [ofile EXCEPT ![p][d0] = f0, ![p][d1] = f1]
                 /\ UNCHANGED work
              \/ work' = Undo /\ UNCHANGED ofile
       PROVE  FileInv'
  <2> DEFINE e == e0(x)
             h == e1(x)
  <2>1. FileEntry(e) /\ e.ref = 1 /\ FileEntry(h) /\ h.ref = 1
    BY <1>10 DEF FileEntry
  <2>2. ftable' = SetEntry(SetEntry(ftable, f0, e), f1, h)
    BY <1>10 DEF SetEntry
  <2>3. /\ \A i : ~HasInode(e, i) /\ ~HasInode(h, i)
        /\ \A y, w : (HasEnd(e, y, w) <=> x = y /\ w = FALSE) /\ (HasEnd(h, y, w) <=> x = y /\ w = TRUE)
    BY DEF HasInode, HasEnd
  <2> HIDE DEF e, h
  <2>4. GrownTwo(ftable, ftable', f0, e, f1, h)
    BY <1>3, <1>4, <1>6, <1>10, <2>1, <2>2, TwoEntries
  <2>5. Opens(e, h)
    <3>1. \A i : One(HasInode(e, i)) + One(HasInode(h, i)) = 0
      BY <2>3 DEF One
    <3>2. /\ pipe' \in [Pipes -> SUBSET {"read", "write"}]
          /\ \A y \in Pipes : pipe'[y] = IF y = x THEN {"read", "write"} ELSE pipe[y]
      BY <1>4, <1>10
    <3>3. ASSUME NEW y \in Pipes, NEW w \in BOOLEAN
          PROVE  One(End(w) \in pipe'[y]) =
                   One(End(w) \in pipe[y]) + One(HasEnd(e, y, w)) + One(HasEnd(h, y, w))
      <4>1. CASE y = x
        <5>1. End(w) \in pipe'[y] /\ End(w) \notin pipe[y]
          BY <1>10, <3>2, <4>1 DEF End
        <5>2. CASE w = TRUE
          <6>1. ~HasEnd(e, y, w) /\ HasEnd(h, y, w)
            BY <2>3, <4>1, <5>2
          <6> QED
            BY <5>1, <6>1 DEF One
        <5>3. CASE w = FALSE
          <6>1. HasEnd(e, y, w) /\ ~HasEnd(h, y, w)
            BY <2>3, <4>1, <5>3
          <6> QED
            BY <5>1, <6>1 DEF One
        <5> QED
          BY <3>3, <5>2, <5>3
      <4>2. CASE y # x
        <5>1. ~HasEnd(e, y, w) /\ ~HasEnd(h, y, w) /\ pipe'[y] = pipe[y]
          BY <2>3, <3>2, <4>2
        <5> QED
          BY <5>1 DEF One
      <4> QED
        BY <4>1, <4>2
    <3> QED
      BY <3>1, <3>2, <3>3 DEF Opens
  <2>6. CASE /\ Cardinality(FreeFds(p)) > 1
             /\ ofile' = [ofile EXCEPT ![p][d0] = f0, ![p][d1] = f1]
             /\ UNCHANGED work
    <3>1. /\ d0 \in Fds /\ d1 \in Fds /\ d0 # d1
          /\ ofile[p][d0] = 0 /\ ofile[p][d1] = 0 /\ UNCHANGED <<iref, work>>
      BY <1>1, <1>7, <1>10, <2>6
    <3>2. /\ f0 \in Files /\ f1 \in Files /\ work[p] = <<>>
          /\ ofile' = [ofile EXCEPT ![p][d0] = f0, ![p][d1] = f1]
      BY <1>1, <1>6, <1>10, <2>6
    <3> HIDE DEF e0, e1, Undo
    <3> QED
      BY <2>4, <2>5, <3>1, <3>2, TwoToKeep
  <2>7. CASE work' = Undo /\ UNCHANGED ofile
    BY <1>1, <1>6, <1>10, <2>4, <2>5, <2>7, TwoToClose
  <2> QED
    BY <1>10, <2>6, <2>7
<1> QED
  BY <1>2, <1>8, <1>9, <1>10

\* At boot no file is open.
LEMMA FileInitInv ==
  ASSUME FileInit
  PROVE  FileInv
<1>1. NFILE \in Nat /\ NOFILE \in Nat \ {0} /\ IsFiniteSet(Procs) /\ 0 \notin Files
  BY FileConstants DEF Files
<1>2. /\ iref = [i \in Inums |-> 0] /\ ftable = [f \in Files |-> None]
      /\ pipe = [x \in Pipes |-> {}] /\ ofile = [p \in Procs |-> [d \in Fds |-> 0]]
      /\ work = [p \in Procs |-> <<>>]
  BY DEF FileInit
<1>3. FileType
  <2>1. Table(ftable)
    BY <1>2, NoneIs DEF Table
  <2>2. ofile \in Descriptors
    BY <1>1, <1>2 DEF Descriptors
  <2>3. work \in [Procs -> Works]
    BY <1>2, NoItem
  <2>4. iref \in [Inums -> Nat] /\ pipe \in [Pipes -> SUBSET {"read", "write"}]
    BY <1>2
  <2> QED
    BY <2>1, <2>2, <2>3, <2>4 DEF FileType, Table
<1>4. \A it : ItemIn(work, it) = {}
  <2>1. DOMAIN <<>> = {}
    OBVIOUS
  <2>2. \A e \in Procs \X (1..2) : work[e[1]] = <<>>
    BY <1>2
  <2> QED
    BY <2>1, <2>2 DEF ItemIn
<1>5. \A f \in Files : DescIn(ofile, f) = {}
  <2>1. \A e \in Procs \X Fds : ofile[e[1]][e[2]] = 0
    BY <1>2
  <2> QED
    BY <1>1, <2>1 DEF DescIn
<1>6. (\A i : InodeIn(ftable, i) = {}) /\ (\A x, w : EndIn(ftable, x, w) = {})
  <2>1. \A f \in Files : ftable[f].type = "none"
    BY <1>2, NoneIs
  <2> QED
    BY <2>1 DEF InodeIn, EndIn, HasInode, HasEnd
<1>7. Cardinality({}) = 0
  BY FS_EmptySet
<1>8. \A f \in Files : ftable[f].ref = 0
  BY <1>2, NoneIs
<1>9. \A x \in Pipes, w \in BOOLEAN : One(End(w) \in pipe[x]) = 0
  BY <1>2 DEF One
<1>10. FileCounted
  <2>1. \A f \in Files : ftable[f].ref =
          Cardinality(ItemIn(work, CloseOf(f))) + Cardinality(DescIn(ofile, f))
    BY <1>4, <1>5, <1>7, <1>8
  <2>2. \A i \in Inums : iref[i] =
          Cardinality(ItemIn(work, IputOf(i))) + Cardinality(InodeIn(ftable, i))
    <3> SUFFICES ASSUME NEW i \in Inums
                 PROVE  iref[i] = Cardinality(ItemIn(work, IputOf(i))) + Cardinality(InodeIn(ftable, i))
      OBVIOUS
    <3>1. ItemIn(work, IputOf(i)) = {} /\ InodeIn(ftable, i) = {} /\ iref[i] = 0
      BY <1>2, <1>4, <1>6
    <3> QED
      BY <1>7, <3>1
  <2>3. \A x \in Pipes, w \in BOOLEAN : One(End(w) \in pipe[x]) =
          Cardinality(ItemIn(work, PipeOf(x, w))) + Cardinality(EndIn(ftable, x, w))
    <3> SUFFICES ASSUME NEW x \in Pipes, NEW w \in BOOLEAN
                 PROVE  One(End(w) \in pipe[x]) =
                          Cardinality(ItemIn(work, PipeOf(x, w))) + Cardinality(EndIn(ftable, x, w))
      OBVIOUS
    <3>1. ItemIn(work, PipeOf(x, w)) = {} /\ EndIn(ftable, x, w) = {}
      BY <1>4, <1>6
    <3> QED
      BY <1>7, <1>9, <3>1
  <2> QED
    BY <2>1, <2>2, <2>3 DEF FileCounted
<1> QED
  BY <1>3, <1>10 DEF FileInv

\* Every step of every process keeps the invariant.
LEMMA FileNextInv ==
  ASSUME FileInv, [FileNext]_fileVars
  PROVE  FileInv'
<1>1. CASE UNCHANGED fileVars
  BY <1>1, FileUnchanged DEF fileVars
<1>2. ASSUME NEW p \in Procs, FileStep(p)
      PROVE  FileInv'
  <2>1. CASE FileClose(p)
    BY <2>1, FileCloseStep
  <2>2. CASE Iput(p)
    BY <2>2, FileIputStep
  <2>3. CASE PipeClose(p)
    BY <2>3, PipeCloseStep
  <2>4. CASE Open(p) \/ Create(p)
    BY <2>4, FileOpenStep
  <2>5. CASE Unlink(p)
    BY <2>5, UnlinkStep
  <2>6. CASE Pipe(p)
    BY <2>6, PipeStep
  <2>7. CASE Exit(p)
    BY <2>7, FileUnchanged DEF Exit
  <2>8. CASE (\E d \in Fds : Close(p, d)) \/ ExitClose(p)
    BY <2>8, FileCloseCall
  <2>9. ASSUME NEW c \in Procs, Fork(p, c) PROVE FileInv'
    BY <2>9, ForkStep
  <2>10. ASSUME NEW d \in Fds, Dup(p, d) PROVE FileInv'
    BY <2>10, DupStep
  <2>11. CASE \/ \E d \in Fds, n \in Sizes : Read(p, d, n) \/ Write(p, d, n)
              \/ WriteMore(p)
    BY <2>11, ReadWriteStep
  <2> QED
    BY <1>2, <2>1, <2>2, <2>3, <2>4, <2>5, <2>6, <2>7, <2>8, <2>9, <2>10, <2>11 DEF FileStep
<1> QED
  BY <1>1, <1>2 DEF FileNext

\* The items that concern a resource are the ones that the counts have.
LEMMA PendingIs ==
  ASSUME FileInv
  PROVE  /\ \A f : Pending("fileclose", f) = ItemIn(work, CloseOf(f))
         /\ \A i : Pending("iput", i) = ItemIn(work, IputOf(i))
         /\ \A x : Pending("pipeclose", x) =
                     ItemIn(work, PipeOf(x, TRUE)) \cup ItemIn(work, PipeOf(x, FALSE))
<1>1. ASSUME NEW e \in Procs \X (1..2), e[2] \in DOMAIN work[e[1]]
      PROVE  work[e[1]][e[2]] \in Items
  <2>1. work[e[1]] \in Works
    BY <1>1 DEF FileInv, FileType
  <2>2. work[e[1]] \in Seq(Items)
    BY <2>1 DEF Works
  <2> QED
    BY <1>1, <2>2
<1>2. ASSUME NEW it \in Items
      PROVE  /\ \A f : it.op = "fileclose" /\ it.x = f <=> it = CloseOf(f)
             /\ \A i : it.op = "iput" /\ it.x = i <=> it = IputOf(i)
             /\ \A x : it.op = "pipeclose" /\ it.x = x <=>
                         it = PipeOf(x, TRUE) \/ it = PipeOf(x, FALSE)
  <2>1. ASSUME NEW f PROVE it.op = "fileclose" /\ it.x = f <=> it = CloseOf(f)
    <3>1. CloseOf(f).op = "fileclose" /\ CloseOf(f).x = f
      BY DEF CloseOf
    <3>2. it.op = "fileclose" => it = CloseOf(it.x)
      BY <1>2, ItemIs
    <3> QED
      BY <3>1, <3>2
  <2>2. ASSUME NEW i PROVE it.op = "iput" /\ it.x = i <=> it = IputOf(i)
    <3>1. IputOf(i).op = "iput" /\ IputOf(i).x = i
      BY DEF IputOf
    <3>2. it.op = "iput" => it = IputOf(it.x)
      BY <1>2, ItemIs
    <3> QED
      BY <3>1, <3>2
  <2>3. ASSUME NEW x PROVE it.op = "pipeclose" /\ it.x = x <=>
                             it = PipeOf(x, TRUE) \/ it = PipeOf(x, FALSE)
    <3>1. \A w : PipeOf(x, w).op = "pipeclose" /\ PipeOf(x, w).x = x
      BY DEF PipeOf
    <3>2. it.op = "pipeclose" => it.w \in BOOLEAN /\ it = PipeOf(it.x, it.w)
      BY <1>2, ItemIs
    <3>3. it.op = "pipeclose" => it = PipeOf(it.x, TRUE) \/ it = PipeOf(it.x, FALSE)
      <4>1. it.w \in BOOLEAN => it.w = TRUE \/ it.w = FALSE
        OBVIOUS
      <4> QED
        BY <3>2, <4>1
    <3> QED
      BY <3>1, <3>3
  <2> QED
    BY <2>1, <2>2, <2>3
<1>3. ASSUME NEW f PROVE Pending("fileclose", f) = ItemIn(work, CloseOf(f))
  <2>1. SUFFICES ASSUME NEW e \in Procs \X (1..2), e[2] \in DOMAIN work[e[1]]
        PROVE  work[e[1]][e[2]].op = "fileclose" /\ work[e[1]][e[2]].x = f
               <=> work[e[1]][e[2]] = CloseOf(f)
    BY DEF Pending, ItemIn
  <2> DEFINE it == work[e[1]][e[2]]
  <2>2. it \in Items
    BY <1>1, <2>1
  <2> HIDE DEF it
  <2>3. it.op = "fileclose" /\ it.x = f <=> it = CloseOf(f)
    BY <1>2, <2>2
  <2> QED
    BY <2>3 DEF it
<1>4. ASSUME NEW i PROVE Pending("iput", i) = ItemIn(work, IputOf(i))
  <2>1. SUFFICES ASSUME NEW e \in Procs \X (1..2), e[2] \in DOMAIN work[e[1]]
        PROVE  work[e[1]][e[2]].op = "iput" /\ work[e[1]][e[2]].x = i
               <=> work[e[1]][e[2]] = IputOf(i)
    BY DEF Pending, ItemIn
  <2> DEFINE it == work[e[1]][e[2]]
  <2>2. it \in Items
    BY <1>1, <2>1
  <2> HIDE DEF it
  <2>3. it.op = "iput" /\ it.x = i <=> it = IputOf(i)
    BY <1>2, <2>2
  <2> QED
    BY <2>3 DEF it
<1>5. ASSUME NEW x
      PROVE  Pending("pipeclose", x) =
               ItemIn(work, PipeOf(x, TRUE)) \cup ItemIn(work, PipeOf(x, FALSE))
  <2>1. SUFFICES ASSUME NEW e \in Procs \X (1..2), e[2] \in DOMAIN work[e[1]]
        PROVE  work[e[1]][e[2]].op = "pipeclose" /\ work[e[1]][e[2]].x = x
               <=> \/ work[e[1]][e[2]] = PipeOf(x, TRUE)
                   \/ work[e[1]][e[2]] = PipeOf(x, FALSE)
    BY DEF Pending, ItemIn
  <2> DEFINE it == work[e[1]][e[2]]
  <2>2. it \in Items
    BY <1>1, <2>1
  <2> HIDE DEF it
  <2>3. it.op = "pipeclose" /\ it.x = x <=> it = PipeOf(x, TRUE) \/ it = PipeOf(x, FALSE)
    BY <1>2, <2>2
  <2> QED
    BY <2>3 DEF it
<1> QED
  BY <1>3, <1>4, <1>5

\* Two disjoint sets.
LEMMA CardDisjoint ==
  ASSUME NEW A, NEW B, IsFiniteSet(A), IsFiniteSet(B), A \cap B = {}
  PROVE  /\ Cardinality(A) \in Nat /\ Cardinality(B) \in Nat
         /\ Cardinality(A \cup B) = Cardinality(A) + Cardinality(B)
<1>1. Cardinality(A) \in Nat /\ Cardinality(B) \in Nat
  BY FS_CardinalityType
<1>2. Cardinality(A \cup B) = Cardinality(A) + Cardinality(B) - Cardinality(A \cap B)
  BY FS_Union
<1>3. Cardinality(A \cap B) = 0
  BY FS_EmptySet
<1> QED
  BY <1>1, <1>2, <1>3

\* The invariant gives the exact counts.
LEMMA FileInvExact ==
  ASSUME FileInv
  PROVE  RefsExact
<1>1. NFILE \in Nat /\ NOFILE \in Nat \ {0} /\ IsFiniteSet(Procs)
  BY FileConstants
<1>2. \A f \in Files : ftable[f].ref = Cardinality(Pending("fileclose", f)) +
          Cardinality({e \in Procs \X Fds : ofile[e[1]][e[2]] = f})
  <2>1. \A f : {e \in Procs \X Fds : ofile[e[1]][e[2]] = f} = DescIn(ofile, f)
    BY DEF DescIn
  <2>2. \A f : Pending("fileclose", f) = ItemIn(work, CloseOf(f))
    BY PendingIs
  <2>3. \A f \in Files : ftable[f].ref =
          Cardinality(ItemIn(work, CloseOf(f))) + Cardinality(DescIn(ofile, f))
    BY DEF FileInv, FileCounted
  <2> QED
    BY <2>1, <2>2, <2>3
<1>3. \A i \in Inums : iref[i] = Cardinality(Pending("iput", i)) +
          Cardinality({f \in Files : ftable[f].type = "inode" /\ ftable[f].ip = i})
  <2>1. \A i : {f \in Files : ftable[f].type = "inode" /\ ftable[f].ip = i} = InodeIn(ftable, i)
    BY DEF InodeIn, HasInode
  <2>2. \A i : Pending("iput", i) = ItemIn(work, IputOf(i))
    BY PendingIs
  <2>3. \A i \in Inums : iref[i] =
          Cardinality(ItemIn(work, IputOf(i))) + Cardinality(InodeIn(ftable, i))
    BY DEF FileInv, FileCounted
  <2> QED
    BY <2>1, <2>2, <2>3
<1>4. ASSUME NEW x \in Pipes
      PROVE  Cardinality(pipe[x]) = Cardinality(Pending("pipeclose", x)) +
               Cardinality({f \in Files : ftable[f].type = "pipe" /\ ftable[f].pipe = x})
  <2> DEFINE IW == ItemIn(work, PipeOf(x, TRUE))
             IR == ItemIn(work, PipeOf(x, FALSE))
             ET == EndIn(ftable, x, TRUE)
             EF == EndIn(ftable, x, FALSE)
             PF == {f \in Files : ftable[f].type = "pipe" /\ ftable[f].pipe = x}
  <2>1. IsFiniteSet(IW) /\ IsFiniteSet(IR)
    <3>1. IsFiniteSet({1} \cup {2})
      BY FS_Singleton, FS_AddElement
    <3>2. 1..2 = {1} \cup {2}
      OBVIOUS
    <3>3. IsFiniteSet(Procs \X (1..2))
      BY <1>1, <3>1, <3>2, FS_Product
    <3>4. IW \subseteq Procs \X (1..2) /\ IR \subseteq Procs \X (1..2)
      BY DEF ItemIn
    <3> QED
      BY <3>3, <3>4, FS_Subset
  <2>2. IW \cap IR = {}
    <3>1. PipeOf(x, TRUE) # PipeOf(x, FALSE)
      BY DEF PipeOf
    <3> QED
      BY <3>1 DEF ItemIn
  <2>3. IsFiniteSet(ET) /\ IsFiniteSet(EF)
    <3>1. IsFiniteSet(Files)
      BY <1>1, FS_Interval DEF Files
    <3>2. ET \subseteq Files /\ EF \subseteq Files
      BY DEF EndIn
    <3> QED
      BY <3>1, <3>2, FS_Subset
  <2>4. ET \cap EF = {}
    BY DEF EndIn, HasEnd
  <2>5. PF = ET \cup EF
    <3>1. \A f \in Files : ftable[f].type = "pipe" => ftable[f].writable \in BOOLEAN
      BY DEF FileInv, FileType, FileEntry
    <3> QED
      BY <3>1 DEF EndIn, HasEnd
  <2>6. Pending("pipeclose", x) = IW \cup IR
    BY PendingIs
  <2>7. /\ One("write" \in pipe[x]) = Cardinality(IW) + Cardinality(ET)
        /\ One("read" \in pipe[x]) = Cardinality(IR) + Cardinality(EF)
    <3>1. \A w \in BOOLEAN : One(End(w) \in pipe[x]) =
             Cardinality(ItemIn(work, PipeOf(x, w))) + Cardinality(EndIn(ftable, x, w))
      BY <1>4 DEF FileInv, FileCounted
    <3>2. End(TRUE) = "write" /\ End(FALSE) = "read"
      BY DEF End
    <3> QED
      BY <3>1, <3>2
  <2>8. Cardinality(pipe[x]) = One("write" \in pipe[x]) + One("read" \in pipe[x])
    <3>1. pipe[x] \subseteq {"read", "write"}
      BY <1>4 DEF FileInv, FileType
    <3>2. /\ Cardinality({}) = 0 /\ Cardinality({"read"}) = 1 /\ Cardinality({"write"}) = 1
          /\ Cardinality({"read"} \cup {"write"}) = 2
      <4>1. /\ IsFiniteSet({"read"}) /\ Cardinality({"read"}) = 1 /\ Cardinality({"write"}) = 1
        BY FS_Singleton
      <4>2. Cardinality({"read"} \cup {"write"}) = Cardinality({"read"}) + 1
        BY <4>1, FS_AddElement
      <4> QED
        BY <4>1, <4>2, FS_EmptySet
    <3>3. CASE "read" \in pipe[x] /\ "write" \in pipe[x]
      <4>1. pipe[x] = {"read"} \cup {"write"}
        BY <3>1, <3>3
      <4> QED
        BY <3>2, <3>3, <4>1 DEF One
    <3>4. CASE "read" \in pipe[x] /\ "write" \notin pipe[x]
      <4>1. pipe[x] = {"read"}
        BY <3>1, <3>4
      <4> QED
        BY <3>2, <3>4, <4>1 DEF One
    <3>5. CASE "read" \notin pipe[x] /\ "write" \in pipe[x]
      <4>1. pipe[x] = {"write"}
        BY <3>1, <3>5
      <4> QED
        BY <3>2, <3>5, <4>1 DEF One
    <3>6. CASE "read" \notin pipe[x] /\ "write" \notin pipe[x]
      <4>1. pipe[x] = {}
        BY <3>1, <3>6
      <4> QED
        BY <3>2, <3>6, <4>1 DEF One
    <3> QED
      BY <3>3, <3>4, <3>5, <3>6
  <2> HIDE DEF IW, IR, ET, EF, PF
  <2>9. /\ Cardinality(IW) \in Nat /\ Cardinality(IR) \in Nat
        /\ Cardinality(IW \cup IR) = Cardinality(IW) + Cardinality(IR)
    BY <2>1, <2>2, CardDisjoint
  <2>10. /\ Cardinality(ET) \in Nat /\ Cardinality(EF) \in Nat
         /\ Cardinality(ET \cup EF) = Cardinality(ET) + Cardinality(EF)
    BY <2>3, <2>4, CardDisjoint
  <2>11. Cardinality(pipe[x]) = Cardinality(IW \cup IR) + Cardinality(ET \cup EF)
    BY <2>7, <2>8, <2>9, <2>10
  <2>12. Cardinality(pipe[x]) = Cardinality(Pending("pipeclose", x)) + Cardinality(PF)
    <3>1. /\ Cardinality(pipe[x]) = Cardinality(pipe[x])
          /\ Cardinality(IW \cup IR) = Cardinality(IW \cup IR)
          /\ Cardinality(ET \cup EF) = Cardinality(ET \cup EF)
      OBVIOUS
    <3> QED
      BY <2>5, <2>6, <2>11, <3>1
  <2> QED
    BY <2>12 DEF PF
<1> QED
  BY <1>2, <1>3, <1>4 DEF RefsExact

\* The counts of references in the file table, the inodes and the pipes are
\* exact in every state, for any programs that the processes run.
THEOREM FileInvariant ==
  FileSpec => []FileInv
<1>1. FileInit => FileInv
  BY FileInitInv
<1>2. FileInv /\ [FileNext]_fileVars => FileInv'
  BY FileNextInv
<1> QED
  BY <1>1, <1>2, PTL DEF FileSpec

\* In every reachable state the reference count of a file is the number of
\* descriptors that are it, and of calls that still have to close it; the
\* references to an inode are the files that have it and the calls of iput()
\* on it to come; a pipe's ends are open as long as a file has them.
THEOREM FileRefsExact ==
  FileSpec => []RefsExact
<1>1. FileInv => RefsExact
  BY FileInvExact
<1> QED
  BY <1>1, FileInvariant, PTL


-----------------------------------------------------------------------------
(* The blocks of the inodes: which places have a number, and what bmap(),  *)
(* writei() and itrunc() do to them                                        *)

\* The places for numbers of blocks of an inode: the direct ones, the one of
\* the indirect block and those in it.
Places == 0..MAXFILE

\* The number in place k, with data D and addresses a.
Num(D, a, k) ==
    IF k <= NDIRECT THEN a[k]
    ELSE IF a[NDIRECT] = 0 THEN 0 ELSE D[a[NDIRECT]][k - NDIRECT - 1]

\* The place of block bn.
PlaceOf(bn) == IF bn < NDIRECT THEN bn ELSE bn + 1

\* The first C[i] places of each inode i have numbers of blocks that are all
\* different, those in U, and the others none.
Layout(U, D, A, C) ==
    /\ \A i \in Inums, k \in Places :
          IF k < C[i] THEN Num(D, A[i], k) \in U ELSE Num(D, A[i], k) = 0
    /\ \A i, j \in Inums, k, l \in Places :
          k < C[i] /\ l < C[j] /\ Num(D, A[i], k) = Num(D, A[j], l) => i = j /\ k = l
    /\ \A b \in U : \E i \in Inums, k \in Places : k < C[i] /\ Num(D, A[i], k) = b

Datum == Nat \cup {Max(DataBlocks)}
Inodes == [nlink : Nat, used : BOOLEAN, size : 0..MAXFILE * BSIZE,
           addrs : [0..NDIRECT -> DataBlocks \cup {0}]]
FsType == [used : SUBSET DataBlocks, data : [DataBlocks -> [Words -> Datum]],
           dinode : [Inums -> Inodes], inode : [Inums -> Inodes]]

Addrs(I) == [i \in Inums |-> I[i].addrs]
PlaceCounts(I) == [i \in Inums |-> PlacesOf(BlocksFor(I[i].size))]

\* What the assumption on the sizes gives.
LEMMA InodeConstants ==
  /\ NDIRECT \in Nat /\ NINDIRECT \in Nat \ {0} /\ BSIZE \in Nat \ {0} /\ NINDIRECT <= BSIZE
  /\ MAXFILE \in Nat /\ MAXFILE = NDIRECT + NINDIRECT /\ Words = 0..(BSIZE - 1)
  /\ Inums \subseteq Nat \ {0} /\ DataBlocks \subseteq Nat \ {0}
  /\ IsFiniteSet(Inums) /\ IsFiniteSet(DataBlocks)
BY InodeAssumption DEF MAXFILE, Words

\* The types of what Layout relates.
LayoutType(U, D, A, C) ==
    /\ U \subseteq DataBlocks /\ D \in [DataBlocks -> [Words -> Datum]]
    /\ A \in [Inums -> [0..NDIRECT -> DataBlocks \cup {0}]]
    /\ C \in [Inums -> 0..(MAXFILE + 1)]

\* The numbers of blocks are the same but for place k of inode i.
SameBut(D, A, D2, A2, i, k) == \A j \in Inums, l \in Places :
    ~(j = i /\ l = k) => Num(D2, A2[j], l) = Num(D, A[j], l)

\* Place k of the addresses of inode i has b now, and the block is cleared.
NewAddr(D, A, D2, A2, i, k, b) ==
    /\ \A w \in Words : D2[b][w] = 0
    /\ \A c \in DataBlocks : c # b => D2[c] = D[c]
    /\ \A j \in Inums, l \in 0..NDIRECT :
          A2[j][l] = IF j = i /\ l = k THEN b ELSE A[j][l]

\* A block is put into the first empty place of inode i, and the other places
\* stay as they are.
LEMMA PlaceAdded ==
  ASSUME NEW U, NEW D, NEW A, NEW C, LayoutType(U, D, A, C), Layout(U, D, A, C),
         NEW i \in Inums, C[i] \in Places, NEW b, b \notin U,
         NEW D2, NEW A2, Num(D2, A2[i], C[i]) = b, SameBut(D, A, D2, A2, i, C[i])
  PROVE  Layout(U \cup {b}, D2, A2, [C EXCEPT ![i] = @ + 1])
<1> DEFINE C2 == [C EXCEPT ![i] = @ + 1]
           N(j, l) == Num(D, A[j], l)
           N2(j, l) == Num(D2, A2[j], l)
<1>1. /\ \A j \in Inums : C2[j] = IF j = i THEN C[i] + 1 ELSE C[j]
      /\ \A j \in Inums : C[j] \in Nat /\ C2[j] \in Nat
      /\ C[i] \in Nat /\ Places \subseteq Nat
  BY InodeConstants DEF LayoutType, Places
<1>2. /\ \A j \in Inums, l \in Places : IF l < C[j] THEN N(j, l) \in U ELSE N(j, l) = 0
      /\ \A j, m \in Inums, k, l \in Places :
            k < C[j] /\ l < C[m] /\ N(j, k) = N(m, l) => j = m /\ k = l
      /\ \A c \in U : \E j \in Inums, k \in Places : k < C[j] /\ N(j, k) = c
  BY DEF Layout
<1>3. /\ \A j \in Inums, l \in Places : ~(j = i /\ l = C[i]) => N2(j, l) = N(j, l)
      /\ N2(i, C[i]) = b
  BY DEF SameBut
<1> HIDE DEF C2, N, N2
<1>4. \A j \in Inums, l \in Places :
         l < C2[j] <=> l < C[j] \/ (j = i /\ l = C[i])
  BY <1>1
<1>5. ASSUME NEW j \in Inums, NEW l \in Places
      PROVE  IF l < C2[j] THEN N2(j, l) \in U \cup {b} ELSE N2(j, l) = 0
  BY <1>2, <1>3, <1>4
<1>6. ASSUME NEW j \in Inums, NEW m \in Inums, NEW k \in Places, NEW l \in Places,
             k < C2[j], l < C2[m], N2(j, k) = N2(m, l)
      PROVE  j = m /\ k = l
  BY <1>2, <1>3, <1>4, <1>6
<1>7. ASSUME NEW c \in U \cup {b}
      PROVE  \E j \in Inums, k \in Places : k < C2[j] /\ N2(j, k) = c
  <2>1. CASE c = b
    BY <1>3, <1>4, <2>1
  <2>2. CASE c # b
    <3>1. PICK j \in Inums, k \in Places : k < C[j] /\ N(j, k) = c
      BY <1>2, <2>2
    <3>2. ~(j = i /\ k = C[i])
      BY <1>1, <3>1
    <3> QED
      BY <1>3, <1>4, <3>1, <3>2
  <2> QED
    BY <2>1, <2>2
<1> QED
  BY <1>5, <1>6, <1>7 DEF Layout, C2, N2

\* balloc() for an address in the inode.
LEMMA GrowDirect ==
  ASSUME NEW U, NEW D, NEW A, NEW C, LayoutType(U, D, A, C), Layout(U, D, A, C),
         NEW i \in Inums, C[i] <= NDIRECT, NEW b \in DataBlocks, b \notin U,
         NEW D2, NEW A2, NewAddr(D, A, D2, A2, i, C[i], b)
  PROVE  /\ Layout(U \cup {b}, D2, A2, [C EXCEPT ![i] = @ + 1])
         /\ Num(D2, A2[i], C[i]) = b
         /\ SameBut(D, A, D2, A2, i, C[i])
<1>1. C[i] \in 0..NDIRECT /\ C[i] \in Places /\ Places \subseteq Nat
  BY InodeConstants DEF LayoutType, Places
<1>5. \A j \in Inums : A[j][NDIRECT] = 0 \/ A[j][NDIRECT] \in U
  <2>1. NDIRECT \in Places /\ \A j \in Inums : Num(D, A[j], NDIRECT) = A[j][NDIRECT]
    BY InodeConstants DEF Places, Num
  <2> QED
    BY <2>1 DEF Layout
<1>6. Num(D2, A2[i], C[i]) = b
  BY <1>1 DEF Num, NewAddr
<1>7. ASSUME NEW j \in Inums, NEW l \in Places, ~(j = i /\ l = C[i])
      PROVE  Num(D2, A2[j], l) = Num(D, A[j], l)
  <2>1. CASE l <= NDIRECT
    <3>1. l \in 0..NDIRECT
      BY <1>1, <2>1, InodeConstants
    <3>2. A2[j][l] = A[j][l]
      BY <1>7, <3>1 DEF NewAddr
    <3> QED
      BY <2>1, <3>2 DEF Num
  <2>2. CASE ~(l <= NDIRECT)
    <3>0. NDIRECT \in 0..NDIRECT
      BY InodeConstants
    <3>1. l - NDIRECT - 1 \in Words
      BY <1>1, <2>2, InodeConstants DEF Places
    <3>2. CASE j = i /\ C[i] = NDIRECT
      <4>1. A2[j][NDIRECT] = b
        BY <3>0, <3>2 DEF NewAddr
      <4>2. b # 0 /\ D2[b][l - NDIRECT - 1] = 0
        BY <3>1, InodeConstants DEF NewAddr
      <4>3. Num(D, A[j], l) = 0
        <5>1. ~(l < C[j])
          BY <1>1, <2>2, <3>2, InodeConstants
        <5> QED
          BY <5>1 DEF Layout
      <4> QED
        BY <2>2, <4>1, <4>2, <4>3 DEF Num
    <3>3. CASE ~(j = i /\ C[i] = NDIRECT)
      <4>1. A2[j][NDIRECT] = A[j][NDIRECT]
        BY <3>0, <3>3 DEF NewAddr
      <4>2. A[j][NDIRECT] # 0 => D2[A[j][NDIRECT]] = D[A[j][NDIRECT]]
        <5>1. U \subseteq DataBlocks
          BY DEF LayoutType
        <5> QED
          BY <1>5, <5>1 DEF NewAddr
      <4> QED
        BY <2>2, <4>1, <4>2 DEF Num
    <3> QED
      BY <3>2, <3>3
  <2> QED
    BY <2>1, <2>2
<1>8. Layout(U \cup {b}, D2, A2, [C EXCEPT ![i] = @ + 1])
  <2>1. SameBut(D, A, D2, A2, i, C[i])
    BY <1>7 DEF SameBut
  <2> QED
    BY ONLY i \in Inums, LayoutType(U, D, A, C), Layout(U, D, A, C), b \notin U,
            <1>1, <1>6, <2>1, PlaceAdded
<1> QED
  BY <1>6, <1>7, <1>8 DEF SameBut

\* The indirect block of an inode is none or one in use, and no other inode's.
LEMMA IndirectIs ==
  ASSUME NEW U, NEW D, NEW A, NEW C, LayoutType(U, D, A, C), Layout(U, D, A, C),
         NEW j \in Inums
  PROVE  /\ A[j][NDIRECT] \in DataBlocks \cup {0}
         /\ A[j][NDIRECT] # 0 <=> NDIRECT < C[j]
         /\ A[j][NDIRECT] # 0 => A[j][NDIRECT] \in U
         /\ \A m \in Inums, l \in Places : l < C[m] /\ A[j][NDIRECT] # 0 /\
               A[j][NDIRECT] = Num(D, A[m], l) => j = m /\ l = NDIRECT
<1>1. NDIRECT \in Places /\ Num(D, A[j], NDIRECT) = A[j][NDIRECT]
  BY InodeConstants DEF Places, Num
<1>2. 0 \notin U /\ NDIRECT \in 0..NDIRECT /\ U \subseteq DataBlocks
  BY InodeConstants DEF LayoutType
<1>3. A[j][NDIRECT] \in DataBlocks \cup {0}
  BY <1>2 DEF LayoutType
<1>4. IF NDIRECT < C[j] THEN A[j][NDIRECT] \in U ELSE A[j][NDIRECT] = 0
  BY <1>1 DEF Layout
<1>5. \A m \in Inums, l \in Places : NDIRECT < C[j] /\ l < C[m] /\
               A[j][NDIRECT] = Num(D, A[m], l) => j = m /\ NDIRECT = l
  BY <1>1 DEF Layout
<1> QED
  BY <1>2, <1>3, <1>4, <1>5

\* balloc() for a number in the indirect block x.
LEMMA GrowIndirect ==
  ASSUME NEW U, NEW D, NEW A, NEW C, LayoutType(U, D, A, C), Layout(U, D, A, C),
         NEW i \in Inums, C[i] > NDIRECT, C[i] \in Places,
         NEW b \in DataBlocks, b \notin U,
         NEW D2,
         \A w \in Words : D2[A[i][NDIRECT]][w] =
            IF w = C[i] - NDIRECT - 1 THEN b ELSE D[A[i][NDIRECT]][w],
         \A c \in DataBlocks : c # b /\ c # A[i][NDIRECT] => D2[c] = D[c]
  PROVE  /\ Layout(U \cup {b}, D2, A, [C EXCEPT ![i] = @ + 1])
         /\ Num(D2, A[i], C[i]) = b
         /\ SameBut(D, A, D2, A, i, C[i])
<1> DEFINE x == A[i][NDIRECT]
           w0 == C[i] - NDIRECT - 1
<1>1. Places \subseteq Nat /\ C[i] \in Nat /\ w0 \in Words
  BY InodeConstants DEF Places
<1>2. x # 0 /\ x \in U /\ x \in DataBlocks /\ x # b
  <2>1. NDIRECT < C[i]
    BY <1>1, InodeConstants
  <2>2. x # 0 /\ x \in U
    BY <2>1, IndirectIs
  <2> HIDE DEF x
  <2> QED
    BY <2>2 DEF LayoutType
<1>3. ASSUME NEW j \in Inums, A[j][NDIRECT] # 0, j # i
      PROVE  A[j][NDIRECT] # x /\ A[j][NDIRECT] # b /\ A[j][NDIRECT] \in DataBlocks
  <2>1. NDIRECT \in Places /\ NDIRECT < C[i] /\ Num(D, A[i], NDIRECT) = x
    BY <1>1, InodeConstants DEF Places, Num
  <2> HIDE DEF x
  <2>2. A[j][NDIRECT] \in DataBlocks \cup {0} /\ A[j][NDIRECT] \in U
    BY <1>3, IndirectIs
  <2>3. A[j][NDIRECT] # Num(D, A[i], NDIRECT)
    BY <1>3, <2>1, IndirectIs
  <2> QED
    BY <1>3, <2>1, <2>2, <2>3
<1>4. \A w \in Words : D2[x][w] = IF w = w0 THEN b ELSE D[x][w]
  OBVIOUS
<1>5. \A c \in DataBlocks : c # b /\ c # x => D2[c] = D[c]
  OBVIOUS
<1> HIDE DEF x
<1>6. Num(D2, A[i], C[i]) = b
  <2>1. ~(C[i] <= NDIRECT)
    BY <1>1, InodeConstants
  <2>2. Num(D2, A[i], C[i]) = D2[x][w0]
    BY <1>2, <2>1 DEF Num, x
  <2> HIDE DEF w0
  <2> QED
    BY <1>1, <1>4, <2>2
<1>7. ASSUME NEW j \in Inums, NEW l \in Places, ~(j = i /\ l = C[i])
      PROVE  Num(D2, A[j], l) = Num(D, A[j], l)
  <2>1. CASE l <= NDIRECT
    BY <2>1 DEF Num
  <2>2. CASE ~(l <= NDIRECT)
    <3>1. l - NDIRECT - 1 \in Words
      BY <1>1, <2>2, InodeConstants DEF Places
    <3>2. CASE j = i
      <4>1. l # C[i] /\ l - NDIRECT - 1 # w0
        BY <1>1, <1>7, <3>2, InodeConstants
      <4>2. D2[x][l - NDIRECT - 1] = D[x][l - NDIRECT - 1]
        BY <1>4, <3>1, <4>1
      <4> QED
        BY <2>2, <3>2, <4>2 DEF Num, x
    <3>3. CASE j # i
      <4>1. A[j][NDIRECT] # 0 => D2[A[j][NDIRECT]] = D[A[j][NDIRECT]]
        BY <1>3, <1>5, <3>3
      <4> QED
        BY <2>2, <4>1 DEF Num
    <3> QED
      BY <3>2, <3>3
  <2> QED
    BY <2>1, <2>2
<1>8. Layout(U \cup {b}, D2, A, [C EXCEPT ![i] = @ + 1])
  <2>1. SameBut(D, A, D2, A, i, C[i])
    BY <1>7 DEF SameBut
  <2> QED
    BY ONLY i \in Inums, LayoutType(U, D, A, C), Layout(U, D, A, C), b \notin U,
            C[i] \in Places, <1>6, <2>1, PlaceAdded
<1> QED
  BY <1>6, <1>7, <1>8 DEF SameBut

\* Data are written into a block that is no indirect one.
LEMMA DataOnly ==
  ASSUME NEW U, NEW D, NEW A, NEW C, LayoutType(U, D, A, C), Layout(U, D, A, C),
         NEW i \in Inums, NEW k \in Places, k < C[i], k # NDIRECT,
         NEW D2, \A b \in DataBlocks : b # Num(D, A[i], k) => D2[b] = D[b]
  PROVE  /\ Layout(U, D2, A, C)
         /\ \A j \in Inums, l \in Places : Num(D2, A[j], l) = Num(D, A[j], l)
<1>1. ASSUME NEW j \in Inums, NEW l \in Places
      PROVE  Num(D2, A[j], l) = Num(D, A[j], l)
  <2>1. A[j][NDIRECT] # 0 => A[j][NDIRECT] # Num(D, A[i], k) /\ A[j][NDIRECT] \in DataBlocks
    BY IndirectIs
  <2>2. A[j][NDIRECT] # 0 => D2[A[j][NDIRECT]] = D[A[j][NDIRECT]]
    BY <2>1
  <2> QED
    BY <2>2 DEF Num
<1>2. Layout(U, D2, A, C)
  BY <1>1 DEF Layout
<1> QED
  BY <1>1, <1>2

\* The places that are taken, of all inodes.
TakenPlaces(C) == {q \in Inums \X Places : q[2] < C[q[1]]}

\* The disk has blocks for m places of inode i, beside those of the others.
HasRoom(C, i, m) == Cardinality(TakenPlaces([C EXCEPT ![i] = m])) <= Cardinality(DataBlocks)

\* What is taken is finite, and less when there are fewer places.
LEMMA TakenFinite ==
  ASSUME NEW C
  PROVE  IsFiniteSet(TakenPlaces(C)) /\ Cardinality(TakenPlaces(C)) \in Nat
<1>1. IsFiniteSet(Places)
  <2>1. 0 \in Int /\ MAXFILE \in Int
    BY InodeConstants
  <2> QED
    BY <2>1, FS_Interval DEF Places
<1>2. IsFiniteSet(Inums \X Places)
  BY <1>1, FS_Product, InodeConstants
<1>3. TakenPlaces(C) \subseteq Inums \X Places
  BY DEF TakenPlaces
<1> QED
  BY <1>2, <1>3, FS_Subset, FS_CardinalityType

\* Only the other inodes matter.
LEMMA RoomSame ==
  ASSUME NEW C, C \in [Inums -> 0..(MAXFILE + 1)], NEW E, E \in [Inums -> 0..(MAXFILE + 1)],
         NEW i \in Inums, \A j \in Inums : j # i => E[j] = C[j], NEW m, HasRoom(C, i, m)
  PROVE  HasRoom(E, i, m)
<1>1. [C EXCEPT ![i] = m] = [E EXCEPT ![i] = m]
  OBVIOUS
<1> QED
  BY <1>1 DEF HasRoom

\* Room for more places is room for fewer.
LEMMA RoomLess ==
  ASSUME NEW C, C \in [Inums -> 0..(MAXFILE + 1)], NEW i \in Inums,
         NEW m \in Nat, NEW l \in Nat, l <= m, HasRoom(C, i, m)
  PROVE  HasRoom(C, i, l)
<1> DEFINE T == TakenPlaces([C EXCEPT ![i] = m])
           R == TakenPlaces([C EXCEPT ![i] = l])
<1>1. R \subseteq T
  <2>1. ASSUME NEW q \in R
        PROVE  q \in T
    <3>1. q \in Inums \X Places /\ q[1] \in Inums /\ q[2] \in Nat
          /\ q[2] < [C EXCEPT ![i] = l][q[1]]
      BY InodeConstants DEF TakenPlaces, Places
    <3>2. q[2] < [C EXCEPT ![i] = m][q[1]]
      <4>1. CASE q[1] = i
        BY <3>1, <4>1
      <4>2. CASE q[1] # i
        BY <3>1, <4>2
      <4> QED
        BY <4>1, <4>2
    <3> QED
      BY <3>1, <3>2 DEF TakenPlaces
  <2> QED
    BY <2>1
<1>2. IsFiniteSet(T) /\ Cardinality(T) \in Nat /\ Cardinality(R) \in Nat
  BY TakenFinite
<1> HIDE DEF T, R
<1>3. Cardinality(R) <= Cardinality(T)
  BY <1>1, <1>2, FS_Subset
<1>4. Cardinality(T) <= Cardinality(DataBlocks) /\ Cardinality(DataBlocks) \in Nat
  BY InodeConstants, FS_CardinalityType DEF HasRoom, T
<1> QED
  BY <1>2, <1>3, <1>4 DEF HasRoom, R

\* With room for one more place there is a free block.
LEMMA FreeBlock ==
  ASSUME NEW U, NEW D, NEW A, NEW C, LayoutType(U, D, A, C), Layout(U, D, A, C),
         NEW i \in Inums, C[i] \in Places, HasRoom(C, i, C[i] + 1)
  PROVE  DataBlocks \ U # {}
<1> DEFINE P == TakenPlaces([C EXCEPT ![i] = C[i] + 1])
           q0 == <<i, C[i]>>
           f == [q \in TakenPlaces(C) |-> Num(D, A[q[1]], q[2])]
<1>1. C \in [Inums -> 0..(MAXFILE + 1)] /\ C[i] \in Nat
  BY InodeConstants DEF LayoutType, Places
<1>2. IsFiniteSet(P) /\ Cardinality(P) \in Nat
  BY TakenFinite
<1>3. q0 \in P /\ TakenPlaces(C) \subseteq P \ {q0}
  <2>1. ASSUME NEW q \in TakenPlaces(C)
        PROVE  q \in P /\ q # q0
    <3>1. /\ q \in Inums \X Places /\ q[1] \in Inums /\ q[2] \in Nat
          /\ q[2] < C[q[1]]
      BY <2>1, InodeConstants DEF TakenPlaces, Places
    <3>2. q # q0
      BY <3>1
    <3>3. q[2] < [C EXCEPT ![i] = C[i] + 1][q[1]]
      <4>1. CASE q[1] = i
        BY <1>1, <3>1, <4>1
      <4>2. CASE q[1] # i
        BY <1>1, <3>1, <4>2
      <4> QED
        BY <4>1, <4>2
    <3> QED
      BY <3>1, <3>2, <3>3 DEF TakenPlaces
  <2>2. q0 \in P
    <3>1. q0 \in Inums \X Places /\ q0[1] = i /\ q0[2] = C[i]
      OBVIOUS
    <3>2. q0[2] < [C EXCEPT ![i] = C[i] + 1][q0[1]]
      BY <1>1, <3>1
    <3> QED
      BY <3>1, <3>2 DEF TakenPlaces
  <2> QED
    BY <2>1, <2>2
<1> HIDE DEF P, q0
<1>4. IsFiniteSet(P \ {q0}) /\ Cardinality(P \ {q0}) = Cardinality(P) - 1
  BY <1>2, <1>3, FS_RemoveElement
<1>5. IsFiniteSet(TakenPlaces(C)) /\ Cardinality(TakenPlaces(C)) <= Cardinality(P) - 1
  BY <1>3, <1>4, FS_Subset
<1>6. f \in Surjection(TakenPlaces(C), U)
  <2>1. \A q \in TakenPlaces(C) : f[q] \in U
    BY DEF Layout, TakenPlaces
  <2>2. ASSUME NEW b \in U
        PROVE  \E q \in TakenPlaces(C) : f[q] = b
    <3>1. PICK j \in Inums, k \in Places : k < C[j] /\ Num(D, A[j], k) = b
      BY DEF Layout
    <3>2. <<j, k>> \in TakenPlaces(C) /\ f[<<j, k>>] = b
      BY <3>1 DEF TakenPlaces
    <3> QED
      BY <3>2
  <2>3. f \in [TakenPlaces(C) -> U]
    BY <2>1
  <2> HIDE DEF f
  <2> QED
    BY <2>2, <2>3 DEF Surjection
<1> HIDE DEF f
<1>7. Cardinality(U) <= Cardinality(TakenPlaces(C)) /\ IsFiniteSet(U)
  BY <1>5, <1>6, FS_Surjection
<1>8. /\ Cardinality(U) \in Nat /\ Cardinality(TakenPlaces(C)) \in Nat /\ Cardinality(P) \in Nat
      /\ Cardinality(DataBlocks) \in Nat
  BY <1>2, <1>5, <1>7, FS_CardinalityType, InodeConstants
<1>9. Cardinality(DataBlocks) >= Cardinality(P)
  BY DEF HasRoom, P
<1>10. Cardinality(U) # Cardinality(DataBlocks)
  BY <1>5, <1>7, <1>8, <1>9
<1> QED
  BY <1>10 DEF LayoutType

\* BlocksOf() are the numbers in the places of the inode, and there are as
\* many of them as places taken.
LEMMA BlocksOfIs ==
  ASSUME NEW s, NEW C, NEW i \in Inums,
         LayoutType(s.used, s.data, Addrs(s.inode), C),
         Layout(s.used, s.data, Addrs(s.inode), C)
  PROVE  /\ BlocksOf(s, i) = {Num(s.data, s.inode[i].addrs, k) : k \in {l \in Places : l < C[i]}}
         /\ Cardinality(BlocksOf(s, i)) = C[i]
<1> DEFINE N(k) == Num(s.data, s.inode[i].addrs, k)
           T == {l \in Places : l < C[i]}
           a == s.inode[i].addrs
           B == {N(k) : k \in T}
<1>1. /\ Addrs(s.inode)[i] = s.inode[i].addrs /\ C[i] \in 0..(MAXFILE + 1)
      /\ 0 \notin s.used /\ Places \subseteq Nat
  BY InodeConstants DEF Addrs, LayoutType, Places
<1>2. /\ \A k \in Places : IF k < C[i] THEN N(k) \in s.used ELSE N(k) = 0
      /\ \A k, l \in Places : k < C[i] /\ l < C[i] /\ N(k) = N(l) => k = l
  BY <1>1 DEF Layout
<1>3. \A k \in 0..NDIRECT : k \in Places /\ N(k) = a[k]
  BY InodeConstants DEF Places, Num
<1>4. ASSUME NEW w \in 0..(NINDIRECT - 1)
      PROVE  /\ NDIRECT + 1 + w \in Places
             /\ N(NDIRECT + 1 + w) = IF a[NDIRECT] = 0 THEN 0 ELSE s.data[a[NDIRECT]][w]
  <2> DEFINE k == NDIRECT + 1 + w
  <2>1. k \in Places /\ ~(k <= NDIRECT) /\ k - NDIRECT - 1 = w
    BY InodeConstants DEF Places
  <2> HIDE DEF k
  <2>2. N(k) = IF a[NDIRECT] = 0 THEN 0 ELSE s.data[a[NDIRECT]][w]
    BY <2>1 DEF Num
  <2> QED
    BY <2>1, <2>2 DEF k
<1>5. ASSUME NEW k \in Places, ~(k <= NDIRECT)
      PROVE  \E w \in 0..(NINDIRECT - 1) : k = NDIRECT + 1 + w
  <2>1. k - NDIRECT - 1 \in 0..(NINDIRECT - 1) /\ k = NDIRECT + 1 + (k - NDIRECT - 1)
    BY <1>5, InodeConstants DEF Places
  <2> QED
    BY <2>1
<1>6. BlocksOf(s, i) = {N(k) : k \in Places} \ {0}
  <2> DEFINE I == Indirect(s, i)
             R == ({a[k] : k \in 0..NDIRECT} \ {0}) \cup I
  <2>1. I = IF a[NDIRECT] = 0 THEN {} ELSE {s.data[a[NDIRECT]][w] : w \in 0..(NINDIRECT - 1)} \ {0}
    BY DEF Indirect
  <2>2. BlocksOf(s, i) = R
    BY DEF BlocksOf
  <2> HIDE DEF N, a, I
  <2>3. ASSUME NEW x \in R PROVE x \in {N(k) : k \in Places} \ {0}
    <3>1. CASE \E k \in 0..NDIRECT : x = a[k]
      <4>1. PICK k \in 0..NDIRECT : x = a[k]
        BY <3>1
      <4>2. k \in Places /\ N(k) = x
        BY <1>3, <4>1
      <4> QED
        BY <2>1, <2>3, <4>2
    <3>2. CASE x \in I
      <4>1. a[NDIRECT] # 0 /\ \E w \in 0..(NINDIRECT - 1) : x = s.data[a[NDIRECT]][w]
        BY <2>1, <3>2
      <4>2. PICK w \in 0..(NINDIRECT - 1) : x = s.data[a[NDIRECT]][w]
        BY <4>1
      <4>3. NDIRECT + 1 + w \in Places /\ N(NDIRECT + 1 + w) = x
        BY <1>4, <4>1, <4>2
      <4> QED
        BY <2>1, <3>2, <4>3
    <3> QED
      BY <2>3, <3>1, <3>2
  <2>4. ASSUME NEW k \in Places, N(k) # 0 PROVE N(k) \in R
    <3>1. CASE k <= NDIRECT
      <4>1. k \in 0..NDIRECT
        BY <1>1, <3>1, InodeConstants
      <4> QED
        BY <1>3, <2>4, <4>1
    <3>2. CASE ~(k <= NDIRECT)
      <4>1. PICK w \in 0..(NINDIRECT - 1) : k = NDIRECT + 1 + w
        BY <1>5, <3>2
      <4>2. N(k) = IF a[NDIRECT] = 0 THEN 0 ELSE s.data[a[NDIRECT]][w]
        BY <1>4, <4>1
      <4> QED
        BY <2>1, <2>4, <4>2
    <3> QED
      BY <3>1, <3>2
  <2> HIDE DEF R
  <2> QED
    BY <2>2, <2>3, <2>4
<1> HIDE DEF N
<1>7. BlocksOf(s, i) = B
  BY <1>1, <1>2, <1>6
<1>8. Cardinality(B) = C[i]
  <2>1. T = 0..(C[i] - 1)
    BY <1>1, InodeConstants DEF Places
  <2> DEFINE f == [k \in T |-> N(k)]
  <2>2. f \in Bijection(T, B)
    <3>1. f \in [T -> B]
      OBVIOUS
    <3>2. \A k, l \in T : f[k] = f[l] => k = l
      BY <1>2
    <3>3. \A b \in B : \E k \in T : f[k] = b
      OBVIOUS
    <3> HIDE DEF f, T, B
    <3> QED
      BY <3>1, <3>2, <3>3 DEF Bijection, Injection, Surjection, IsInjective
  <2>3. IsFiniteSet(T) /\ Cardinality(T) = C[i]
    <3>1. 0 \in Int /\ C[i] - 1 \in Int
      BY <1>1
    <3>2. /\ IsFiniteSet(0..(C[i] - 1))
          /\ Cardinality(0..(C[i] - 1)) = IF 0 > C[i] - 1 THEN 0 ELSE (C[i] - 1) - 0 + 1
      BY <3>1, FS_Interval
    <3>3. C[i] \in Nat
      BY <1>1, InodeConstants
    <3>4. (IF 0 > C[i] - 1 THEN 0 ELSE (C[i] - 1) - 0 + 1) = C[i]
      BY <3>3
    <3> HIDE DEF T
    <3> QED
      BY <2>1, <3>2, <3>4
  <2> HIDE DEF f, T, B
  <2>4. ExistsBijection(T, B)
    BY <2>2 DEF ExistsBijection
  <2> QED
    BY <2>3, <2>4, FS_Bijection
<1> QED
  BY <1>7, <1>8 DEF N

\* The blocks of inode i, and what is kept without them.
TakenBy(D, A, C, i) == {Num(D, A[i], k) : k \in {l \in Places : l < C[i]}}
DataBut(D, D2, B)   == \A b \in DataBlocks \ B : D2[b] = D[b]
OthersKept(D, D2, A, C, i, B) == \A j \in Inums, l \in Places : j # i =>
    /\ Num(D2, A[j], l) = Num(D, A[j], l)
    /\ l < C[j] => Num(D, A[j], l) \notin B

\* bfree() of all blocks of inode i.
LEMMA AllFreed ==
  ASSUME NEW U, NEW D, NEW A, NEW C, LayoutType(U, D, A, C), Layout(U, D, A, C),
         NEW i \in Inums, NEW B, B = TakenBy(D, A, C, i), NEW D2, DataBut(D, D2, B),
         NEW A2, A2 = [A EXCEPT ![i] = NoAddrs], NEW C2, C2 = [C EXCEPT ![i] = 0]
  PROVE  Layout(U \ B, D2, A2, C2) /\ OthersKept(D, D2, A, C, i, B)
<1>1. /\ \A j \in Inums : j # i => A2[j] = A[j] /\ C2[j] = C[j]
      /\ A2[i] = NoAddrs /\ C2[i] = 0 /\ Places \subseteq Nat
  BY InodeConstants DEF LayoutType, Places
<1>2. ASSUME NEW j \in Inums, NEW l \in Places, j # i, l < C[j]
      PROVE  Num(D, A[j], l) \notin B
  BY <1>2 DEF Layout, TakenBy
<1>3. ASSUME NEW j \in Inums, NEW l \in Places, j # i
      PROVE  Num(D2, A[j], l) = Num(D, A[j], l)
  <2>1. A[j][NDIRECT] # 0 => /\ A[j][NDIRECT] \in DataBlocks \cup {0} /\ NDIRECT < C[j]
                             /\ NDIRECT \in Places /\ Num(D, A[j], NDIRECT) = A[j][NDIRECT]
    <3>1. A[j][NDIRECT] # 0 => A[j][NDIRECT] \in DataBlocks \cup {0} /\ NDIRECT < C[j]
      BY IndirectIs
    <3>2. NDIRECT \in Places /\ Num(D, A[j], NDIRECT) = A[j][NDIRECT]
      BY InodeConstants DEF Places, Num
    <3> QED
      BY <3>1, <3>2
  <2>2. A[j][NDIRECT] # 0 => A[j][NDIRECT] \notin B
    BY <1>2, <1>3, <2>1
  <2>3. A[j][NDIRECT] # 0 => D2[A[j][NDIRECT]] = D[A[j][NDIRECT]]
    BY <2>1, <2>2 DEF DataBut
  <2> QED
    BY <2>3 DEF Num
<1>4. ASSUME NEW l \in Places
      PROVE  Num(D2, A2[i], l) = 0
  <2>1. A2[i][NDIRECT] = 0 /\ (l <= NDIRECT => A2[i][l] = 0)
    BY <1>1, InodeConstants DEF NoAddrs
  <2> QED
    BY <2>1 DEF Num
<1>5. ASSUME NEW j \in Inums, NEW l \in Places
      PROVE  IF l < C2[j] THEN Num(D2, A2[j], l) \in U \ B ELSE Num(D2, A2[j], l) = 0
  <2>1. CASE j = i
    BY <1>1, <1>4, <2>1
  <2>2. CASE j # i
    BY <1>1, <1>2, <1>3, <2>2 DEF Layout
  <2> QED
    BY <2>1, <2>2
<1>6. ASSUME NEW j \in Inums, NEW m \in Inums, NEW k \in Places, NEW l \in Places,
             k < C2[j], l < C2[m], Num(D2, A2[j], k) = Num(D2, A2[m], l)
      PROVE  j = m /\ k = l
  <2>1. j # i /\ m # i
    BY <1>1, <1>6
  <2> QED
    BY <1>1, <1>3, <1>6, <2>1 DEF Layout
<1>7. ASSUME NEW c \in U \ B
      PROVE  \E j \in Inums, k \in Places : k < C2[j] /\ Num(D2, A2[j], k) = c
  <2>1. PICK j \in Inums, k \in Places : k < C[j] /\ Num(D, A[j], k) = c
    BY DEF Layout
  <2>2. j # i
    BY <2>1, <1>7 DEF TakenBy
  <2> QED
    BY <1>1, <1>3, <2>1, <2>2
<1> QED
  BY <1>2, <1>3, <1>5, <1>6, <1>7 DEF Layout, OthersKept

-----------------------------------------------------------------------------
(* balloc(), bmap() and itrunc()                                           *)

\* The addresses that count: those of inode i in memory, which a call has
\* locked, and of the others on the disk.
AddrsWith(s, i) == [Addrs(s.dinode) EXCEPT ![i] = s.inode[i].addrs]

\* The blocks of s are those of the inodes, C[j] for j.
Fits(s, i, C) ==
    /\ s \in FsType /\ C \in [Inums -> 0..(MAXFILE + 1)]
    /\ Layout(s.used, s.data, AddrsWith(s, i), C)

\* What is in the places taken before, and the data there, are kept.
Kept(s, t, i, C) == \A j \in Inums, l \in Places : l < C[j] =>
    /\ Num(t.data, AddrsWith(t, i)[j], l) = Num(s.data, AddrsWith(s, i)[j], l)
    /\ l # NDIRECT => t.data[Num(s.data, AddrsWith(s, i)[j], l)] =
                      s.data[Num(s.data, AddrsWith(s, i)[j], l)]

\* Of the inodes only the addresses of i in memory have changed.
OnlyAddrs(s, u, i) ==
    /\ u.dinode = s.dinode
    /\ \A j \in Inums : j # i => u.inode[j] = s.inode[j]
    /\ u.inode[i].nlink = s.inode[i].nlink /\ u.inode[i].used = s.inode[i].used
    /\ u.inode[i].size = s.inode[i].size

\* One more place is taken in inode i.
Plus(C, i) == [C EXCEPT ![i] = @ + 1]

\* The places that n blocks take are taken in inode i.
Upto(C, i, n) == [C EXCEPT ![i] = PlacesOf(n)]

\* The two ways in which bmap() uses balloc().
AddrNew(s, i, k) == [balloc(s) EXCEPT !.inode[i].addrs[k] = Fresh(s)]
WordNew(s, i, w) == [balloc(s) EXCEPT !.data[s.inode[i].addrs[NDIRECT]][w] = Fresh(s)]

\* The parts of a file system that fits have their types.
LEMMA FitsType ==
  ASSUME NEW s, NEW i \in Inums, NEW C, Fits(s, i, C)
  PROVE  /\ LayoutType(s.used, s.data, AddrsWith(s, i), C)
         /\ AddrsWith(s, i)[i] = s.inode[i].addrs
         /\ \A j \in Inums : j # i => AddrsWith(s, i)[j] = s.dinode[j].addrs
         /\ \A j \in Inums : s.inode[j] \in Inodes /\ s.dinode[j] \in Inodes
         /\ s.used \subseteq DataBlocks /\ s.data \in [DataBlocks -> [Words -> Datum]]
         /\ s.dinode \in [Inums -> Inodes] /\ s.inode \in [Inums -> Inodes]
<1>1. s \in FsType
  BY DEF Fits
<1>2. /\ s.used \subseteq DataBlocks /\ s.data \in [DataBlocks -> [Words -> Datum]]
      /\ s.dinode \in [Inums -> Inodes] /\ s.inode \in [Inums -> Inodes]
  BY <1>1 DEF FsType
<1>3. \A j \in Inums : s.inode[j] \in Inodes /\ s.dinode[j] \in Inodes
  BY <1>2
<1>4. \A j \in Inums : /\ s.inode[j].addrs \in [0..NDIRECT -> DataBlocks \cup {0}]
                       /\ s.dinode[j].addrs \in [0..NDIRECT -> DataBlocks \cup {0}]
  BY <1>3 DEF Inodes
<1>5. /\ AddrsWith(s, i)[i] = s.inode[i].addrs
      /\ \A j \in Inums : j # i => AddrsWith(s, i)[j] = s.dinode[j].addrs
      /\ AddrsWith(s, i) = [j \in Inums |-> AddrsWith(s, i)[j]]
  BY DEF AddrsWith, Addrs
<1>6. AddrsWith(s, i) \in [Inums -> [0..NDIRECT -> DataBlocks \cup {0}]]
  BY <1>4, <1>5
<1> QED
  BY <1>2, <1>3, <1>5, <1>6 DEF LayoutType, Fits

\* Addr() is the number in the place of the block.
LEMMA AddrIs ==
  ASSUME NEW s, NEW i \in Inums, NEW bn \in 0..(MAXFILE - 1)
  PROVE  /\ Addr(s, i, bn) = Num(s.data, s.inode[i].addrs, PlaceOf(bn))
         /\ PlaceOf(bn) \in Places /\ PlaceOf(bn) # NDIRECT
<1>1. CASE bn < NDIRECT
  <2>1. PlaceOf(bn) = bn /\ bn <= NDIRECT /\ bn \in Places /\ bn # NDIRECT
    BY <1>1, InodeConstants DEF PlaceOf, Places
  <2> QED
    BY <1>1, <2>1 DEF Num, Addr
<1>2. CASE ~(bn < NDIRECT)
  <2>1. /\ ~(PlaceOf(bn) <= NDIRECT) /\ PlaceOf(bn) \in Places /\ PlaceOf(bn) # NDIRECT
        /\ PlaceOf(bn) - NDIRECT - 1 = bn - NDIRECT
    BY <1>2, InodeConstants DEF PlaceOf, Places
  <2> QED
    BY <1>2, <2>1 DEF Num, Addr
<1> QED
  BY <1>1, <1>2

\* What balloc() takes is free.
LEMMA FreshIs ==
  ASSUME NEW s, NEW i \in Inums, NEW C, Fits(s, i, C), C[i] \in Places,
         HasRoom(C, i, C[i] + 1)
  PROVE  Fresh(s) \in DataBlocks /\ Fresh(s) \notin s.used /\ Fresh(s) \in Nat \ {0}
<1>1. LayoutType(s.used, s.data, AddrsWith(s, i), C) /\ Layout(s.used, s.data, AddrsWith(s, i), C)
  BY FitsType DEF Fits
<1>2. DataBlocks \ s.used # {}
  BY <1>1, FreeBlock
<1>3. DataBlocks \ s.used \subseteq Nat
  BY InodeConstants
<1>4. Fresh(s) \in DataBlocks \ s.used
  BY <1>2, <1>3, MinIn DEF Fresh
<1> QED
  BY <1>4, InodeConstants

\* The state after balloc().
LEMMA BallocIs ==
  ASSUME NEW s, NEW i \in Inums, NEW C, Fits(s, i, C), C[i] \in Places,
         HasRoom(C, i, C[i] + 1)
  PROVE  LET t == balloc(s) IN
         /\ t \in FsType
         /\ t.used = s.used \cup {Fresh(s)}
         /\ t.data = [s.data EXCEPT ![Fresh(s)] = [w \in Words |-> 0]]
         /\ t.dinode = s.dinode /\ t.inode = s.inode
<1> DEFINE b == Fresh(s)
           t == balloc(s)
           D2 == [s.data EXCEPT ![b] = [w \in Words |-> 0]]
<1>1. b \in DataBlocks /\ s \in FsType
  BY FreshIs DEF Fits
<1>2. /\ s.used \subseteq DataBlocks /\ s.data \in [DataBlocks -> [Words -> Datum]]
      /\ s.dinode \in [Inums -> Inodes] /\ s.inode \in [Inums -> Inodes]
  BY FitsType
<1>3. s = [used |-> s.used, data |-> s.data, dinode |-> s.dinode, inode |-> s.inode]
  BY <1>1 DEF FsType
<1>4. t = [used |-> s.used \cup {b}, data |-> D2, dinode |-> s.dinode, inode |-> s.inode]
  <2> DEFINE s1 == [s EXCEPT !.used = @ \cup {b}]
  <2>1. s1 = [used |-> s.used \cup {b}, data |-> s.data, dinode |-> s.dinode, inode |-> s.inode]
    BY <1>3
  <2>2. t = bzero(s1, b)
    BY DEF balloc
  <2> HIDE DEF s1, b
  <2>3. t = [s1 EXCEPT !.data[b] = [w \in Words |-> 0]]
    BY <2>2 DEF bzero
  <2> HIDE DEF t
  <2> QED
    BY <2>1, <2>3
<1>5. D2 \in [DataBlocks -> [Words -> Datum]]
  <2>1. [w \in Words |-> 0] \in [Words -> Datum]
    BY DEF Datum
  <2> QED
    BY <1>2, <2>1
<1> HIDE DEF b, t, D2
<1>6. t \in FsType
  BY <1>1, <1>2, <1>4, <1>5 DEF FsType
<1> QED
  BY <1>4, <1>6 DEF b, t, D2

\* A number stored in an inode in memory changes only its addresses.
LEMMA NewDirectAddrs ==
  ASSUME NEW s, NEW i \in Inums, NEW C, Fits(s, i, C), NEW v, NEW k, NEW b,
         v.dinode = s.dinode, v.inode = [s.inode EXCEPT ![i].addrs[k] = b]
  PROVE  OnlyAddrs(s, v, i)
<1>1. s.inode \in [Inums -> Inodes] /\ s.inode[i] \in Inodes
  BY FitsType
<1>2. v.inode[i] = [s.inode[i] EXCEPT !.addrs[k] = b] /\ \A j \in Inums : j # i => v.inode[j] = s.inode[j]
  BY <1>1
<1>3. /\ v.inode[i].nlink = s.inode[i].nlink /\ v.inode[i].used = s.inode[i].used
      /\ v.inode[i].size = s.inode[i].size
  BY <1>1, <1>2 DEF Inodes
<1> QED
  BY <1>2, <1>3 DEF OnlyAddrs

\* An address in the inode is given a new block.
LEMMA NewDirect ==
  ASSUME NEW s, NEW i \in Inums, NEW C, Fits(s, i, C), C[i] \in 0..NDIRECT,
         HasRoom(C, i, C[i] + 1),
         NEW v, v = AddrNew(s, i, C[i])
  PROVE  Fits(v, i, Plus(C, i)) /\ Kept(s, v, i, C) /\ OnlyAddrs(s, v, i)
<1> DEFINE b == Fresh(s)
           t == balloc(s)
           k == C[i]
           C2 == [C EXCEPT ![i] = @ + 1]
           A == AddrsWith(s, i)
           I2 == [s.inode EXCEPT ![i].addrs[k] = b]
<1>1. k \in Places /\ C \in [Inums -> 0..(MAXFILE + 1)]
  BY InodeConstants DEF Places, Fits
<1>2. b \in DataBlocks /\ b \notin s.used
  BY <1>1, FreshIs
<1>3. /\ t \in FsType /\ t.used = s.used \cup {b}
      /\ t.data = [s.data EXCEPT ![b] = [w \in Words |-> 0]]
      /\ t.dinode = s.dinode /\ t.inode = s.inode
  BY <1>1, BallocIs
<1>4. /\ LayoutType(s.used, s.data, A, C) /\ Layout(s.used, s.data, A, C)
      /\ A[i] = s.inode[i].addrs
      /\ s.dinode \in [Inums -> Inodes] /\ s.inode \in [Inums -> Inodes]
  BY FitsType DEF Fits
<1>5. v = [t EXCEPT !.inode = I2]
  <2>1. v = [t EXCEPT !.inode = [t.inode EXCEPT ![i].addrs[k] = b]]
    BY <1>3 DEF FsType, AddrNew
  <2> QED
    BY <1>3, <2>1
<1> HIDE DEF b, t, I2
<1>6. v.used = t.used /\ v.data = t.data /\ v.dinode = s.dinode /\ v.inode = I2
  BY <1>3, <1>5 DEF FsType
<1>7. I2 \in [Inums -> Inodes] /\ I2[i].addrs = [s.inode[i].addrs EXCEPT ![k] = b]
  <2>1. s.inode[i] \in Inodes
    BY <1>4
  <2>2. I2 = [s.inode EXCEPT ![i] = [s.inode[i] EXCEPT !.addrs = [s.inode[i].addrs EXCEPT ![k] = b]]]
    BY <1>4, <2>1 DEF I2
  <2>3. [s.inode[i].addrs EXCEPT ![k] = b] \in [0..NDIRECT -> DataBlocks \cup {0}]
    BY <1>2, <2>1 DEF Inodes
  <2>4. [s.inode[i] EXCEPT !.addrs = [s.inode[i].addrs EXCEPT ![k] = b]] \in Inodes
    BY <2>1, <2>3 DEF Inodes
  <2> QED
    BY <1>4, <2>1, <2>2, <2>4 DEF Inodes
<1>8. AddrsWith(v, i) = [A EXCEPT ![i][k] = b]
  <2>1. AddrsWith(v, i) = [Addrs(s.dinode) EXCEPT ![i] = I2[i].addrs]
    BY <1>6 DEF AddrsWith
  <2>2. A = [Addrs(s.dinode) EXCEPT ![i] = s.inode[i].addrs]
    BY DEF AddrsWith
  <2>3. DOMAIN Addrs(s.dinode) = Inums
    BY DEF Addrs
  <2> HIDE DEF A
  <2> QED
    BY <1>4, <1>7, <2>1, <2>2, <2>3
<1> HIDE DEF A, k
<1>9. v \in FsType
  BY <1>3, <1>5, <1>7 DEF FsType
<1>10. /\ Layout(s.used \cup {b}, v.data, AddrsWith(v, i), [C EXCEPT ![i] = @ + 1])
       /\ \A j \in Inums, l \in Places : ~(j = i /\ l = k) =>
             Num(v.data, AddrsWith(v, i)[j], l) = Num(s.data, A[j], l)
  <2>1. /\ \A w \in Words : v.data[b][w] = 0
        /\ \A c \in DataBlocks : c # b => v.data[c] = s.data[c]
    BY <1>2, <1>3, <1>4, <1>6 DEF LayoutType
  <2>2. ASSUME NEW j \in Inums, NEW l \in 0..NDIRECT
        PROVE  AddrsWith(v, i)[j][l] = IF j = i /\ l = C[i] THEN b ELSE A[j][l]
    <3>1. A \in [Inums -> [0..NDIRECT -> DataBlocks \cup {0}]]
      BY <1>4 DEF LayoutType
    <3>2. AddrsWith(v, i)[j] = IF j = i THEN [A[i] EXCEPT ![k] = b] ELSE A[j]
      BY <1>8, <3>1
    <3>3. [A[i] EXCEPT ![k] = b][l] = IF l = k THEN b ELSE A[i][l]
      BY <3>1
    <3> QED
      BY <3>2, <3>3 DEF k
  <2>3. C[i] <= NDIRECT
    BY InodeConstants
  <2>4. /\ Layout(s.used \cup {b}, v.data, AddrsWith(v, i), [C EXCEPT ![i] = @ + 1])
        /\ \A j \in Inums, l \in Places : ~(j = i /\ l = C[i]) =>
             Num(v.data, AddrsWith(v, i)[j], l) = Num(s.data, A[j], l)
    <3> DEFINE U == s.used
               D == s.data
               D2 == v.data
               A2 == AddrsWith(v, i)
    <3>1. /\ LayoutType(U, D, A, C) /\ Layout(U, D, A, C) /\ b \in DataBlocks /\ b \notin U
          /\ NewAddr(D, A, D2, A2, i, C[i], b)
      BY <1>2, <1>4, <2>1, <2>2 DEF NewAddr
    <3> HIDE DEF U, D, D2, A2
    <3>2. Layout(U \cup {b}, D2, A2, [C EXCEPT ![i] = @ + 1])
      BY ONLY i \in Inums, <2>3, <3>1, GrowDirect
    <3>3. SameBut(D, A, D2, A2, i, C[i])
      BY ONLY i \in Inums, <2>3, <3>1, <3>2, GrowDirect
    <3> QED
      BY <3>2, <3>3 DEF U, D, D2, A2, SameBut
  <2> QED
    BY <2>4 DEF k
<1>11. C2 \in [Inums -> 0..(MAXFILE + 1)]
  BY <1>1, InodeConstants DEF Places, k
<1>12. Fits(v, i, C2)
  BY <1>3, <1>6, <1>9, <1>10, <1>11 DEF Fits
<1>13. Kept(s, v, i, C)
  <2>1. ASSUME NEW j \in Inums, NEW l \in Places, l < C[j]
        PROVE  /\ Num(v.data, AddrsWith(v, i)[j], l) = Num(s.data, A[j], l)
               /\ v.data[Num(s.data, A[j], l)] = s.data[Num(s.data, A[j], l)]
    <3>1. ~(j = i /\ l = k)
      BY <2>1, InodeConstants DEF k, Places
    <3>2. Num(s.data, A[j], l) \in s.used
      BY <1>4, <2>1 DEF Layout
    <3>3. Num(s.data, A[j], l) \in DataBlocks /\ Num(s.data, A[j], l) # b
      BY <1>2, <1>4, <3>2 DEF LayoutType
    <3>4. \A c \in DataBlocks : c # b => v.data[c] = s.data[c]
      BY <1>3, <1>4, <1>6 DEF LayoutType
    <3> QED
      BY <1>10, <3>1, <3>3, <3>4
  <2> QED
    BY <2>1 DEF Kept, A
<1>14. OnlyAddrs(s, v, i)
  BY <1>6, NewDirectAddrs DEF I2
<1> QED
  BY <1>12, <1>13, <1>14 DEF Plus

\* A place in the indirect block is given a new block.
LEMMA NewIndirect ==
  ASSUME NEW s, NEW i \in Inums, NEW C, Fits(s, i, C), C[i] > NDIRECT, C[i] \in Places,
         HasRoom(C, i, C[i] + 1), NEW v, v = WordNew(s, i, C[i] - NDIRECT - 1)
  PROVE  Fits(v, i, Plus(C, i)) /\ Kept(s, v, i, C) /\ OnlyAddrs(s, v, i)
<1> DEFINE b == Fresh(s)
           t == balloc(s)
           x == s.inode[i].addrs[NDIRECT]
           w0 == C[i] - NDIRECT - 1
           C2 == [C EXCEPT ![i] = @ + 1]
           A == AddrsWith(s, i)
           D2 == [[s.data EXCEPT ![b] = [w \in Words |-> 0]] EXCEPT ![x][w0] = b]
<1>1. C \in [Inums -> 0..(MAXFILE + 1)] /\ NDIRECT < C[i] /\ C[i] \in Nat
  BY InodeConstants DEF Places, Fits
<1>2. b \in DataBlocks /\ b \notin s.used /\ b \in Nat
  BY FreshIs
<1>3. /\ t \in FsType /\ t.used = s.used \cup {b}
      /\ t.data = [s.data EXCEPT ![b] = [w \in Words |-> 0]]
      /\ t.dinode = s.dinode /\ t.inode = s.inode
  BY BallocIs
<1>4. /\ LayoutType(s.used, s.data, A, C) /\ Layout(s.used, s.data, A, C)
      /\ A[i] = s.inode[i].addrs
      /\ s.dinode \in [Inums -> Inodes] /\ s.inode \in [Inums -> Inodes]
  BY FitsType DEF Fits
<1>5. v = [t EXCEPT !.data = D2]
  <2>1. v = [t EXCEPT !.data = [t.data EXCEPT ![x][w0] = b]]
    BY <1>3 DEF FsType, WordNew
  <2> QED
    BY <1>3, <2>1
<1>6. /\ x # 0 /\ x \in s.used /\ x \in DataBlocks
      /\ \A m \in Inums, l \in Places : l < C[m] /\ x = Num(s.data, A[m], l) =>
            i = m /\ l = NDIRECT
  <2>1. A[i][NDIRECT] # 0 /\ A[i][NDIRECT] \in s.used
    BY <1>1, <1>4, IndirectIs
  <2>2. \A m \in Inums, l \in Places : l < C[m] /\ A[i][NDIRECT] # 0 /\
               A[i][NDIRECT] = Num(s.data, A[m], l) => i = m /\ l = NDIRECT
    BY <1>4, IndirectIs
  <2> QED
    BY <1>4, <2>1, <2>2 DEF LayoutType
<1>7. w0 \in Words
  BY <1>1, InodeConstants DEF Places
<1> HIDE DEF b, t, A
<1>8. D2 \in [DataBlocks -> [Words -> Datum]]
  <2> DEFINE D1 == [s.data EXCEPT ![b] = [w \in Words |-> 0]]
  <2>1. D1 \in [DataBlocks -> [Words -> Datum]]
    BY <1>3 DEF FsType
  <2>2. b \in Datum
    BY <1>2 DEF Datum
  <2> HIDE DEF D1, x, w0
  <2>3. D2 = [D1 EXCEPT ![x] = [D1[x] EXCEPT ![w0] = b]]
    BY <1>6, <2>1 DEF D1
  <2>4. [D1[x] EXCEPT ![w0] = b] \in [Words -> Datum]
    BY <1>6, <1>7, <2>1, <2>2
  <2> QED
    BY <2>1, <2>3, <2>4
<1>9. v.used = t.used /\ v.data = D2 /\ v.dinode = s.dinode /\ v.inode = s.inode
  <2> HIDE DEF D2
  <2> QED
    BY <1>3, <1>5 DEF FsType
<1>10. v \in FsType
  <2> HIDE DEF D2
  <2> QED
    BY <1>3, <1>5, <1>8 DEF FsType
<1>11. AddrsWith(v, i) = A
  BY <1>9 DEF AddrsWith, A
<1>12. /\ Layout(s.used \cup {b}, D2, A, [C EXCEPT ![i] = @ + 1])
       /\ \A j \in Inums, l \in Places : ~(j = i /\ l = C[i]) =>
             Num(D2, A[j], l) = Num(s.data, A[j], l)
  <2>1. \A c \in DataBlocks : c # b /\ c # x => D2[c] = s.data[c]
    <3> HIDE DEF x, w0
    <3> QED
      BY <1>4 DEF LayoutType
  <2>2. \A w \in Words : D2[x][w] = IF w = w0 THEN b ELSE s.data[x][w]
    <3> DEFINE D1 == [s.data EXCEPT ![b] = [w \in Words |-> 0]]
    <3>1. D1[x] = s.data[x] /\ DOMAIN D1 = DataBlocks /\ s.data[x] \in [Words -> Datum]
      BY <1>2, <1>4, <1>6 DEF LayoutType
    <3> HIDE DEF D1, x, w0
    <3>2. D2[x] = [s.data[x] EXCEPT ![w0] = b]
      BY <1>6, <3>1 DEF D1
    <3> HIDE DEF D2
    <3> QED
      BY <3>1, <3>2
  <2>3. x = A[i][NDIRECT] /\ w0 = C[i] - NDIRECT - 1
    BY <1>4
  <2> HIDE DEF D2, x, w0
  <2>4. /\ \A w \in Words : D2[A[i][NDIRECT]][w] =
            IF w = C[i] - NDIRECT - 1 THEN b ELSE s.data[A[i][NDIRECT]][w]
        /\ \A c \in DataBlocks : c # b /\ c # A[i][NDIRECT] => D2[c] = s.data[c]
    BY <2>1, <2>2, <2>3
  <2> QED
    <3> DEFINE U == s.used
               D == s.data
    <3>1. /\ LayoutType(U, D, A, C) /\ Layout(U, D, A, C) /\ b \in DataBlocks /\ b \notin U
          /\ \A w \in Words : D2[A[i][NDIRECT]][w] =
                IF w = C[i] - NDIRECT - 1 THEN b ELSE D[A[i][NDIRECT]][w]
          /\ \A c \in DataBlocks : c # b /\ c # A[i][NDIRECT] => D2[c] = D[c]
      BY <1>2, <1>4, <2>4
    <3> HIDE DEF U, D
    <3>2. Layout(U \cup {b}, D2, A, [C EXCEPT ![i] = @ + 1])
      BY ONLY i \in Inums, C[i] > NDIRECT, C[i] \in Places, <3>1, GrowIndirect
    <3>3. SameBut(D, A, D2, A, i, C[i])
      BY ONLY i \in Inums, C[i] > NDIRECT, C[i] \in Places, <3>1, <3>2, GrowIndirect
    <3> QED
      BY <3>2, <3>3 DEF U, D, SameBut
<1>13. C2 \in [Inums -> 0..(MAXFILE + 1)]
  BY <1>1, InodeConstants DEF Places
<1>14. Fits(v, i, C2)
  <2> HIDE DEF D2
  <2> QED
    BY <1>3, <1>9, <1>10, <1>11, <1>12, <1>13 DEF Fits
<1>15. Kept(s, v, i, C)
  <2>1. ASSUME NEW j \in Inums, NEW l \in Places, l < C[j]
        PROVE  /\ Num(v.data, AddrsWith(v, i)[j], l) = Num(s.data, A[j], l)
               /\ l # NDIRECT => v.data[Num(s.data, A[j], l)] = s.data[Num(s.data, A[j], l)]
    <3>1. ~(j = i /\ l = C[i])
      BY <1>1, <2>1, InodeConstants DEF Places
    <3>2. Num(s.data, A[j], l) \in s.used
      BY <1>4, <2>1 DEF Layout
    <3>3. /\ Num(s.data, A[j], l) \in DataBlocks /\ Num(s.data, A[j], l) # b
          /\ l # NDIRECT => Num(s.data, A[j], l) # x
      BY <1>2, <1>4, <1>6, <2>1, <3>2 DEF LayoutType
    <3>4. \A c \in DataBlocks : c # b /\ c # x => D2[c] = s.data[c]
      <4> HIDE DEF x, w0
      <4> QED
        BY <1>4 DEF LayoutType
    <3> HIDE DEF D2
    <3> QED
      BY <1>9, <1>11, <1>12, <3>1, <3>3, <3>4
  <2> QED
    BY <2>1 DEF Kept, A
<1>16. OnlyAddrs(s, v, i)
  BY <1>9 DEF OnlyAddrs
<1> QED
  BY <1>14, <1>15, <1>16 DEF Plus

\* What two calls of balloc() keep, both keep.
LEMMA KeptTrans ==
  ASSUME NEW s, NEW t, NEW u, NEW i \in Inums, NEW C, Fits(s, i, C), Kept(s, t, i, C),
         Kept(t, u, i, Plus(C, i))
  PROVE  Kept(s, u, i, C)
<1> DEFINE C2 == [C EXCEPT ![i] = @ + 1]
<1>1. C \in [Inums -> 0..(MAXFILE + 1)] /\ Places \subseteq Nat
  BY InodeConstants DEF Fits, Places
<1>2. \A j \in Inums, l \in Places : l < C[j] => l < C2[j]
  BY <1>1, InodeConstants
<1> HIDE DEF C2
<1>3. Kept(t, u, i, C2)
  BY DEF C2, Plus
<1> QED
  BY <1>2, <1>3 DEF Kept

\* bmap() of a block that the inode has changes nothing; of the one behind
\* the last it adds that block, and the indirect one if it is the first there.
LEMMA BmapIs ==
  ASSUME NEW s, NEW i \in Inums, NEW C, Fits(s, i, C), NEW n \in 0..MAXFILE, C[i] = PlacesOf(n),
         NEW bn \in 0..n, bn < MAXFILE, bn = n => HasRoom(C, i, PlacesOf(n + 1))
  PROVE  LET u == bmap(s, i, bn) IN
         /\ bn < n => u = s
         /\ bn = n => Fits(u, i, Upto(C, i, n + 1))
         /\ Kept(s, u, i, C) /\ OnlyAddrs(s, u, i)
<1> DEFINE u == bmap(s, i, bn)
           k == PlaceOf(bn)
           a == s.inode[i].addrs
<1>1. /\ LayoutType(s.used, s.data, AddrsWith(s, i), C)
      /\ Layout(s.used, s.data, AddrsWith(s, i), C) /\ AddrsWith(s, i)[i] = a
      /\ 0 \notin s.used /\ C \in [Inums -> 0..(MAXFILE + 1)]
  BY FitsType, InodeConstants DEF Fits
<1>2. bn \in 0..(MAXFILE - 1) /\ bn \in Nat /\ n \in Nat /\ C[i] \in Nat
  BY <1>1, InodeConstants
<1>3. Addr(s, i, bn) = Num(s.data, a, k) /\ k \in Places /\ k # NDIRECT
  BY <1>2, AddrIs
<1>4. k < C[i] <=> bn < n
  BY <1>2, InodeConstants DEF PlaceOf, PlacesOf
<1>5. Addr(s, i, bn) # 0 <=> bn < n
  BY <1>1, <1>3, <1>4 DEF Layout
<1>6. a[NDIRECT] # 0 <=> NDIRECT < n
  <2>1. a[NDIRECT] # 0 <=> NDIRECT < C[i]
    BY <1>1, IndirectIs
  <2>2. NDIRECT < C[i] <=> NDIRECT < n
    BY <1>2, InodeConstants DEF PlacesOf
  <2> QED
    BY <2>1, <2>2
<1>7. u = LET t == IF bn >= NDIRECT /\ a[NDIRECT] = 0 THEN AddrNew(s, i, NDIRECT) ELSE s
          IN IF Addr(t, i, bn) # 0 THEN t
             ELSE IF bn < NDIRECT THEN AddrNew(t, i, bn) ELSE WordNew(t, i, bn - NDIRECT)
  BY DEF bmap, AddrNew, WordNew
<1>8. Kept(s, s, i, C) /\ OnlyAddrs(s, s, i)
  BY DEF Kept, OnlyAddrs
<1> HIDE DEF u, a
<1>9. CASE bn < n
  <2>1. ~(bn >= NDIRECT /\ a[NDIRECT] = 0)
    BY <1>2, <1>6, <1>9, InodeConstants
  <2>2. u = s
    BY <1>5, <1>7, <1>9, <2>1
  <2> QED
    BY <1>2, <1>8, <1>9, <2>2 DEF u
<1>10. CASE bn = n /\ n < NDIRECT
  <2>1. u = AddrNew(s, i, bn) /\ C[i] = n /\ C[i] \in 0..NDIRECT /\ PlacesOf(n + 1) = C[i] + 1
    <3>1. ~(bn >= NDIRECT /\ a[NDIRECT] = 0) /\ bn < NDIRECT /\ ~(bn < n)
      BY <1>2, <1>10, InodeConstants
    <3>2. C[i] = n /\ C[i] \in 0..NDIRECT /\ PlacesOf(n + 1) = C[i] + 1
      BY <1>2, <1>10, InodeConstants DEF PlacesOf
    <3> QED
      BY <1>5, <1>7, <3>1, <3>2
  <2>2. u = AddrNew(s, i, C[i])
    BY <1>10, <2>1
  <2>3. Fits(u, i, Plus(C, i)) /\ Kept(s, u, i, C) /\ OnlyAddrs(s, u, i)
    BY <1>10, <2>1, <2>2, NewDirect
  <2>4. Plus(C, i) = Upto(C, i, n + 1)
    BY <2>1 DEF Plus, Upto
  <2> QED
    BY <1>2, <1>10, <2>3, <2>4 DEF u
<1>11. CASE bn = n /\ n > NDIRECT
  <2>1. /\ u = WordNew(s, i, bn - NDIRECT) /\ C[i] = n + 1 /\ C[i] > NDIRECT /\ C[i] \in Places
        /\ PlacesOf(n + 1) = C[i] + 1 /\ bn - NDIRECT = C[i] - NDIRECT - 1
    <3>1. ~(bn >= NDIRECT /\ a[NDIRECT] = 0) /\ ~(bn < NDIRECT) /\ ~(bn < n)
      BY <1>2, <1>6, <1>11, InodeConstants
    <3>2. /\ C[i] = n + 1 /\ C[i] > NDIRECT /\ C[i] \in Places
          /\ PlacesOf(n + 1) = C[i] + 1 /\ bn - NDIRECT = C[i] - NDIRECT - 1
      BY <1>2, <1>11, InodeConstants DEF PlacesOf, Places
    <3> QED
      BY <1>5, <1>7, <3>1, <3>2
  <2>2. u = WordNew(s, i, C[i] - NDIRECT - 1)
    BY <2>1
  <2>3. Fits(u, i, Plus(C, i)) /\ Kept(s, u, i, C) /\ OnlyAddrs(s, u, i)
    BY <1>11, <2>1, <2>2, NewIndirect
  <2>4. Plus(C, i) = Upto(C, i, n + 1)
    BY <2>1 DEF Plus, Upto
  <2> QED
    BY <1>2, <1>11, <2>3, <2>4 DEF u
<1>12. CASE bn = n /\ n = NDIRECT
  <2> DEFINE t == AddrNew(s, i, NDIRECT)
             C1 == Plus(C, i)
  <2>1. C[i] = NDIRECT /\ C[i] \in 0..NDIRECT /\ C1[i] = NDIRECT + 1 /\ C1[i] \in Places
        /\ C1[i] > NDIRECT /\ k = NDIRECT + 1
    BY <1>1, <1>2, <1>12, InodeConstants DEF PlacesOf, PlaceOf, Places, Plus
  <2>2. t = AddrNew(s, i, C[i])
    BY <2>1
  <2>12. HasRoom(C, i, C[i] + 1) /\ HasRoom(C1, i, C1[i] + 1)
    <3>1. HasRoom(C, i, C[i] + 2) /\ C[i] + 2 \in Nat /\ C[i] + 1 \in Nat /\ C[i] + 1 <= C[i] + 2
      BY <1>12, <2>1, InodeConstants DEF PlacesOf
    <3>2. C1 \in [Inums -> 0..(MAXFILE + 1)] /\ \A j \in Inums : j # i => C1[j] = C[j]
      BY <1>1, <2>1, InodeConstants DEF Plus
    <3>3. C1[i] + 1 = C[i] + 2
      BY <2>1, InodeConstants
    <3>4. HasRoom(C, i, C[i] + 1)
      BY <1>1, <3>1, RoomLess
    <3> HIDE DEF C1
    <3>5. HasRoom(C1, i, C[i] + 2)
      BY <1>1, <3>1, <3>2, RoomSame
    <3> QED
      BY <3>3, <3>4, <3>5
  <2> HIDE DEF t, C1
  <2>3. Fits(t, i, C1) /\ Kept(s, t, i, C) /\ OnlyAddrs(s, t, i)
    BY <2>1, <2>2, <2>12, NewDirect DEF C1
  <2>5. Addr(t, i, bn) = 0
    <3>1. Addr(t, i, bn) = Num(t.data, t.inode[i].addrs, k) /\ ~(k < C1[i])
      BY <1>2, <2>1, AddrIs
    <3>2. Layout(t.used, t.data, AddrsWith(t, i), C1) /\ AddrsWith(t, i)[i] = t.inode[i].addrs
      BY <2>3, FitsType DEF Fits
    <3> QED
      BY <1>3, <3>1, <3>2 DEF Layout
  <2>6. u = WordNew(t, i, bn - NDIRECT)
    <3>1. bn >= NDIRECT /\ a[NDIRECT] = 0 /\ ~(bn < NDIRECT)
      BY <1>2, <1>6, <1>12, InodeConstants
    <3> QED
      BY <1>7, <2>5, <3>1 DEF t
  <2>7. u = WordNew(t, i, C1[i] - NDIRECT - 1)
    <3>1. bn - NDIRECT = C1[i] - NDIRECT - 1
      BY <1>12, <2>1, InodeConstants
    <3> QED
      BY <2>6, <3>1
  <2>8. Plus(C1, i) = Upto(C, i, n + 1)
    <3>1. C1[i] + 1 = PlacesOf(n + 1)
      BY <1>12, <2>1, InodeConstants DEF PlacesOf
    <3> QED
      BY <1>1, <3>1 DEF C1, Plus, Upto
  <2>9. Fits(u, i, Plus(C1, i)) /\ Kept(t, u, i, C1) /\ OnlyAddrs(t, u, i)
    BY <2>1, <2>3, <2>7, <2>12, NewIndirect
  <2>10. OnlyAddrs(s, u, i)
    BY <2>3, <2>9 DEF OnlyAddrs
  <2>11. Kept(s, u, i, C)
    BY <2>3, <2>9, KeptTrans DEF C1
  <2> QED
    BY <1>2, <1>12, <2>8, <2>9, <2>10, <2>11 DEF u
<1> QED
  BY <1>2, <1>9, <1>10, <1>11, <1>12, InodeConstants

\* What holds at first and of each number after one that it holds of.
LEMMA Counting ==
  ASSUME NEW n \in Nat, NEW S, 0 \in S, \A k \in 1..n : k - 1 \in S => k \in S
  PROVE  n \in S
<1> DEFINE T == {k \in 0..n : k \notin S}
<1>1. SUFFICES ASSUME n \notin S PROVE FALSE
  OBVIOUS
<1>2. T \subseteq Nat /\ n \in T
  BY <1>1
<1>3. PICK m \in T : \A k \in T : m <= k
  BY <1>2, LeastNumber
<1>4. m \in 0..n /\ m \notin S
  BY <1>3
<1>5. m # 0
  BY <1>4
<1>6. m \in 1..n /\ m - 1 \in 0..n /\ m - 1 < m
  BY <1>4, <1>5
<1>7. m - 1 \in S
  BY <1>3, <1>6
<1> QED
  BY <1>4, <1>6, <1>7

\* f is a loop of n turns from x on, each of which does g.
Run(f, n, x, g) == f = [k \in 0..n |-> IF k = 0 THEN x ELSE g[<<k, f[k - 1]>>]]

\* Each loop has a run.
LEMMA LoopExists ==
  ASSUME NEW n \in Nat, NEW x, NEW g
  PROVE  \E f : Run(f, n, x, g)
<1> DEFINE S == {m \in Nat : \E f : Run(f, m, x, g)}
<1>1. 0 \in S
  <2> DEFINE f == [k \in 0..0 |-> x]
  <2>1. Run(f, 0, x, g)
    BY DEF Run
  <2> QED
    BY <2>1
<1>2. ASSUME NEW m \in 1..n, m - 1 \in S
      PROVE  m \in S
  <2>1. PICK f : Run(f, m - 1, x, g)
    BY <1>2
  <2>2. \A k \in 0..(m - 1) : f[k] = IF k = 0 THEN x ELSE g[<<k, f[k - 1]>>]
    BY <2>1 DEF Run
  <2> DEFINE h == [k \in 0..m |-> IF k = m THEN g[<<m, f[m - 1]>>] ELSE f[k]]
  <2>3. ASSUME NEW k \in 0..m
        PROVE  h[k] = IF k = 0 THEN x ELSE g[<<k, h[k - 1]>>]
    <3>1. CASE k = 0
      <4>1. 0 \in 0..(m - 1) /\ k # m
        BY <3>1
      <4>2. f[0] = x
        BY <2>2, <4>1
      <4> QED
        BY <3>1, <4>1, <4>2
    <3>2. CASE k # 0
      <4>1. k - 1 \in 0..m /\ k - 1 # m
        BY <3>2
      <4>2. h[k - 1] = f[k - 1]
        BY <4>1
      <4>3. CASE k = m
        BY <3>2, <4>2, <4>3
      <4>4. CASE k # m
        BY <2>2, <3>2, <4>2, <4>4
      <4> QED
        BY <4>3, <4>4
    <3> QED
      BY <3>1, <3>2
  <2>4. h = [k \in 0..m |-> h[k]]
    OBVIOUS
  <2> HIDE DEF h
  <2>5. Run(h, m, x, g)
    BY <2>3, <2>4 DEF Run
  <2> QED
    BY <2>5
<1>3. n \in S
  <2> HIDE DEF S
  <2> QED
    BY <1>1, <1>2, Counting
<1> QED
  BY <1>3

\* If each turn stays in D, the run is in D.
LEMMA LoopType ==
  ASSUME NEW n \in Nat, NEW D, NEW x \in D, NEW g \in [(1..n) \X D -> D]
  PROVE  \E f \in [0..n -> D] : Run(f, n, x, g)
<1>1. PICK f : Run(f, n, x, g)
  BY LoopExists
<1>2. \A k \in 0..n : f[k] = IF k = 0 THEN x ELSE g[<<k, f[k - 1]>>]
  BY <1>1 DEF Run
<1>3. ASSUME NEW m \in 0..n
      PROVE  f[m] \in D
  <2> DEFINE S == {k \in 0..n : f[k] \in D}
  <2>1. 0 \in S
    <3>1. 0 \in 0..n
      OBVIOUS
    <3>2. f[0] = x
      BY <1>2, <3>1
    <3> QED
      BY <3>1, <3>2
  <2>2. ASSUME NEW k \in 1..m, k - 1 \in S
        PROVE  k \in S
    <3>1. k \in 1..n /\ k \in 0..n /\ k # 0 /\ f[k - 1] \in D
      BY <2>2
    <3>2. g[<<k, f[k - 1]>>] \in D
      BY <3>1
    <3> QED
      BY <1>2, <3>1, <3>2
  <2>3. m \in S
    <3> HIDE DEF S
    <3> QED
      BY <2>1, <2>2, Counting
  <2> QED
    BY <2>3
<1>4. f = [k \in 0..n |-> f[k]]
  BY <1>1 DEF Run
<1>5. f \in [0..n -> D]
  BY <1>3, <1>4
<1> QED
  BY <1>1, <1>5

-----------------------------------------------------------------------------
(* Sizes                                                                   *)

\* The quotient of a number.
LEMMA DivIs ==
  ASSUME NEW P \in Nat \ {0}, NEW a \in Nat
  PROVE  a \div P \in Nat /\ P * (a \div P) <= a /\ a < P * (a \div P) + P
OBVIOUS

\* There is one quotient.
LEMMA DivUnique ==
  ASSUME NEW P \in Nat \ {0}, NEW a \in Nat, NEW q \in Nat, P * q <= a, a < P * q + P
  PROVE  a \div P = q
OBVIOUS

\* The quotient of the smaller number is not the larger one.
LEMMA DivLess ==
  ASSUME NEW P \in Nat \ {0}, NEW a \in Nat, NEW b \in Nat, a <= b
  PROVE  a \div P <= b \div P
OBVIOUS

\* A number less than a multiple has a smaller quotient.
LEMMA DivBelow ==
  ASSUME NEW P \in Nat \ {0}, NEW a \in Nat, NEW q \in Nat, a < q * P
  PROVE  a \div P < q
OBVIOUS

\* Word x of a file is word w of block b.
LEMMA WordAt ==
  ASSUME NEW x \in Nat, NEW b, b = x \div BSIZE, NEW w, w = x % BSIZE
  PROVE  b \in Nat /\ w \in Words /\ b * BSIZE + w = x
<1>1. BSIZE \in Nat \ {0} /\ Words = 0..(BSIZE - 1)
  BY InodeConstants
<1>2. b \in Nat /\ w \in 0..(BSIZE - 1)
  BY <1>1
<1>3. b * BSIZE + w = x
  BY <1>1, <1>2
<1> QED
  BY <1>1, <1>2, <1>3

\* The blocks of z words, if there is one.
LEMMA BlocksForIs ==
  ASSUME NEW z \in Nat
  PROVE  /\ BlocksFor(z) \in Nat /\ BlocksFor(0) = 0
         /\ z > 0 => BlocksFor(z) = (z - 1) \div BSIZE + 1
<1> DEFINE P == BSIZE
<1>1. P \in Nat \ {0}
  BY InodeConstants
<1>2. BlocksFor(z) = (z + P - 1) \div P /\ BlocksFor(0) = (0 + P - 1) \div P
  BY DEF BlocksFor
<1> HIDE DEF P
<1>3. (z + P - 1) \div P \in Nat
  <2>1. z + P - 1 \in Nat
    BY <1>1
  <2> QED
    BY <1>1, <2>1, DivIs
<1>4. (0 + P - 1) \div P = 0
  <2>1. 0 + P - 1 \in Nat /\ 0 \in Nat /\ P * 0 <= 0 + P - 1 /\ 0 + P - 1 < P * 0 + P
    BY <1>1
  <2> QED
    BY <1>1, <2>1, DivUnique
<1>5. ASSUME z > 0
      PROVE  (z + P - 1) \div P = (z - 1) \div P + 1
  <2> DEFINE q == (z - 1) \div P
  <2>1. z - 1 \in Nat /\ z + P - 1 \in Nat
    BY <1>1, <1>5
  <2>2. q \in Nat /\ P * q <= z - 1 /\ z - 1 < P * q + P
    BY <1>1, <2>1, DivIs
  <2> HIDE DEF q
  <2>3. q + 1 \in Nat /\ P * (q + 1) = P * q + P
    BY <1>1, <2>2
  <2>4. P * (q + 1) <= z + P - 1 /\ z + P - 1 < P * (q + 1) + P
    <3>1. P * q \in Nat
      BY <1>1, <2>2
    <3> QED
      BY <1>1, <2>1, <2>2, <2>3, <3>1
  <2>5. (z + P - 1) \div P = q + 1
    BY <1>1, <2>1, <2>3, <2>4, DivUnique
  <2> QED
    BY <2>5 DEF q
<1> QED
  BY <1>2, <1>3, <1>4, <1>5 DEF P

\* More words take no fewer blocks, and a word is in one of them.
LEMMA BlocksForOrder ==
  ASSUME NEW y \in Nat, NEW z \in Nat
  PROVE  /\ y < z => y \div BSIZE < BlocksFor(z)
         /\ y <= z => BlocksFor(y) <= BlocksFor(z) /\ y \div BSIZE <= BlocksFor(z)
<1> DEFINE P == BSIZE
<1>1. P \in Nat \ {0}
  BY InodeConstants
<1>2. BlocksFor(y) \in Nat /\ BlocksFor(z) \in Nat /\ y \div P \in Nat
  BY <1>1, BlocksForIs, DivIs
<1>3. ASSUME y < z
      PROVE  y \div P < BlocksFor(z)
  <2>1. z > 0 /\ z - 1 \in Nat /\ y <= z - 1
    BY <1>3
  <2>2. BlocksFor(z) = (z - 1) \div P + 1 /\ y \div P <= (z - 1) \div P /\ (z - 1) \div P \in Nat
    BY <1>1, <2>1, BlocksForIs, DivLess, DivIs
  <2> QED
    BY <1>2, <2>2
<1>4. ASSUME y <= z
      PROVE  BlocksFor(y) <= BlocksFor(z)
  <2>1. BlocksFor(y) = (y + P - 1) \div P /\ BlocksFor(z) = (z + P - 1) \div P
    BY DEF BlocksFor
  <2>2. y + P - 1 \in Nat /\ z + P - 1 \in Nat /\ y + P - 1 <= z + P - 1
    BY <1>1, <1>4
  <2> QED
    BY <1>1, <2>1, <2>2, DivLess
<1>5. ASSUME y <= z
      PROVE  y \div P <= BlocksFor(z)
  <2>1. CASE y = z
    <3>1. CASE y = 0
      <4>1. y \div P = 0
        BY <1>1, <3>1, DivUnique
      <4> QED
        BY <1>2, <4>1
    <3>2. CASE y > 0
      <4>1. BlocksFor(y) = (y - 1) \div P + 1 /\ y - 1 \in Nat
        BY <3>2, BlocksForIs
      <4> DEFINE q == (y - 1) \div P
      <4>2. q \in Nat /\ y - 1 < P * q + P
        BY <1>1, <4>1, DivIs
      <4> HIDE DEF q
      <4>3. q + 2 \in Nat /\ y < (q + 2) * P
        <5>1. P * q \in Nat /\ (q + 2) * P = P * q + P + P
          BY <1>1, <4>2
        <5> QED
          BY <1>1, <4>1, <4>2, <5>1
      <4>4. y \div P < q + 2
        BY <1>1, <4>3, DivBelow
      <4> QED
        BY <1>2, <2>1, <4>1, <4>2, <4>4 DEF q
    <3> QED
      BY <3>1, <3>2
  <2>2. CASE y < z
    BY <1>2, <1>3, <2>2
  <2> QED
    BY <1>5, <2>1, <2>2
<1> QED
  BY <1>3, <1>4, <1>5 DEF P

\* A file that is not too long has at most MAXFILE blocks.
LEMMA BlocksForBound ==
  ASSUME NEW z \in 0..(MAXFILE * BSIZE)
  PROVE  BlocksFor(z) \in 0..MAXFILE /\ PlacesOf(BlocksFor(z)) \in 0..(MAXFILE + 1)
<1> DEFINE P == BSIZE
           M == MAXFILE
<1>1. P \in Nat \ {0} /\ M \in Nat /\ z \in Nat
  BY InodeConstants
<1>2. M * P \in Nat /\ z <= M * P
  BY <1>1
<1>3. BlocksFor(z) = (z + P - 1) \div P /\ z + P - 1 \in Nat
  BY <1>1 DEF BlocksFor
<1> HIDE DEF P, M
<1>4. z + P - 1 < (M + 1) * P
  <2>1. (M + 1) * P = M * P + P
    BY <1>1
  <2> QED
    BY <1>1, <1>2, <2>1
<1>5. (z + P - 1) \div P < M + 1 /\ (z + P - 1) \div P \in Nat
  <2>1. M + 1 \in Nat
    BY <1>1
  <2> QED
    BY <1>1, <1>3, <1>4, <2>1, DivBelow, DivIs
<1>6. BlocksFor(z) \in 0..M
  BY <1>1, <1>3, <1>5
<1> QED
  BY <1>6, InodeConstants DEF PlacesOf, M

-----------------------------------------------------------------------------
(* readi() and writei()                                                    *)

\* Word w of block b of inode j.
Cell(s, i, j, b, w) == s.data[Num(s.data, AddrsWith(s, i)[j], PlaceOf(b))][w]

Blocknums == 0..(MAXFILE - 1)

\* Each block of a file has a place of its own, one of the first of n blocks' when it is one of them.
LEMMA PlaceFacts ==
  ASSUME NEW b \in Blocknums, NEW n \in 0..MAXFILE
  PROVE  /\ b \in Nat /\ PlaceOf(b) \in Places /\ PlaceOf(b) # NDIRECT
         /\ PlaceOf(b) < PlacesOf(n) <=> b < n
         /\ \A c \in Blocknums : PlaceOf(c) = PlaceOf(b) => c = b
         /\ PlacesOf(n) \in 0..(MAXFILE + 1)
BY InodeConstants DEF Blocknums, PlaceOf, PlacesOf, Places

\* Block bn of inode i has words v from off on, and nothing else is new.
PutCells(u, t, i, C, bn, off, n, v) ==
    \A j \in Inums, b \in Blocknums, w \in Words : PlaceOf(b) < C[j] =>
       Cell(t, i, j, b, w) = IF j = i /\ b = bn /\ bn * BSIZE + w \in off..(off + n - 1)
                             THEN v ELSE Cell(u, i, j, b, w)

\* Words are put into block bn of inode i, and nowhere else.
LEMMA PutIs ==
  ASSUME NEW u, NEW i \in Inums, NEW C, Fits(u, i, C),
         NEW bn \in Blocknums, PlaceOf(bn) < C[i], NEW off \in Nat, NEW n \in Nat, NEW v \in Nat,
         NEW t, t = PutWords(u, i, bn, off, n, v)
  PROVE  /\ Fits(t, i, C) /\ t.dinode = u.dinode /\ t.inode = u.inode
         /\ PutCells(u, t, i, C, bn, off, n, v)
<1> DEFINE A == AddrsWith(u, i)
           k == PlaceOf(bn)
           x == Num(u.data, A[i], k)
           row == [w \in Words |-> IF bn * BSIZE + w \in off..(off + n - 1) THEN v ELSE u.data[x][w]]
           D2 == [u.data EXCEPT ![x] = row]
<1>1. /\ LayoutType(u.used, u.data, A, C) /\ Layout(u.used, u.data, A, C)
      /\ A[i] = u.inode[i].addrs /\ C \in [Inums -> 0..(MAXFILE + 1)]
      /\ u.used \subseteq DataBlocks /\ u.data \in [DataBlocks -> [Words -> Datum]]
      /\ u.dinode \in [Inums -> Inodes] /\ u.inode \in [Inums -> Inodes] /\ u \in FsType
  BY FitsType DEF Fits
<1>2. k \in Places /\ k # NDIRECT /\ k < C[i]
  <2>1. 0 \in 0..MAXFILE
    BY InodeConstants
  <2> QED
    BY <2>1, PlaceFacts
<1>3. x \in u.used /\ x \in DataBlocks
  BY <1>1, <1>2 DEF Layout
<1>4. t = [u EXCEPT !.data = D2]
  <2>1. Addr(u, i, bn) = x
    BY <1>1, AddrIs DEF Blocknums
  <2> HIDE DEF x
  <2>2. t = [u EXCEPT !.data[x] = [w \in Words |->
                 IF bn * BSIZE + w \in off..(off + n - 1) THEN v ELSE @[w]]]
    BY <2>1 DEF PutWords
  <2> QED
    BY <1>1, <2>2 DEF FsType
<1>5. row \in [Words -> Datum] /\ \A w \in Words :
         row[w] = IF bn * BSIZE + w \in off..(off + n - 1) THEN v ELSE u.data[x][w]
  <2>1. u.data[x] \in [Words -> Datum] /\ v \in Datum
    BY <1>1, <1>3 DEF Datum
  <2> HIDE DEF x
  <2> QED
    BY <2>1
<1> HIDE DEF x, row, A, k
<1>6. D2 \in [DataBlocks -> [Words -> Datum]] /\ D2[x] = row
      /\ \A c \in DataBlocks : c # x => D2[c] = u.data[c]
  BY <1>1, <1>3, <1>5
<1> HIDE DEF D2
<1>7. t.used = u.used /\ t.data = D2 /\ t.dinode = u.dinode /\ t.inode = u.inode /\ t \in FsType
  BY <1>1, <1>4, <1>6 DEF FsType
<1>8. AddrsWith(t, i) = A
  BY <1>7 DEF AddrsWith, A
<1>9. /\ Layout(u.used, D2, A, C)
      /\ \A j \in Inums, l \in Places : Num(D2, A[j], l) = Num(u.data, A[j], l)
  <2> DEFINE U == u.used
             D == u.data
  <2>1. /\ LayoutType(U, D, A, C) /\ Layout(U, D, A, C)
        /\ \A c \in DataBlocks : c # Num(D, A[i], k) => D2[c] = D[c]
    BY <1>1, <1>6 DEF x
  <2> HIDE DEF U, D
  <2>2. Layout(U, D2, A, C)
    BY <1>2, <2>1, DataOnly
  <2>3. \A j \in Inums, l \in Places : Num(D2, A[j], l) = Num(D, A[j], l)
    BY <1>2, <2>1, DataOnly
  <2> QED
    BY <2>2, <2>3 DEF U, D
<1>10. Fits(t, i, C)
  BY <1>1, <1>7, <1>8, <1>9 DEF Fits
<1>11. ASSUME NEW j \in Inums, NEW b \in Blocknums, NEW w \in Words, PlaceOf(b) < C[j]
       PROVE  Cell(t, i, j, b, w) = IF j = i /\ b = bn /\ bn * BSIZE + w \in off..(off + n - 1)
                                    THEN v ELSE Cell(u, i, j, b, w)
  <2> DEFINE l == PlaceOf(b)
             y == Num(u.data, A[j], l)
  <2>1. l \in Places /\ (l = k => b = bn)
    <3>1. 0 \in 0..MAXFILE
      BY InodeConstants
    <3> QED
      BY <3>1, PlaceFacts DEF k
  <2>2. Cell(t, i, j, b, w) = D2[y][w] /\ Cell(u, i, j, b, w) = u.data[y][w]
    BY <1>7, <1>8, <1>9, <2>1 DEF Cell, A
  <2>3. y \in DataBlocks
    BY <1>1, <1>11, <2>1 DEF Layout
  <2>4. y = x <=> j = i /\ b = bn
    <3>1. y = x => j = i /\ l = k
      BY <1>1, <1>2, <1>11, <2>1 DEF Layout, x
    <3>2. j = i /\ b = bn => y = x
      BY DEF x, k
    <3> QED
      BY <2>1, <3>1, <3>2
  <2> HIDE DEF y
  <2> QED
    BY <1>5, <1>6, <2>2, <2>3, <2>4
<1> QED
  BY <1>7, <1>10, <1>11 DEF PutCells

\* The blocks after k turns of the loop of writei() from block first on.
Far(n0, first, k) == IF first + k > n0 THEN first + k ELSE n0

\* What k turns have made of s: blocks are added, and the words of the blocks
\* before first + k are written.
Stored(s, t, i, C, n0, off, n, v, k) ==
    LET first == off \div BSIZE
        Reached(b, w) == b < first + k /\ b * BSIZE + w \in off..(off + n - 1)
    IN /\ Fits(t, i, Upto(C, i, Far(n0, first, k)))
       /\ OnlyAddrs(s, t, i)
       /\ first + k <= n0 => t.inode[i] = s.inode[i]
       /\ \A j \in Inums, b \in Blocknums, w \in Words : j # i /\ PlaceOf(b) < C[j] =>
             Cell(t, i, j, b, w) = Cell(s, i, j, b, w)
       /\ \A b \in Blocknums, w \in Words : b < Far(n0, first, k) =>
             /\ Reached(b, w) => Cell(t, i, i, b, w) = v
             /\ b < n0 /\ ~Reached(b, w) => Cell(t, i, i, b, w) = Cell(s, i, i, b, w)

\* A turn of the loop of writei().
LEMMA TurnIs ==
  ASSUME NEW s, NEW i \in Inums, NEW C, Fits(s, i, C), NEW n0 \in 0..MAXFILE, C[i] = PlacesOf(n0),
         NEW off \in Nat, NEW n \in Nat, NEW v \in Nat, off \div BSIZE \in 0..n0,
         NEW k \in Nat, k > 0, off \div BSIZE + k <= MAXFILE,
         off \div BSIZE + k > n0 => HasRoom(C, i, PlacesOf(off \div BSIZE + k)),
         NEW t, Stored(s, t, i, C, n0, off, n, v, k - 1),
         NEW bn, bn = off \div BSIZE + k - 1
  PROVE  Stored(s, PutWords(bmap(t, i, bn), i, bn, off, n, v), i, C, n0, off, n, v, k)
<1> DEFINE first == off \div BSIZE
           m == Far(n0, first, k - 1)
           m2 == Far(n0, first, k)
           C1 == Upto(C, i, m)
           C2 == Upto(C, i, m2)
           u == bmap(t, i, bn)
           z == PutWords(u, i, bn, off, n, v)
           In(b, w) == b * BSIZE + w \in off..(off + n - 1)
<1>1. first \in Nat /\ first <= n0 /\ first + k <= MAXFILE /\ bn = first + k - 1 /\ n0 \in Nat
  BY InodeConstants
<1>2. C \in [Inums -> 0..(MAXFILE + 1)]
  BY DEF Fits
<1>3. /\ Fits(t, i, C1) /\ OnlyAddrs(s, t, i)
      /\ first + (k - 1) <= n0 => t.inode[i] = s.inode[i]
      /\ \A j \in Inums, b \in Blocknums, w \in Words : j # i /\ PlaceOf(b) < C[j] =>
             Cell(t, i, j, b, w) = Cell(s, i, j, b, w)
      /\ \A b \in Blocknums, w \in Words : b < m =>
             /\ b < first + (k - 1) /\ In(b, w) => Cell(t, i, i, b, w) = v
             /\ b < n0 /\ ~(b < first + (k - 1) /\ In(b, w)) =>
                   Cell(t, i, i, b, w) = Cell(s, i, i, b, w)
  BY DEF Stored
<1> HIDE DEF first, In, u, z
<1>4. /\ m \in 0..MAXFILE /\ m2 \in 0..MAXFILE /\ bn \in 0..m /\ bn < MAXFILE /\ bn < m2
      /\ bn \in Blocknums
      /\ bn < m => m2 = m /\ first + k <= n0
      /\ bn = m => m2 = m + 1 /\ n0 <= bn
  BY <1>1, InodeConstants, SMTT(30) DEF Far, Blocknums
<1> HIDE DEF m, m2
<1>5. /\ C1[i] = PlacesOf(m) /\ C2[i] = PlacesOf(m2) /\ Upto(C1, i, m2) = C2
      /\ \A j \in Inums : j # i => C1[j] = C[j] /\ C2[j] = C[j]
  BY <1>2 DEF Upto
<1>18. bn = m => HasRoom(C1, i, PlacesOf(m + 1))
  <2>1. SUFFICES ASSUME bn = m PROVE HasRoom(C1, i, PlacesOf(m + 1))
    OBVIOUS
  <2>2. m + 1 = first + k /\ first + k > n0
    BY <1>1, <1>4, <2>1
  <2>3. HasRoom(C, i, PlacesOf(m + 1))
    BY <2>2 DEF first
  <2>4. C1 \in [Inums -> 0..(MAXFILE + 1)]
    BY <1>3 DEF Fits
  <2> HIDE DEF C1
  <2> QED
    BY <1>2, <1>5, <2>3, <2>4, RoomSame
<1> HIDE DEF C1, C2
<1>6. /\ bn < m => u = t
      /\ bn = m => Fits(u, i, Upto(C1, i, m + 1))
      /\ Kept(t, u, i, C1) /\ OnlyAddrs(t, u, i)
  <2>1. Fits(t, i, C1) /\ m \in 0..MAXFILE /\ C1[i] = PlacesOf(m) /\ bn \in 0..m /\ bn < MAXFILE
    BY <1>3, <1>4, <1>5
  <2> QED
    BY ONLY i \in Inums, <1>18, <2>1, BmapIs DEF u
<1>7. Fits(u, i, C2) /\ OnlyAddrs(s, u, i)
  <2>1. CASE bn < m
    <3>1. C2 = C1
      BY <1>4, <2>1 DEF C1, C2
    <3> QED
      BY <1>3, <1>6, <2>1, <3>1
  <2>2. CASE bn = m
    <3>1. Fits(u, i, C2)
      BY <1>4, <1>5, <1>6, <2>2
    <3> QED
      BY <1>3, <1>6, <3>1 DEF OnlyAddrs
  <2> QED
    BY <1>4, <2>1, <2>2
<1>8. \A j \in Inums, b \in Blocknums, w \in Words : PlaceOf(b) < C1[j] =>
         Cell(u, i, j, b, w) = Cell(t, i, j, b, w)
  <2>1. \A b \in Blocknums : PlaceOf(b) \in Places /\ PlaceOf(b) # NDIRECT
    BY <1>4, PlaceFacts
  <2> QED
    BY <1>6, <2>1 DEF Kept, Cell
<1>9. /\ Fits(z, i, C2) /\ z.dinode = u.dinode /\ z.inode = u.inode
      /\ \A j \in Inums, b \in Blocknums, w \in Words : PlaceOf(b) < C2[j] =>
            Cell(z, i, j, b, w) = IF j = i /\ b = bn /\ In(bn, w) THEN v ELSE Cell(u, i, j, b, w)
  <2>1. z = PutWords(u, i, bn, off, n, v)
    BY DEF z
  <2>2. /\ Fits(z, i, C2) /\ z.dinode = u.dinode /\ z.inode = u.inode
        /\ PutCells(u, z, i, C2, bn, off, n, v)
    <3>1. bn \in Blocknums /\ PlaceOf(bn) < C2[i] /\ Fits(u, i, C2)
      BY <1>4, <1>5, <1>7, PlaceFacts
    <3> QED
      BY ONLY i \in Inums, off \in Nat, n \in Nat, v \in Nat, <2>1, <3>1, PutIs, SMTT(30)
  <2> QED
    BY <2>2 DEF In, PutCells
<1>10. OnlyAddrs(s, z, i)
  BY <1>7, <1>9 DEF OnlyAddrs
<1>11. first + k <= n0 => z.inode[i] = s.inode[i]
  <2>1. first + k <= n0 => bn < m /\ first + (k - 1) <= n0
    BY <1>1, <1>4 DEF m, Far
  <2> QED
    BY <1>3, <1>6, <1>9, <2>1
<1>12. ASSUME NEW j \in Inums, NEW b \in Blocknums, NEW w \in Words, j # i, PlaceOf(b) < C[j]
       PROVE  Cell(z, i, j, b, w) = Cell(s, i, j, b, w)
  BY <1>3, <1>5, <1>8, <1>9, <1>12
<1>13. ASSUME NEW b \in Blocknums, NEW w \in Words, b < m2
       PROVE  /\ b < first + k /\ In(b, w) => Cell(z, i, i, b, w) = v
              /\ b < n0 /\ ~(b < first + k /\ In(b, w)) =>
                    Cell(z, i, i, b, w) = Cell(s, i, i, b, w)
  <2>1. PlaceOf(b) < C2[i] /\ (b < m <=> PlaceOf(b) < C1[i]) /\ b \in Nat
    <3>1. m \in 0..MAXFILE /\ m2 \in 0..MAXFILE
      BY <1>4
    <3>2. /\ PlaceOf(b) < PlacesOf(m) <=> b < m
          /\ PlaceOf(b) < PlacesOf(m2) <=> b < m2
          /\ b \in Nat
      BY ONLY b \in Blocknums, <3>1, PlaceFacts
    <3> QED
      BY <1>5, <1>13, <3>2
  <2>2. CASE b = bn
    <3>1. Cell(z, i, i, b, w) = IF In(b, w) THEN v ELSE Cell(u, i, i, b, w)
      BY <1>9, <2>1, <2>2
    <3>2. b < first + k /\ ~(b < first + (k - 1))
      BY <1>1, <2>2
    <3>3. b < n0 => b < m
      BY <1>1, <2>1 DEF m, Far
    <3>4. b < n0 => Cell(u, i, i, b, w) = Cell(s, i, i, b, w)
      BY <1>3, <1>8, <2>1, <3>2, <3>3
    <3> QED
      BY <3>1, <3>2, <3>4
  <2>3. CASE b # bn
    <3>1. Cell(z, i, i, b, w) = Cell(u, i, i, b, w)
      BY <1>9, <2>1, <2>3
    <3>2. b < first + k <=> b < first + (k - 1)
      BY ONLY k \in Nat, <1>1, <2>1, <2>3
    <3>3. b < m
      BY <1>1, <1>4, <1>13, <2>1, <2>3
    <3>4. Cell(u, i, i, b, w) = Cell(t, i, i, b, w)
      BY <1>8, <2>1, <3>3
    <3> QED
      BY <1>3, <3>1, <3>2, <3>3, <3>4
  <2> QED
    BY <2>2, <2>3
<1> QED
  BY <1>9, <1>10, <1>11, <1>12, <1>13 DEF Stored, first, In, m2, C2, z, u

\* Before the first turn nothing is written.
LEMMA StoredFirst ==
  ASSUME NEW s, NEW i \in Inums, NEW C, Fits(s, i, C), NEW n0 \in 0..MAXFILE, C[i] = PlacesOf(n0),
         NEW off \in Nat, NEW n \in Nat, NEW v \in Nat, off \div BSIZE \in 0..n0
  PROVE  Stored(s, s, i, C, n0, off, n, v, 0)
<1> DEFINE first == off \div BSIZE
           P == BSIZE
<1>1. P \in Nat \ {0} /\ first \in Nat /\ P * first <= off /\ n0 \in Nat /\ first <= n0
  <2>1. P \in Nat \ {0}
    BY InodeConstants
  <2> QED
    BY <2>1, DivIs, InodeConstants
<1>2. Words = 0..(P - 1)
  BY InodeConstants
<1> HIDE DEF first, P
<1>3. Far(n0, first, 0) = n0
  BY <1>1 DEF Far
<1>4. Upto(C, i, n0) = C
  <2>1. C \in [Inums -> 0..(MAXFILE + 1)]
    BY DEF Fits
  <2> QED
    BY <2>1 DEF Upto
<1>5. ASSUME NEW b \in Blocknums, NEW w \in Words, b < first + 0, b * P + w \in off..(off + n - 1)
      PROVE  FALSE
  <2>1. b \in Nat /\ w \in Nat /\ w < P /\ b + 1 <= first
    BY <1>1, <1>2, <1>5 DEF Blocknums
  <2>2. P * (b + 1) <= P * first
    BY <1>1, <2>1
  <2>3. P * (b + 1) = b * P + P /\ b * P \in Nat
    BY <1>1, <2>1
  <2> QED
    BY <1>1, <1>5, <2>1, <2>2, <2>3
<1>6. OnlyAddrs(s, s, i)
  BY DEF OnlyAddrs
<1> QED
  BY <1>3, <1>4, <1>5, <1>6 DEF Stored, first, P

\* f is the loop of writei().
WriteLoop(f, s, i, off, n, v) ==
    f = [k \in 0..Turns(off, n) |->
           IF k = 0 THEN s
           ELSE PutWords(bmap(f[k - 1], i, off \div BSIZE + k - 1), i, off \div BSIZE + k - 1,
                         off, n, v)]

\* What the loop of writei() does.
LEMMA WrittenIs ==
  ASSUME NEW s, NEW i \in Inums, NEW C, Fits(s, i, C), NEW n0 \in 0..MAXFILE, C[i] = PlacesOf(n0),
         NEW off \in Nat, NEW n \in Nat, NEW v \in Nat, off \div BSIZE \in 0..n0,
         Turns(off, n) \in Nat, off \div BSIZE + Turns(off, n) <= MAXFILE,
         off \div BSIZE + Turns(off, n) > n0 =>
            HasRoom(C, i, PlacesOf(off \div BSIZE + Turns(off, n)))
  PROVE  Stored(s, Written(s, i, off, n, v), i, C, n0, off, n, v, Turns(off, n))
<1> DEFINE m == Turns(off, n)
           first == off \div BSIZE
           G(k, t) == PutWords(bmap(t, i, first + k - 1), i, first + k - 1, off, n, v)
           g == [x \in (1..m) \X FsType |->
                   IF G(x[1], x[2]) \in FsType THEN G(x[1], x[2]) ELSE x[2]]
           St(t, k) == Stored(s, t, i, C, n0, off, n, v, k)
<1>1. Written(s, i, off, n, v) = (CHOOSE f : WriteLoop(f, s, i, off, n, v))[m]
  BY DEF Written, WriteLoop
<1>2. s \in FsType /\ m \in Nat /\ first \in Nat /\ first + m <= MAXFILE
  BY InodeConstants DEF Fits
<1>3. g \in [(1..m) \X FsType -> FsType]
  OBVIOUS
<1>4. St(s, 0)
  BY StoredFirst
<1>5. ASSUME NEW k \in 1..m, NEW t, St(t, k - 1)
      PROVE  St(G(k, t), k)
  <2>1. k \in Nat /\ k > 0 /\ first + k <= MAXFILE
    BY <1>2, InodeConstants
  <2>4. off \div BSIZE + k > n0 => HasRoom(C, i, PlacesOf(off \div BSIZE + k))
    <3>1. SUFFICES ASSUME first + k > n0 PROVE HasRoom(C, i, PlacesOf(first + k))
      OBVIOUS
    <3>2. first + m > n0 /\ HasRoom(C, i, PlacesOf(first + m))
      BY <1>2, <3>1
    <3>3. /\ PlacesOf(first + m) \in Nat /\ PlacesOf(first + k) \in Nat
          /\ PlacesOf(first + k) <= PlacesOf(first + m)
      BY <1>2, InodeConstants, SMTT(30) DEF PlacesOf
    <3>4. C \in [Inums -> 0..(MAXFILE + 1)]
      BY DEF Fits
    <3> HIDE DEF first, m
    <3> QED
      BY <3>2, <3>3, <3>4, RoomLess
  <2> DEFINE bn == first + k - 1
  <2>2. bn = off \div BSIZE + k - 1
    OBVIOUS
  <2> HIDE DEF bn
  <2>3. Stored(s, PutWords(bmap(t, i, bn), i, bn, off, n, v), i, C, n0, off, n, v, k)
    BY <1>5, <2>1, <2>2, <2>4, TurnIs
  <2> QED
    BY <2>3 DEF bn
<1>6. \A t, k : St(t, k) => t \in FsType
  BY DEF Stored, Fits
<1>7. PICK f \in [0..m -> FsType] : Run(f, m, s, g)
  <2> HIDE DEF g, m
  <2> QED
    BY <1>2, <1>3, LoopType
<1>8. \A k \in 0..m : f[k] = IF k = 0 THEN s ELSE g[<<k, f[k - 1]>>]
  <2> HIDE DEF g
  <2> QED
    BY <1>7 DEF Run
<1> HIDE DEF St, G, m
<1>9. ASSUME NEW k \in 1..m, St(f[k - 1], k - 1)
      PROVE  f[k] = G(k, f[k - 1]) /\ St(f[k], k)
  <2>1. St(G(k, f[k - 1]), k)
    BY <1>5, <1>9
  <2>2. G(k, f[k - 1]) \in FsType /\ f[k - 1] \in FsType
    BY <1>2, <1>6, <1>9, <2>1
  <2>3. k \in 0..m /\ k # 0 /\ <<k, f[k - 1]>> \in (1..m) \X FsType
    BY <1>2, <2>2
  <2>4. f[k] = G(k, f[k - 1])
    BY <1>8, <2>2, <2>3
  <2> QED
    BY <2>1, <2>4
<1>10. ASSUME NEW l \in 0..m
       PROVE  St(f[l], l)
  <2> DEFINE S == {k \in 0..m : St(f[k], k)}
  <2>1. 0 \in S
    <3>1. 0 \in 0..m
      BY <1>2
    <3>2. f[0] = s
      BY <1>8, <3>1
    <3> QED
      BY <1>4, <3>1, <3>2
  <2>2. ASSUME NEW k \in 1..l, k - 1 \in S
        PROVE  k \in S
    BY <1>2, <1>9, <2>2
  <2>3. l \in S
    <3> HIDE DEF S
    <3> QED
      BY <1>2, <2>1, <2>2, Counting
  <2> QED
    BY <2>3
<1>11. WriteLoop(f, s, i, off, n, v)
  <2>1. ASSUME NEW k \in 0..m
        PROVE  f[k] = IF k = 0 THEN s ELSE G(k, f[k - 1])
    <3>1. CASE k = 0
      BY <1>8, <3>1
    <3>2. CASE k # 0
      <4>1. k \in 1..m /\ k - 1 \in 0..m
        BY <1>2, <3>2
      <4> QED
        BY <1>9, <1>10, <3>2, <4>1
    <3> QED
      BY <3>1, <3>2
  <2>2. f = [k \in 0..m |-> f[k]]
    OBVIOUS
  <2> QED
    BY <2>1, <2>2 DEF WriteLoop, G, m
<1>12. PICK h : WriteLoop(h, s, i, off, n, v) /\ Written(s, i, off, n, v) = h[m]
  BY <1>1, <1>11
<1>13. \A k \in 0..m : h[k] = IF k = 0 THEN s ELSE G(k, h[k - 1])
  BY <1>12 DEF WriteLoop, G, m
<1>14. St(h[m], m)
  <2> DEFINE S == {k \in 0..m : St(h[k], k)}
  <2>1. 0 \in S
    BY <1>2, <1>4, <1>13
  <2>2. ASSUME NEW k \in 1..m, k - 1 \in S
        PROVE  k \in S
    <3>1. k \in 0..m /\ k # 0 /\ St(h[k - 1], k - 1)
      BY <1>2, <2>2
    <3>2. h[k] = G(k, h[k - 1])
      BY <1>13, <3>1
    <3> QED
      BY <1>5, <3>1, <3>2
  <2>3. m \in S
    <3> HIDE DEF S
    <3> QED
      BY <1>2, <2>1, <2>2, Counting
  <2> QED
    BY <2>3
<1> QED
  BY <1>12, <1>14 DEF St, m

\* The disk is in order, and the copy of inode i in memory is that of the disk.
Solid(s) == s \in FsType /\ Layout(s.used, s.data, Addrs(s.dinode), PlaceCounts(s.dinode))
Same(s, i) == s.inode[i] = s.dinode[i]

\* Word x of inode j, on the disk.
Word(s, j, x) == s.data[Num(s.data, s.dinode[j].addrs, PlaceOf(x \div BSIZE))][x % BSIZE]

\* A disk in order fits, seen from an inode whose copy in memory is good.
LEMMA SolidFits ==
  ASSUME NEW s, Solid(s), NEW i \in Inums, Same(s, i)
  PROVE  /\ Fits(s, i, PlaceCounts(s.dinode))
         /\ AddrsWith(s, i) = Addrs(s.dinode)
         /\ s.dinode[i].size \in 0..(MAXFILE * BSIZE)
         /\ BlocksFor(s.dinode[i].size) \in 0..MAXFILE
         /\ PlaceCounts(s.dinode)[i] = PlacesOf(BlocksFor(s.dinode[i].size))
<1>1. s.dinode \in [Inums -> Inodes] /\ s.inode \in [Inums -> Inodes]
  BY DEF Solid, FsType
<1>2. \A j \in Inums : s.dinode[j].size \in 0..(MAXFILE * BSIZE)
  BY <1>1 DEF Inodes
<1>3. PlaceCounts(s.dinode) \in [Inums -> 0..(MAXFILE + 1)]
  BY <1>2, BlocksForBound DEF PlaceCounts
<1>4. AddrsWith(s, i) = Addrs(s.dinode)
  BY DEF AddrsWith, Addrs, Same
<1> QED
  BY <1>2, <1>3, <1>4, BlocksForBound DEF Fits, Solid, PlaceCounts

\* The turns of the loop reach the block of the last word.
LEMMA TurnsIs ==
  ASSUME NEW off \in Nat, NEW n \in Nat
  PROVE  /\ Turns(off, n) \in Nat
         /\ n = 0 => Turns(off, n) = 0
         /\ n > 0 => off \div BSIZE + Turns(off, n) = BlocksFor(off + n)
<1>1. CASE n = 0
  BY <1>1 DEF Turns
<1>2. CASE n > 0
  <2>1. BSIZE \in Nat \ {0} /\ off + n \in Nat /\ off + n > 0 /\ off + n - 1 \in Nat
        /\ off <= off + n - 1
    BY <1>2, InodeConstants
  <2> DEFINE q == off \div BSIZE
             e == (off + n - 1) \div BSIZE
  <2>2. q \in Nat /\ e \in Nat
    BY <2>1, DivIs
  <2>3. q <= e
    BY <2>1, DivLess
  <2>4. BlocksFor(off + n) = e + 1
    BY <2>1, BlocksForIs
  <2>5. Turns(off, n) = e - q + 1
    BY <1>2 DEF Turns
  <2> HIDE DEF q, e
  <2>6. Turns(off, n) \in Nat /\ q + Turns(off, n) = BlocksFor(off + n)
    BY <2>2, <2>3, <2>4, <2>5
  <2> QED
    BY <1>2, <2>6 DEF q
<1> QED
  BY <1>1, <1>2

\* Of the inodes only i has changed, and not its name.
OnlyInode(s, r, i) ==
    /\ \A j \in Inums : j # i => r.inode[j] = s.inode[j] /\ r.dinode[j] = s.dinode[j]
    /\ r.dinode[i].nlink = s.dinode[i].nlink /\ r.dinode[i].used = s.dinode[i].used

\* n words v have been put at off into inode i, and the other words are kept.
WordsPut(s, r, i, off, n, v) ==
    /\ \A j \in Inums, x \in Nat : j # i /\ x < s.dinode[j].size =>
          Word(r, j, x) = Word(s, j, x)
    /\ r.dinode[i].size = IF n > 0 /\ off + n > s.dinode[i].size THEN off + n
                          ELSE s.dinode[i].size
    /\ \A x \in Nat : x < r.dinode[i].size =>
          Word(r, i, x) = IF x \in off..(off + n - 1) THEN v ELSE Word(s, i, x)

\* A word of a file is in one of its blocks.
LEMMA WordCell ==
  ASSUME NEW z \in 0..(MAXFILE * BSIZE), NEW x \in Nat, x < z,
         NEW b, b = x \div BSIZE, NEW w, w = x % BSIZE
  PROVE  /\ b \in Blocknums /\ w \in Words /\ b * BSIZE + w = x
         /\ b < BlocksFor(z) /\ PlaceOf(b) < PlacesOf(BlocksFor(z))
<1>1. b \in Nat /\ w \in Words /\ b * BSIZE + w = x
  BY WordAt
<1>2. z \in Nat
  BY InodeConstants
<1>3. b < BlocksFor(z)
  BY <1>2, BlocksForOrder
<1>4. BlocksFor(z) \in 0..MAXFILE
  BY BlocksForBound
<1>5. b \in Blocknums
  BY <1>1, <1>3, <1>4, InodeConstants DEF Blocknums
<1> QED
  BY <1>1, <1>3, <1>4, <1>5, PlaceFacts

\* What the loop has stored is what the words of the file are then.
LEMMA WordsStored ==
  ASSUME NEW s, Solid(s), NEW i \in Inums, Same(s, i), NEW t, NEW n0, NEW m \in Nat,
         NEW off \in Nat, NEW n \in Nat, NEW v \in Nat, off <= s.dinode[i].size,
         n0 = BlocksFor(s.dinode[i].size),
         Stored(s, t, i, PlaceCounts(s.dinode), n0, off, n, v, m),
         n > 0 => off \div BSIZE + m = BlocksFor(off + n),
         NEW r, r.data = t.data, Addrs(r.dinode) = AddrsWith(t, i),
         r.dinode[i].size = IF n > 0 /\ off + n > s.dinode[i].size THEN off + n
                            ELSE s.dinode[i].size,
         r.dinode[i].size \in 0..(MAXFILE * BSIZE)
  PROVE  WordsPut(s, r, i, off, n, v)
<1> DEFINE C == PlaceCounts(s.dinode)
           z == s.dinode[i].size
           first == off \div BSIZE
<1>1. /\ AddrsWith(s, i) = Addrs(s.dinode) /\ z \in 0..(MAXFILE * BSIZE) /\ z \in Nat
      /\ n0 \in 0..MAXFILE /\ C[i] = PlacesOf(n0) /\ first \in Nat
  <2>1. /\ AddrsWith(s, i) = Addrs(s.dinode) /\ z \in 0..(MAXFILE * BSIZE)
        /\ n0 \in 0..MAXFILE /\ C[i] = PlacesOf(n0)
    BY SolidFits
  <2>2. z \in Nat /\ first \in Nat
    BY <2>1, InodeConstants, DivIs
  <2> QED
    BY <2>1, <2>2
<1>2. \A j \in Inums : s.dinode[j].size \in 0..(MAXFILE * BSIZE)
  BY DEF Solid, FsType, Inodes
<1>3. \A j \in Inums : s.dinode[j].addrs = AddrsWith(s, i)[j] /\ r.dinode[j].addrs = AddrsWith(t, i)[j]
  <2>1. \A j \in Inums : s.dinode[j].addrs = Addrs(s.dinode)[j] /\ r.dinode[j].addrs = Addrs(r.dinode)[j]
    BY DEF Addrs
  <2> QED
    BY <1>1, <2>1
<1>4. \A j \in Inums, x \in Nat :
         /\ Word(s, j, x) = Cell(s, i, j, x \div BSIZE, x % BSIZE)
         /\ Word(r, j, x) = Cell(t, i, j, x \div BSIZE, x % BSIZE)
  BY <1>3 DEF Word, Cell
<1>5. ASSUME NEW j \in Inums, NEW x \in Nat, j # i, x < s.dinode[j].size
      PROVE  Word(r, j, x) = Word(s, j, x)
  <2> DEFINE b == x \div BSIZE
             w == x % BSIZE
  <2>1. b \in Blocknums /\ w \in Words /\ PlaceOf(b) < PlacesOf(BlocksFor(s.dinode[j].size))
    BY <1>2, <1>5, WordCell
  <2>2. PlaceOf(b) < C[j]
    BY <2>1 DEF PlaceCounts
  <2> HIDE DEF b, w, C
  <2>3. Cell(t, i, j, b, w) = Cell(s, i, j, b, w)
    BY <1>5, <2>1, <2>2 DEF Stored, C
  <2> QED
    BY <1>4, <2>3 DEF b, w
<1>6. ASSUME NEW x \in Nat, x < r.dinode[i].size
      PROVE  Word(r, i, x) = IF x \in off..(off + n - 1) THEN v ELSE Word(s, i, x)
  <2> DEFINE b == x \div BSIZE
             w == x % BSIZE
  <2>1. b \in Blocknums /\ w \in Words /\ b * BSIZE + w = x /\ b \in Nat
    BY <1>6, WordCell DEF Blocknums
  <2>2. b < Far(n0, first, m) =>
        /\ b < first + m /\ b * BSIZE + w \in off..(off + n - 1) => Cell(t, i, i, b, w) = v
        /\ b < n0 /\ ~(b < first + m /\ b * BSIZE + w \in off..(off + n - 1)) =>
              Cell(t, i, i, b, w) = Cell(s, i, i, b, w)
    <3> HIDE DEF b, w
    <3> QED
      BY <2>1 DEF Stored
  <2>3. CASE x \in off..(off + n - 1)
    <3>1. x < off + n /\ n > 0 /\ off + n \in Nat
      BY <2>3
    <3>2. b < BlocksFor(off + n)
      BY <3>1, BlocksForOrder
    <3>3. b < first + m
      BY <3>1, <3>2
    <3>4. b < Far(n0, first, m)
      <4> HIDE DEF b, first
      <4> QED
        BY <1>1, <2>1, <3>3 DEF Far
    <3>5. Cell(t, i, i, b, w) = v
      BY <2>1, <2>2, <2>3, <3>3, <3>4
    <3> QED
      BY <1>4, <2>3, <3>5
  <2>4. CASE x \notin off..(off + n - 1)
    <3>1. x < z
      BY <1>1, <1>6, <2>4
    <3>2. b < n0
      BY <1>1, <3>1, BlocksForOrder
    <3>3. b < Far(n0, first, m)
      <4> HIDE DEF b, first
      <4> QED
        BY <1>1, <2>1, <3>2 DEF Far
    <3>4. Cell(t, i, i, b, w) = Cell(s, i, i, b, w)
      BY <2>1, <2>2, <2>4, <3>2, <3>3
    <3> QED
      BY <1>4, <2>4, <3>4
  <2> QED
    BY <2>3, <2>4
<1> QED
  BY <1>5, <1>6 DEF WordsPut

\* The blocks of an inode are those in its first places.
LEMMA SolidBlocks ==
  ASSUME NEW s, Solid(s), NEW i \in Inums, NEW d, d.used = s.used, d.data = s.data,
         d.inode[i] = s.dinode[i]
  PROVE  /\ BlocksOf(d, i) = TakenBy(s.data, Addrs(s.dinode), PlaceCounts(s.dinode), i)
         /\ Cardinality(BlocksOf(d, i)) = PlaceCounts(s.dinode)[i]
<1> DEFINE e == [s EXCEPT !.inode = s.dinode]
           C == PlaceCounts(s.dinode)
<1>1. s.used \subseteq DataBlocks /\ s.data \in [DataBlocks -> [Words -> Datum]]
      /\ s.dinode \in [Inums -> Inodes]
  BY DEF Solid, FsType
<1>2. e.used = s.used /\ e.data = s.data /\ e.inode = s.dinode /\ e.dinode = s.dinode
      /\ e \in FsType
  BY DEF Solid, FsType
<1>3. \A j \in Inums : s.dinode[j].size \in 0..(MAXFILE * BSIZE)
                       /\ s.dinode[j].addrs \in [0..NDIRECT -> DataBlocks \cup {0}]
  BY <1>1 DEF Inodes
<1>4. C \in [Inums -> 0..(MAXFILE + 1)]
  BY <1>3, BlocksForBound DEF PlaceCounts
<1>5. Addrs(s.dinode) \in [Inums -> [0..NDIRECT -> DataBlocks \cup {0}]]
      /\ Addrs(s.dinode)[i] = s.dinode[i].addrs
  BY <1>3 DEF Addrs
<1> HIDE DEF e, C
<1>6. LayoutType(e.used, e.data, Addrs(e.inode), C)
  BY <1>1, <1>2, <1>4, <1>5 DEF LayoutType
<1>7. Layout(e.used, e.data, Addrs(e.inode), C)
  BY <1>2 DEF Solid, C
<1>8. /\ BlocksOf(e, i) = {Num(e.data, e.inode[i].addrs, k) : k \in {l \in Places : l < C[i]}}
      /\ Cardinality(BlocksOf(e, i)) = C[i]
  BY <1>6, <1>7, BlocksOfIs
<1>9. BlocksOf(d, i) = BlocksOf(e, i)
  BY <1>2 DEF BlocksOf, Indirect
<1>10. \A k : Num(e.data, e.inode[i].addrs, k) = Num(s.data, Addrs(s.dinode)[i], k)
  BY <1>2, <1>5
<1> QED
  BY <1>8, <1>9, <1>10 DEF C, TakenBy

\* What the guard of a write says of the places.
LEMMA RoomIs ==
  ASSUME NEW s, Solid(s), NEW i \in Inums, Same(s, i), NEW z, Room(s, i, z),
         BlocksFor(z) \in 0..MAXFILE, PlaceCounts(s.dinode)[i] <= PlacesOf(BlocksFor(z))
  PROVE  HasRoom(PlaceCounts(s.dinode), i, PlacesOf(BlocksFor(z)))
<1> DEFINE C == PlaceCounts(s.dinode)
           A == Addrs(s.dinode)
           U == s.used
           m == PlacesOf(BlocksFor(z))
           I == C[i]..(m - 1)
           E == {<<i, k>> : k \in I}
           g == [k \in I |-> <<i, k>>]
           f == [q \in TakenPlaces(C) |-> Num(s.data, A[q[1]], q[2])]
           P == TakenPlaces([C EXCEPT ![i] = m])
<1>1. Fits(s, i, C) /\ AddrsWith(s, i) = A
  BY SolidFits
<1>2. Cardinality(BlocksOf(s, i)) = C[i]
  BY SolidBlocks DEF Same
<1>3. /\ C \in [Inums -> 0..(MAXFILE + 1)] /\ C[i] \in Nat /\ m \in Nat /\ C[i] <= m
      /\ Layout(U, s.data, A, C) /\ U \subseteq DataBlocks
  <2>1. C \in [Inums -> 0..(MAXFILE + 1)] /\ Layout(U, s.data, A, C) /\ U \subseteq DataBlocks
    BY <1>1 DEF Fits, FsType
  <2>2. m \in Nat
    BY InodeConstants DEF PlacesOf
  <2> HIDE DEF C, m
  <2> QED
    BY <2>1, <2>2, InodeConstants DEF C, m
<1>4. m <= C[i] + Cardinality(DataBlocks \ U)
  BY <1>2 DEF Room
<1> HIDE DEF C, A, U, m
<1>5. P \subseteq TakenPlaces(C) \cup E
  <2>1. ASSUME NEW q \in P
        PROVE  q \in TakenPlaces(C) \cup E
    <3>1. PICK j \in Inums, k \in Places : q = <<j, k>>
      BY DEF TakenPlaces
    <3>2. k \in Nat /\ k < [C EXCEPT ![i] = m][j]
      BY <3>1, InodeConstants DEF TakenPlaces, Places
    <3>3. CASE j # i
      <4>1. k < C[j]
        BY <1>3, <3>2, <3>3
      <4> QED
        BY <3>1, <4>1 DEF TakenPlaces
    <3>4. CASE j = i
      <4>1. k < m
        BY <1>3, <3>2, <3>4
      <4>2. k < C[i] \/ k \in I
        BY <1>3, <3>2, <4>1
      <4>3. CASE k < C[i]
        BY <3>1, <3>4, <4>3 DEF TakenPlaces
      <4>4. CASE k \in I
        BY <3>1, <3>4, <4>4
      <4> QED
        BY <4>2, <4>3, <4>4
    <3> QED
      BY <3>3, <3>4
  <2> QED
    BY <2>1
<1>6. IsFiniteSet(E) /\ Cardinality(E) \in Nat /\ Cardinality(E) <= m - C[i]
  <2>1. IsFiniteSet(I) /\ Cardinality(I) = m - C[i]
    <3>1. C[i] \in Int /\ m - 1 \in Int
      BY <1>3
    <3>2. IsFiniteSet(I) /\ Cardinality(I) = IF C[i] > m - 1 THEN 0 ELSE m - 1 - C[i] + 1
      BY <3>1, FS_Interval
    <3> QED
      BY <1>3, <3>2
  <2>2. g \in Surjection(I, E)
    <3>1. g \in [I -> E]
      OBVIOUS
    <3>2. \A e \in E : \E k \in I : g[k] = e
      OBVIOUS
    <3> HIDE DEF g, E, I
    <3> QED
      BY <3>1, <3>2 DEF Surjection
  <2> HIDE DEF g, E, I
  <2>3. IsFiniteSet(E) /\ Cardinality(E) <= Cardinality(I)
    BY <2>1, <2>2, FS_Surjection
  <2> QED
    BY <2>1, <2>3, FS_CardinalityType
<1>7. IsFiniteSet(TakenPlaces(C)) /\ Cardinality(TakenPlaces(C)) \in Nat
  BY TakenFinite
<1>8. IsFiniteSet(DataBlocks) /\ IsFiniteSet(U) /\ Cardinality(U) \in Nat /\ Cardinality(DataBlocks) \in Nat
  BY <1>3, InodeConstants, FS_Subset, FS_CardinalityType
<1>9. Cardinality(TakenPlaces(C)) <= Cardinality(U)
  <2>1. f \in [TakenPlaces(C) -> U]
    BY <1>3 DEF Layout, TakenPlaces
  <2>2. ASSUME NEW q \in TakenPlaces(C), NEW r \in TakenPlaces(C), f[q] = f[r]
        PROVE  q = r
    <3>1. PICK j \in Inums, k \in Places : q = <<j, k>> /\ k < C[j]
      BY DEF TakenPlaces
    <3>2. PICK jj \in Inums, kk \in Places : r = <<jj, kk>> /\ kk < C[jj]
      BY DEF TakenPlaces
    <3>3. Num(s.data, A[j], k) = Num(s.data, A[jj], kk)
      BY <2>2, <3>1, <3>2
    <3>4. j = jj /\ k = kk
      BY <1>3, <3>1, <3>2, <3>3 DEF Layout
    <3> QED
      BY <3>1, <3>2, <3>4
  <2> HIDE DEF f
  <2>3. f \in Injection(TakenPlaces(C), U)
    BY <2>1, <2>2 DEF Injection, IsInjective
  <2> QED
    BY <1>8, <2>3, FS_Injection
<1>10. Cardinality(DataBlocks \ U) = Cardinality(DataBlocks) - Cardinality(U)
  <2>1. DataBlocks \cap U = U
    BY <1>3
  <2> QED
    BY <1>8, <2>1, FS_Difference
<1>11. Cardinality(P) <= Cardinality(TakenPlaces(C)) + Cardinality(E)
  <2> DEFINE X == TakenPlaces(C) \cup E
             Y == TakenPlaces(C) \cap E
  <2> HIDE DEF E, P
  <2>1. IsFiniteSet(X) /\ Cardinality(X) = Cardinality(TakenPlaces(C)) + Cardinality(E) - Cardinality(Y)
    BY <1>6, <1>7, FS_Union
  <2>2. IsFiniteSet(Y)
    BY <1>7, FS_Intersection
  <2>3. Cardinality(Y) \in Nat /\ Cardinality(X) \in Nat
    BY <2>1, <2>2, FS_CardinalityType
  <2>4. Cardinality(P) <= Cardinality(X) /\ Cardinality(P) \in Nat
    BY <1>5, <2>1, FS_Subset, FS_CardinalityType
  <2> HIDE DEF X, Y
  <2> QED
    BY <1>6, <1>7, <2>1, <2>3, <2>4
<1>12. Cardinality(P) \in Nat
  BY TakenFinite
<1> HIDE DEF P, E
<1>13. Cardinality(P) <= Cardinality(DataBlocks)
  BY <1>3, <1>4, <1>6, <1>7, <1>8, <1>9, <1>10, <1>11, <1>12
<1> QED
  BY <1>13 DEF HasRoom, P, C, m

\* writei() keeps the disk in order, and writes what it should.
LEMMA WriteiIs ==
  ASSUME NEW s, Solid(s), NEW i \in Inums, Same(s, i),
         NEW off \in Nat, NEW n \in Nat, NEW v \in Nat, ~WriteFails(s, i, off, n),
         Room(s, i, off + n), NEW r, r = writei(s, i, off, n, v)
  PROVE  /\ Solid(r) /\ Same(r, i) /\ OnlyInode(s, r, i)
         /\ WordsPut(s, r, i, off, n, v)
<1> DEFINE C == PlaceCounts(s.dinode)
           z == s.dinode[i].size
           n0 == BlocksFor(z)
           first == off \div BSIZE
           m == Turns(off, n)
           t == Written(s, i, off, n, v)
<1>1. /\ Fits(s, i, C) /\ z \in 0..(MAXFILE * BSIZE)
      /\ n0 \in 0..MAXFILE /\ C[i] = PlacesOf(n0)
  BY SolidFits
<1>2. z \in Nat /\ first \in Nat /\ MAXFILE \in Nat /\ MAXFILE * BSIZE \in Nat
  <2>1. MAXFILE * BSIZE \in Nat
    BY InodeConstants
  <2>2. first \in Nat
    BY InodeConstants, DivIs
  <2> QED
    BY <1>1, <2>1, <2>2, InodeConstants
<1>3. off <= z /\ off + n <= MAXFILE * BSIZE /\ s.inode[i].size = z
  <2>1. s.inode[i].size = z
    BY DEF Same
  <2> QED
    BY <1>2, <2>1 DEF WriteFails
<1>4. first \in 0..n0
  BY <1>1, <1>2, <1>3, BlocksForOrder
<1>5. m \in Nat /\ (n = 0 => m = 0) /\ (n > 0 => first + m = BlocksFor(off + n))
  BY TurnsIs
<1>6. off + n \in 0..(MAXFILE * BSIZE)
  BY <1>2, <1>3
<1>7. BlocksFor(off + n) \in 0..MAXFILE
  BY <1>6, BlocksForBound
<1>8. first + m <= MAXFILE
  <2> HIDE DEF first, m, n0
  <2> QED
    BY <1>1, <1>2, <1>4, <1>5, <1>7
<1>9. Stored(s, t, i, C, n0, off, n, v, m)
  <2>1. first + m > n0 => HasRoom(C, i, PlacesOf(first + m))
    <3>1. SUFFICES ASSUME first + m > n0 PROVE HasRoom(C, i, PlacesOf(first + m))
      OBVIOUS
    <3>2. n > 0
      <4> HIDE DEF first, m, n0
      <4> QED
        BY <1>1, <1>2, <1>4, <1>5, <3>1
    <3>3. HasRoom(C, i, PlacesOf(BlocksFor(off + n)))
      <4>1. /\ off + n \in 0..(MAXFILE * BSIZE)
        BY <1>6
      <4>2. PlacesOf(n0) <= PlacesOf(BlocksFor(off + n))
        <5> DEFINE y == BlocksFor(off + n)
        <5>1. y \in 0..MAXFILE /\ n0 \in 0..MAXFILE /\ y > n0
          <6> HIDE DEF first, m, n0
          <6> QED
            BY <1>1, <1>5, <1>7, <3>1, <3>2
        <5> HIDE DEF y, n0
        <5>2. y \in Nat /\ n0 \in Nat /\ NDIRECT \in Nat /\ n0 < y
          BY <5>1, InodeConstants
        <5>3. PlacesOf(n0) <= PlacesOf(y)
          BY ONLY <5>2 DEF PlacesOf
        <5> QED
          BY <5>3 DEF y
      <4> QED
        BY <1>1, <1>7, <4>1, <4>2, RoomIs
    <3> QED
      BY <1>5, <3>2, <3>3
  <2> HIDE DEF C, n0
  <2> QED
    BY <1>1, <1>4, <1>5, <1>8, <2>1, WrittenIs
<1> HIDE DEF C, n0, first, m, t
<1>10. Fits(t, i, Upto(C, i, Far(n0, first, m))) /\ OnlyAddrs(s, t, i)
       /\ (first + m <= n0 => t.inode[i] = s.inode[i])
  BY <1>9 DEF Stored, first
<1>11. /\ t \in FsType /\ Layout(t.used, t.data, AddrsWith(t, i), Upto(C, i, Far(n0, first, m)))
       /\ t.used \subseteq DataBlocks /\ t.data \in [DataBlocks -> [Words -> Datum]]
       /\ t.dinode \in [Inums -> Inodes] /\ t.inode \in [Inums -> Inodes]
  BY <1>10 DEF Fits, FsType
<1>12. CASE n > 0 /\ off + n > z
  <2>1. r = iupdate([t EXCEPT !.inode[i].size = off + n], i)
    BY <1>3, <1>12 DEF writei, t
  <2> DEFINE new == [t.inode[i] EXCEPT !.size = off + n]
  <2>2. new \in Inodes /\ new.addrs = t.inode[i].addrs /\ new.size = off + n
        /\ new.nlink = t.inode[i].nlink /\ new.used = t.inode[i].used
    <3>1. t.inode[i] \in Inodes
      BY <1>11
    <3> QED
      BY <1>6, <3>1 DEF Inodes
  <2>3. /\ r.used = t.used /\ r.data = t.data
        /\ r.inode = [t.inode EXCEPT ![i] = new]
        /\ r.dinode = [t.dinode EXCEPT ![i] = new]
        /\ r = [used |-> r.used, data |-> r.data, dinode |-> r.dinode, inode |-> r.inode]
    BY <1>11, <2>1 DEF iupdate, FsType
  <2> HIDE DEF new
  <2>4. r \in FsType
    <3>1. r.inode \in [Inums -> Inodes] /\ r.dinode \in [Inums -> Inodes]
      BY <1>11, <2>2, <2>3
    <3> QED
      BY <1>11, <2>3, <3>1 DEF FsType
  <2>5. r.inode[i] = new /\ r.dinode[i] = new
        /\ \A j \in Inums : j # i => r.inode[j] = t.inode[j] /\ r.dinode[j] = t.dinode[j]
    BY <1>11, <2>3
  <2>6. Addrs(r.dinode) = AddrsWith(t, i)
    BY <2>2, <2>5 DEF Addrs, AddrsWith
  <2>7. Far(n0, first, m) = BlocksFor(off + n)
    <3>1. n0 <= BlocksFor(off + n)
      BY <1>2, <1>12, BlocksForOrder DEF n0
    <3> QED
      BY <1>1, <1>5, <1>7, <1>12, <3>1 DEF Far
  <2>8. PlaceCounts(r.dinode) = Upto(C, i, Far(n0, first, m))
    <3>1. \A j \in Inums : j # i => r.dinode[j] = s.dinode[j]
      BY <1>10, <2>5 DEF OnlyAddrs
    <3>2. r.dinode[i].size = off + n
      BY <2>2, <2>5
    <3> QED
      BY <2>7, <3>1, <3>2 DEF PlaceCounts, Upto, C
  <2>9. Solid(r) /\ Same(r, i)
    BY <1>11, <2>3, <2>4, <2>5, <2>6, <2>8 DEF Solid, Same
  <2>10. OnlyInode(s, r, i)
    BY <1>10, <2>2, <2>5 DEF OnlyInode, OnlyAddrs, Same
  <2>11. WordsPut(s, r, i, off, n, v)
    <3>1. r.data = t.data /\ r.dinode[i].size \in 0..(MAXFILE * BSIZE)
          /\ r.dinode[i].size = IF n > 0 /\ off + n > z THEN off + n ELSE z
      BY <1>6, <1>12, <2>2, <2>3, <2>5
    <3> QED
      BY <1>3, <1>5, <1>9, <2>6, <3>1, WordsStored DEF n0, C, first
  <2> QED
    BY <2>9, <2>10, <2>11
<1>13. CASE ~(n > 0 /\ off + n > z)
  <2>1. r = t
    BY <1>3, <1>13 DEF writei, t
  <2>2. first + m <= n0
    <3>1. CASE n = 0
      BY <1>1, <1>4, <1>5, <3>1
    <3>2. CASE n > 0
      <4>1. BlocksFor(off + n) <= n0
        BY <1>2, <1>13, <3>2, BlocksForOrder DEF n0
      <4> QED
        BY <1>5, <3>2, <4>1
    <3> QED
      BY <3>1, <3>2
  <2>3. t.inode[i] = s.dinode[i] /\ t.dinode = s.dinode
    BY <1>10, <2>2 DEF OnlyAddrs, Same
  <2>4. Addrs(r.dinode) = AddrsWith(t, i)
    BY <2>1, <2>3 DEF Addrs, AddrsWith
  <2>5. Far(n0, first, m) = n0
    BY <1>1, <1>2, <1>5, <2>2 DEF Far
  <2>6. PlaceCounts(r.dinode) = Upto(C, i, Far(n0, first, m))
    BY <1>1, <2>1, <2>3, <2>5 DEF PlaceCounts, Upto, C
  <2>7. Solid(r) /\ Same(r, i)
    BY <1>11, <2>1, <2>3, <2>4, <2>6 DEF Solid, Same
  <2>8. OnlyInode(s, r, i)
    BY <1>10, <2>1 DEF OnlyInode, OnlyAddrs
  <2>9. WordsPut(s, r, i, off, n, v)
    <3>1. r.data = t.data /\ r.dinode[i].size \in 0..(MAXFILE * BSIZE)
          /\ r.dinode[i].size = IF n > 0 /\ off + n > z THEN off + n ELSE z
      BY <1>1, <1>13, <2>1, <2>3
    <3> QED
      BY <1>3, <1>5, <1>9, <2>4, <3>1, WordsStored DEF n0, C, first
  <2> QED
    BY <2>7, <2>8, <2>9
<1> QED
  BY <1>12, <1>13

\* A run of the loop of readi().
ReadLoop(f, s, i, off, n) ==
    f = [k \in 0..Turns(off, n) |-> IF k = 0 THEN s ELSE bmap(f[k - 1], i, off \div BSIZE + k - 1)]

\* readi() reads from blocks that are there, and changes nothing.
LEMMA ReadiIs ==
  ASSUME NEW s, Solid(s), NEW i \in Inums, Same(s, i),
         NEW off \in Nat, NEW n \in Nat, n > 0 => off + n <= s.dinode[i].size
  PROVE  readi(s, i, off, n) = s
<1> DEFINE C == PlaceCounts(s.dinode)
           z == s.dinode[i].size
           n0 == BlocksFor(z)
           first == off \div BSIZE
           m == Turns(off, n)
           f == [k \in 0..m |-> s]
<1>1. /\ Fits(s, i, C) /\ z \in 0..(MAXFILE * BSIZE)
      /\ n0 \in 0..MAXFILE /\ C[i] = PlacesOf(n0)
  BY SolidFits
<1>2. first \in Nat
  BY InodeConstants, DivIs
<1>3. z \in Nat /\ MAXFILE \in Nat
  BY <1>1, InodeConstants
<1>4. m \in Nat /\ (n = 0 => m = 0) /\ (n > 0 => first + m = BlocksFor(off + n))
  BY TurnsIs
<1>5. n > 0 => first + m <= n0
  BY <1>3, <1>4, BlocksForOrder
<1> HIDE DEF C, n0, first, m
<1>6. ASSUME NEW k \in 1..m
      PROVE  bmap(s, i, first + k - 1) = s
  <2> DEFINE bn == first + k - 1
  <2>1. m > 0 /\ n > 0
    BY <1>4
  <2>2. bn \in 0..n0 /\ bn < n0 /\ bn < MAXFILE
    BY <1>1, <1>2, <1>3, <1>4, <1>5, <2>1
  <2> HIDE DEF bn
  <2>3. bmap(s, i, bn) = s
    BY <1>1, <2>2, BmapIs
  <2> QED
    BY <2>3 DEF bn
<1>7. readi(s, i, off, n) = (CHOOSE h : ReadLoop(h, s, i, off, n))[m]
  BY DEF readi, ReadLoop, m
<1>8. ReadLoop(f, s, i, off, n)
  <2>1. ASSUME NEW k \in 0..m
        PROVE  f[k] = IF k = 0 THEN s ELSE bmap(f[k - 1], i, first + k - 1)
    <3>1. CASE k = 0
      BY <3>1
    <3>2. CASE k # 0
      <4>1. k \in 1..m /\ k - 1 \in 0..m
        BY <1>4, <3>2
      <4> QED
        BY <1>6, <3>2, <4>1
    <3> QED
      BY <3>1, <3>2
  <2>2. f = [k \in 0..m |-> f[k]]
    OBVIOUS
  <2> HIDE DEF f
  <2>3. f = [k \in 0..m |-> IF k = 0 THEN s ELSE bmap(f[k - 1], i, first + k - 1)]
    BY <2>1, <2>2
  <2> QED
    BY <2>3 DEF ReadLoop, first, m
<1>9. PICK h : ReadLoop(h, s, i, off, n) /\ readi(s, i, off, n) = h[m]
  BY <1>7, <1>8
<1>10. \A k \in 0..m : h[k] = IF k = 0 THEN s ELSE bmap(h[k - 1], i, first + k - 1)
  BY <1>9 DEF ReadLoop, first, m
<1>11. h[m] = s
  <2> DEFINE S == {k \in 0..m : h[k] = s}
  <2>1. 0 \in S
    BY <1>4, <1>10
  <2>2. ASSUME NEW k \in 1..m, k - 1 \in S
        PROVE  k \in S
    <3>1. k \in 0..m /\ k # 0 /\ h[k - 1] = s
      BY <1>4, <2>2
    <3> QED
      BY <1>6, <1>10, <3>1
  <2>3. m \in S
    <3> HIDE DEF S
    <3> QED
      BY <1>4, <2>1, <2>2, Counting
  <2> QED
    BY <2>3
<1> QED
  BY <1>9, <1>11

\* Inode i is free in r, and the words of the others are as in s.
Freed(s, r, i) ==
    /\ r.dinode = [s.dinode EXCEPT ![i] = NoInode]
    /\ r.inode = [s.inode EXCEPT ![i] = NoInode]
    /\ \A j \in Inums, x \in Nat : j # i /\ x < s.dinode[j].size => Word(r, j, x) = Word(s, j, x)

\* A free inode has no words and no blocks.
LEMMA NoInodeIs ==
  /\ NoInode \in Inodes /\ NoInode.addrs = NoAddrs /\ NoInode.size = 0
  /\ NoInode.nlink = 0 /\ NoInode.used = FALSE
  /\ PlacesOf(BlocksFor(0)) = 0
<1>1. NoAddrs \in [0..NDIRECT -> DataBlocks \cup {0}]
  BY DEF NoAddrs
<1>2. 0 \in 0..(MAXFILE * BSIZE)
  <2>1. MAXFILE * BSIZE \in Nat
    BY InodeConstants
  <2> QED
    BY <2>1
<1>3. BlocksFor(0) = 0
  BY BlocksForIs
<1> QED
  BY <1>1, <1>2, <1>3, InodeConstants DEF NoInode, Inodes, PlacesOf

\* What is left of a disk after iput() frees inode i.
FreedInode(s, i) == [itrunc(s, i) EXCEPT !.inode[i] = NoInode, !.dinode[i] = NoInode]

\* itrunc() and the freeing of the inode keep the disk in order.
LEMMA FreedIs ==
  ASSUME NEW s, Solid(s), NEW i \in Inums, Same(s, i), NEW r, r = FreedInode(s, i)
  PROVE  Solid(r) /\ Freed(s, r, i)
<1> DEFINE B == BlocksOf(s, i)
           C == PlaceCounts(s.dinode)
           A == Addrs(s.dinode)
<1>1. s.used \subseteq DataBlocks /\ s.data \in [DataBlocks -> [Words -> Datum]]
      /\ s.dinode \in [Inums -> Inodes] /\ s.inode \in [Inums -> Inodes]
  BY DEF Solid, FsType
<1>2. B = TakenBy(s.data, A, C, i)
  BY SolidBlocks DEF Same
<1>3. Fits(s, i, C) /\ AddrsWith(s, i) = A
  BY SolidFits
<1>4. LayoutType(s.used, s.data, A, C) /\ Layout(s.used, s.data, A, C)
  BY <1>3, FitsType DEF Fits
<1> HIDE DEF B
<1>5. /\ r.used = s.used \ B
      /\ r.data = [b \in DataBlocks |-> IF b \in B THEN Junk ELSE s.data[b]]
      /\ r.dinode = [s.dinode EXCEPT ![i] = NoInode]
      /\ r.inode = [s.inode EXCEPT ![i] = NoInode]
      /\ r = [used |-> r.used, data |-> r.data, dinode |-> r.dinode, inode |-> r.inode]
  BY <1>1 DEF FreedInode, itrunc, iupdate, bfree, Solid, FsType, B
<1>6. Junk \in [Words -> Datum]
  BY DEF Junk, Datum
<1>7. r \in FsType
  <2>1. r.data \in [DataBlocks -> [Words -> Datum]]
    BY <1>1, <1>5, <1>6
  <2>2. r.inode \in [Inums -> Inodes] /\ r.dinode \in [Inums -> Inodes]
    BY <1>1, <1>5, NoInodeIs
  <2> QED
    BY <1>1, <1>5, <2>1, <2>2 DEF FsType
<1>8. DataBut(s.data, r.data, B)
  BY <1>5 DEF DataBut
<1> HIDE DEF A, C
<1>9. Addrs(r.dinode) = [A EXCEPT ![i] = NoAddrs]
  BY <1>1, <1>5, NoInodeIs DEF Addrs, A
<1>10. PlaceCounts(r.dinode) = [C EXCEPT ![i] = 0]
  BY <1>1, <1>5, NoInodeIs DEF PlaceCounts, C
<1>11. /\ Layout(s.used \ B, r.data, Addrs(r.dinode), PlaceCounts(r.dinode))
       /\ OthersKept(s.data, r.data, A, C, i, B)
  BY <1>2, <1>4, <1>8, <1>9, <1>10, AllFreed
<1>12. Solid(r)
  BY <1>5, <1>7, <1>11 DEF Solid
<1>13. ASSUME NEW j \in Inums, NEW x \in Nat, j # i, x < s.dinode[j].size
       PROVE  Word(r, j, x) = Word(s, j, x)
  <2> DEFINE b == x \div BSIZE
             l == PlaceOf(b)
  <2>1. s.dinode[j].size \in 0..(MAXFILE * BSIZE)
    BY <1>1 DEF Inodes
  <2>2. b \in Blocknums /\ l < PlacesOf(BlocksFor(s.dinode[j].size))
    BY <1>13, <2>1, WordCell
  <2>3. l < C[j]
    BY <2>2 DEF PlaceCounts, C
  <2>4. l \in Places
    BY <2>2, PlaceFacts, InodeConstants
  <2>5. A[j] = s.dinode[j].addrs /\ r.dinode[j] = s.dinode[j]
    BY <1>1, <1>5, <1>13 DEF Addrs, A
  <2> HIDE DEF l
  <2>6. Num(s.data, A[j], l) \in s.used
    BY <1>4, <2>3, <2>4 DEF Layout
  <2>7. r.data[Num(r.data, A[j], l)] = s.data[Num(s.data, A[j], l)]
    <3>1. Num(r.data, A[j], l) = Num(s.data, A[j], l) /\ Num(s.data, A[j], l) \notin B
      BY <1>11, <1>13, <2>3, <2>4 DEF OthersKept
    <3> QED
      BY <1>1, <1>8, <2>6, <3>1 DEF DataBut
  <2> QED
    BY <2>5, <2>7 DEF Word, l
<1> QED
  BY <1>5, <1>12, <1>13 DEF Freed

-----------------------------------------------------------------------------
(* The file system under the calls                                         *)

\* The disk is in order; a file that someone has is on it, and its copy in
\* memory is good; a free inode is empty; at most one has the name.
DiskInv ==
    /\ Solid(fs)
    /\ \A i \in Inums : iref[i] > 0 => Same(fs, i) /\ fs.dinode[i].used
    /\ \A i \in Inums : ~fs.dinode[i].used => fs.dinode[i] = NoInode
    /\ \A i, j \in Inums : fs.dinode[i].nlink > 0 /\ fs.dinode[j].nlink > 0 => i = j

\* A filewrite() that has words left has its file open.
Writing(p) ==
    wr[p] # NoWrite =>
       /\ p \in alive /\ work[p] = <<>> /\ wr[p].n \in Nat
       /\ wr[p].f \in Files /\ ftable[wr[p].f].type = "inode"
       /\ \E d \in Fds : ofile[p][d] = wr[p].f

\* The same of every process, and the offsets are numbers.
BusyInv ==
    /\ wr = [p \in Procs |-> wr[p]] /\ \A p \in Procs : Writing(p)
    /\ \A f \in Files : ftable[f].off \in Nat

\* The inductive invariant, beside FileInv.
FsInv == DiskInv /\ BusyInv

\* The disk and the counts of inodes are left alone.
LEMMA DiskUnchanged ==
  ASSUME DiskInv, UNCHANGED <<fs, iref>>
  PROVE  DiskInv'
BY DEF DiskInv

\* A call that leaves those alone that are in a filewrite().
LEMMA WriteKept ==
  ASSUME BusyInv, wr' = wr, \A f \in Files : ftable'[f].off \in Nat,
         \A q \in Procs : wr[q] # NoWrite =>
            /\ q \in alive' /\ work'[q] = work[q]
            /\ ftable'[wr[q].f].type = "inode"
            /\ \A d \in Fds : ofile[q][d] = wr[q].f => ofile'[q][d] = wr[q].f
  PROVE  BusyInv'
<1>1. wr' = [p \in Procs |-> wr'[p]]
  BY DEF BusyInv
<1>2. ASSUME NEW q \in Procs
      PROVE  Writing(q)'
  BY DEF BusyInv, Writing
<1> QED
  BY <1>1, <1>2 DEF BusyInv

\* A process has finitely many descriptors.
LEMMA FdsFinite == IsFiniteSet(Fds)
<1>1. 0 \in Int /\ NOFILE - 1 \in Int
  BY FileConstants
<1> QED
  BY <1>1, FS_Interval DEF Fds

\* The items of a kind can be counted.
LEMMA ItemsCount ==
  ASSUME NEW k, NEW it
  PROVE  Cardinality(ItemIn(k, it)) \in Nat
<1>1. IsFiniteSet(1..2)
  <2>1. IsFiniteSet({1} \cup {2})
    BY FS_Singleton, FS_AddElement
  <2>2. 1..2 = {1} \cup {2}
    OBVIOUS
  <2> QED
    BY <2>1, <2>2
<1>2. IsFiniteSet(Procs \X (1..2))
  BY <1>1, FileConstants, FS_Product
<1>3. IsFiniteSet(ItemIn(k, it))
  BY <1>2, FS_Subset DEF ItemIn
<1> QED
  BY <1>3, FS_CardinalityType

\* An open file has its inode in the cache, and the copy is good.
LEMMA OpenInode ==
  ASSUME FileInv, DiskInv, NEW f \in Files, ftable[f].type = "inode"
  PROVE  /\ ftable[f].ip \in Inums /\ iref[ftable[f].ip] > 0
         /\ Same(fs, ftable[f].ip) /\ fs.dinode[ftable[f].ip].used
<1> DEFINE i == ftable[f].ip
<1>1. i \in Inums
  <2>1. FileEntry(ftable[f])
    BY DEF FileInv, FileType
  <2> QED
    BY <2>1 DEF FileEntry
<1>2. f \in InodeIn(ftable, i)
  BY DEF InodeIn, HasInode
<1> HIDE DEF i
<1>3. iref[i] = Cardinality(ItemIn(work, IputOf(i))) + Cardinality(InodeIn(ftable, i))
  BY <1>1 DEF FileInv, FileCounted
<1>4. IsFiniteSet(Procs) /\ NFILE \in Nat
  BY FileConstants
<1>5. Cardinality(ItemIn(work, IputOf(i))) \in Nat
  BY ItemsCount
<1>6. IsFiniteSet(InodeIn(ftable, i))
  <2>1. IsFiniteSet(Files)
    BY <1>4, FS_Interval DEF Files
  <2> QED
    BY <2>1, FS_Subset DEF InodeIn
<1>7. Cardinality(InodeIn(ftable, i)) \in Nat /\ Cardinality(InodeIn(ftable, i)) # 0
  BY <1>2, <1>6, FS_CardinalityType, FS_EmptySet
<1>8. iref[i] > 0
  BY <1>3, <1>5, <1>7
<1>9. Same(fs, i) /\ fs.dinode[i].used
  BY <1>1, <1>8 DEF DiskInv
<1> QED
  BY <1>1, <1>8, <1>9 DEF i

\* A descriptor that is open, and the file it is.
LEMMA OpenDesc ==
  ASSUME FileInv, NEW p \in Procs, NEW d \in Fds, ofile[p][d] # 0
  PROVE  /\ ofile[p][d] \in Files /\ FileEntry(ftable[ofile[p][d]])
         /\ ftable[ofile[p][d]].ref > 0
<1> DEFINE f == ofile[p][d]
<1>1. f \in Files
  BY FileConstants DEF FileInv, FileType, Descriptors, Files
<1>2. FileEntry(ftable[f])
  BY <1>1 DEF FileInv, FileType
<1>3. <<p, d>> \in DescIn(ofile, f)
  BY DEF DescIn
<1> HIDE DEF f
<1>4. ftable[f].ref = Cardinality(ItemIn(work, CloseOf(f))) + Cardinality(DescIn(ofile, f))
  BY <1>1 DEF FileInv, FileCounted
<1>5. Cardinality(ItemIn(work, CloseOf(f))) \in Nat
  BY ItemsCount
<1>6. IsFiniteSet(DescIn(ofile, f))
  <2>1. IsFiniteSet(Fds)
    BY FdsFinite
  <2>2. IsFiniteSet(Procs \X Fds)
    BY <2>1, FileConstants, FS_Product
  <2> QED
    BY <2>2, FS_Subset DEF DescIn
<1>7. Cardinality(DescIn(ofile, f)) \in Nat /\ Cardinality(DescIn(ofile, f)) # 0
  BY <1>3, <1>6, FS_CardinalityType, FS_EmptySet
<1>8. ftable[f].ref > 0
  BY <1>4, <1>5, <1>7
<1> QED
  BY <1>1, <1>2, <1>8 DEF f

\* The least of two numbers.
LEMMA MinTwo ==
  ASSUME NEW a \in Nat, NEW b \in Nat
  PROVE  Min({a, b}) \in Nat /\ Min({a, b}) \in {a, b} /\ Min({a, b}) <= a /\ Min({a, b}) <= b
<1> DEFINE T == {a, b}
<1>1. PICK m \in T : \A n \in T : m <= n
  <2>1. T \subseteq Nat /\ T # {}
    OBVIOUS
  <2> HIDE DEF T
  <2> QED
    BY <2>1, LeastNumber
<1>2. Min(T) \in T /\ \A n \in T : Min(T) <= n
  BY <1>1 DEF Min
<1> QED
  BY <1>2

\* The blocks, and for each inode on the disk its blocks and its size, are the same.
SameUse(s, r) ==
    /\ r.used = s.used /\ r.data = s.data
    /\ \A j \in Inums : r.dinode[j].addrs = s.dinode[j].addrs /\ r.dinode[j].size = s.dinode[j].size

\* The layout is about numbers of blocks and sizes, not about who is linked.
LEMMA SolidAlike ==
  ASSUME NEW s, Solid(s), NEW r \in FsType, SameUse(s, r)
  PROVE  /\ Solid(r)
         /\ \A j \in Inums, x \in Nat : Word(r, j, x) = Word(s, j, x)
<1>1. Addrs(r.dinode) = Addrs(s.dinode) /\ PlaceCounts(r.dinode) = PlaceCounts(s.dinode)
  BY DEF SameUse, Addrs, PlaceCounts
<1> QED
  BY <1>1 DEF Solid, SameUse, Word

\* iget() and ilock() of a file that is on the disk.
LEMMA IgetIs ==
  ASSUME DiskInv, iref \in [Inums -> Nat], NEW i \in Inums, fs.dinode[i].used,
         NEW s, s = Iget(fs, i)
  PROVE  /\ s \in FsType /\ Same(s, i) /\ SameUse(fs, s) /\ s.dinode = fs.dinode
         /\ \A j \in Inums : j # i => s.inode[j] = fs.inode[j]
<1>1. fs \in FsType
  BY DEF DiskInv, Solid
<1>2. fs.dinode[i] \in Inodes
  BY <1>1 DEF FsType
<1>3. CASE iref[i] = 0
  <2>1. s = [fs EXCEPT !.inode[i] = fs.dinode[i]]
    BY <1>3 DEF Iget
  <2>2. s \in FsType
    BY <1>1, <1>2, <2>1 DEF FsType
  <2> QED
    BY <1>1, <2>1, <2>2, SMTT(30) DEF Same, SameUse, FsType
<1>4. CASE iref[i] # 0
  <2>1. s = fs
    BY <1>4 DEF Iget
  <2>2. Same(s, i)
    BY <1>4, <2>1 DEF DiskInv
  <2> QED
    BY <1>1, <2>1, <2>2 DEF SameUse
<1> QED
  BY <1>3, <1>4

\* What open() and unlink() do to the inode i of a file: they have a reference
\* to it, and on the disk its name may have gone.
Got(s, i) ==
    /\ s \in FsType /\ Same(s, i) /\ SameUse(fs, s)
    /\ \A j \in Inums : j # i => s.inode[j] = fs.inode[j] /\ s.dinode[j] = fs.dinode[j]
    /\ s.dinode[i].used
    /\ s.dinode[i].nlink \in {0, fs.dinode[i].nlink}

\* An inode that is got, and perhaps unlinked, leaves the disk in order.
LEMMA DiskGot ==
  ASSUME FileInv, DiskInv, NEW i \in Inums, Got(fs', i),
         iref' = [iref EXCEPT ![i] = @ + 1]
  PROVE  DiskInv'
<1>1. iref \in [Inums -> Nat]
  BY DEF FileInv, FileType
<1>2. Solid(fs')
  <2>1. Solid(fs) /\ fs' \in FsType /\ SameUse(fs, fs')
    BY DEF DiskInv, Got
  <2> QED
    BY <2>1, SolidAlike
<1>3. ASSUME NEW j \in Inums, iref'[j] > 0
      PROVE  Same(fs', j) /\ fs'.dinode[j].used
  <2>1. CASE j = i
    BY <2>1 DEF Got
  <2>2. CASE j # i
    BY <1>1, <1>3, <2>2 DEF Got, DiskInv, Same
  <2> QED
    BY <2>1, <2>2
<1>4. ASSUME NEW j \in Inums, ~fs'.dinode[j].used
      PROVE  fs'.dinode[j] = NoInode
  BY <1>4 DEF Got, DiskInv
<1>5. \A j \in Inums : fs'.dinode[j].nlink \in {0, fs.dinode[j].nlink}
  BY DEF Got
<1>6. ASSUME NEW j \in Inums, NEW k \in Inums, fs'.dinode[j].nlink > 0, fs'.dinode[k].nlink > 0
      PROVE  j = k
  <2>1. fs'.dinode[j].nlink # 0 /\ fs'.dinode[k].nlink # 0
    <3>1. ~(0 > 0)
      OBVIOUS
    <3> QED
      BY <1>6, <3>1
  <2> QED
    BY <1>5, <1>6, <2>1 DEF DiskInv
<1> QED
  BY <1>2, <1>3, <1>4, <1>6 DEF DiskInv

\* A file with the name is on the disk.
LEMMA NamedIs ==
  ASSUME DiskInv, NEW i \in Named
  PROVE  i \in Inums /\ fs.dinode[i].nlink > 0 /\ fs.dinode[i].used
<1>1. i \in Inums /\ fs.dinode[i].nlink > 0
  BY DEF Named
<1>2. fs.dinode[i] # NoInode
  <2>1. NoInode.nlink = 0 /\ ~(0 > 0)
    BY NoInodeIs
  <2> QED
    BY <1>1, <2>1
<1>3. fs.dinode[i].used \in BOOLEAN
  BY <1>1 DEF DiskInv, Solid, FsType, Inodes
<1> QED
  BY <1>1, <1>2, <1>3 DEF DiskInv

\* open()
LEMMA OpenGot ==
  ASSUME FileInv, DiskInv, NEW i \in Named
  PROVE  Got(Iget(fs, i), i)
<1>1. i \in Inums /\ fs.dinode[i].used
  BY NamedIs
<1>2. iref \in [Inums -> Nat]
  BY DEF FileInv, FileType
<1> DEFINE s == Iget(fs, i)
<1> HIDE DEF s
<1>3. /\ s \in FsType /\ Same(s, i) /\ SameUse(fs, s) /\ s.dinode = fs.dinode
      /\ \A j \in Inums : j # i => s.inode[j] = fs.inode[j]
  BY <1>1, <1>2, IgetIs DEF s
<1>4. Got(s, i)
  BY <1>1, <1>3 DEF Got
<1> QED
  BY <1>4 DEF s

\* unlink()
LEMMA UnlinkGot ==
  ASSUME FileInv, DiskInv, NEW i \in Named, NEW r, r = iupdate([Iget(fs, i) EXCEPT !.inode[i].nlink = 0], i)
  PROVE  Got(r, i) /\ r.dinode[i].nlink = 0
<1>1. i \in Inums /\ fs.dinode[i].used
  BY NamedIs
<1>2. iref \in [Inums -> Nat]
  BY DEF FileInv, FileType
<1> DEFINE s == Iget(fs, i)
           e == [s.inode[i] EXCEPT !.nlink = 0]
<1>3. r = iupdate([s EXCEPT !.inode[i].nlink = 0], i)
  OBVIOUS
<1> HIDE DEF s
<1>4. /\ s \in FsType /\ Same(s, i) /\ SameUse(fs, s) /\ s.dinode = fs.dinode
      /\ \A j \in Inums : j # i => s.inode[j] = fs.inode[j]
  BY <1>1, <1>2, IgetIs DEF s
<1>5. s.inode[i] \in Inodes
  BY <1>1, <1>4 DEF FsType
<1>6. e \in Inodes /\ e.addrs = s.inode[i].addrs /\ e.size = s.inode[i].size
      /\ e.used = s.inode[i].used /\ e.nlink = 0
  BY <1>5 DEF Inodes
<1> HIDE DEF e
<1>7. /\ r.used = s.used /\ r.data = s.data
      /\ r.inode = [s.inode EXCEPT ![i] = e] /\ r.dinode = [s.dinode EXCEPT ![i] = e]
      /\ r = [used |-> r.used, data |-> r.data, dinode |-> r.dinode, inode |-> r.inode]
  BY <1>1, <1>3, <1>4 DEF iupdate, FsType, e
<1>8. r \in FsType
  <2>1. r.inode \in [Inums -> Inodes] /\ r.dinode \in [Inums -> Inodes]
    BY <1>4, <1>6, <1>7, SMTT(30) DEF FsType
  <2> QED
    BY <1>4, <1>7, <2>1 DEF FsType
<1>9. /\ r.inode[i] = e /\ r.dinode[i] = e
      /\ \A j \in Inums : j # i => r.inode[j] = s.inode[j] /\ r.dinode[j] = s.dinode[j]
  BY <1>1, <1>4, <1>7 DEF FsType
<1>10. SameUse(fs, r)
  BY <1>1, <1>4, <1>6, <1>7, <1>9 DEF SameUse, Same
<1> QED
  BY <1>1, <1>4, <1>6, <1>8, <1>9, <1>10 DEF Got, Same

\* ialloc() with the first name: a free inode becomes an empty file.
NewInode == [NoInode EXCEPT !.used = TRUE, !.nlink = 1]
Made(s, i) ==
    /\ ~fs.dinode[i].used /\ s \in FsType /\ SameUse(fs, s)
    /\ s.dinode = [fs.dinode EXCEPT ![i] = NewInode]
    /\ s.inode = [fs.inode EXCEPT ![i] = NewInode]

\* The inode of ialloc() and create() has no words yet.
LEMMA NewInodeIs ==
  /\ NewInode \in Inodes /\ NewInode.used = TRUE /\ NewInode.nlink = 1
  /\ NewInode.addrs = NoInode.addrs /\ NewInode.size = NoInode.size
<1>1. NoInode \in Inodes
  BY NoInodeIs
<1> QED
  BY <1>1 DEF NewInode, Inodes

\* create() makes one of a free inode.
LEMMA CreateMade ==
  ASSUME DiskInv, \E j \in Inums : ~fs.dinode[j].used, NEW r,
         r = [fs EXCEPT !.dinode[FreeInum] = NewInode, !.inode[FreeInum] = NewInode]
  PROVE  FreeInum \in Inums /\ Made(r, FreeInum)
<1> DEFINE i == FreeInum
           T == {j \in Inums : ~fs.dinode[j].used}
<1>1. i \in T
  <2>1. T \subseteq Nat /\ T # {}
    BY InodeConstants
  <2>2. i = Min(T)
    BY DEF FreeInum
  <2> HIDE DEF T, i
  <2> QED
    BY <2>1, <2>2, MinIn
<1> HIDE DEF i
<1>2. i \in Inums /\ ~fs.dinode[i].used /\ fs.dinode[i] = NoInode
  BY <1>1 DEF DiskInv
<1>3. fs \in FsType
  BY DEF DiskInv, Solid
<1>4. /\ r.used = fs.used /\ r.data = fs.data
      /\ r.dinode = [fs.dinode EXCEPT ![i] = NewInode]
      /\ r.inode = [fs.inode EXCEPT ![i] = NewInode]
      /\ r = [used |-> r.used, data |-> r.data, dinode |-> r.dinode, inode |-> r.inode]
  <2>1. r = [fs EXCEPT !.dinode[i] = NewInode, !.inode[i] = NewInode]
    BY DEF i
  <2> QED
    BY <1>2, <1>3, <2>1 DEF FsType
<1>5. r \in FsType
  <2>1. r.inode \in [Inums -> Inodes] /\ r.dinode \in [Inums -> Inodes]
    BY <1>3, <1>4, NewInodeIs DEF FsType
  <2> QED
    BY <1>3, <1>4, <2>1 DEF FsType
<1>6. \A j \in Inums : r.dinode[j] = IF j = i THEN NewInode ELSE fs.dinode[j]
  BY <1>3, <1>4 DEF FsType
<1>7. SameUse(fs, r)
  BY <1>2, <1>4, <1>6, NewInodeIs DEF SameUse
<1> QED
  BY <1>2, <1>4, <1>5, <1>7 DEF Made, i

\* open() with O_CREATE, when nothing has the name.
LEMMA DiskMade ==
  ASSUME FileInv, DiskInv, NEW i \in Inums, Made(fs', i), Named = {},
         iref' = [iref EXCEPT ![i] = @ + 1]
  PROVE  DiskInv'
<1>1. iref \in [Inums -> Nat]
  BY DEF FileInv, FileType
<1>2. Solid(fs')
  <2>1. Solid(fs) /\ fs' \in FsType /\ SameUse(fs, fs')
    BY DEF DiskInv, Made
  <2> QED
    BY <2>1, SolidAlike
<1>3. /\ fs'.dinode[i] = NewInode /\ fs'.inode[i] = NewInode
      /\ \A j \in Inums : j # i => fs'.dinode[j] = fs.dinode[j] /\ fs'.inode[j] = fs.inode[j]
  BY DEF Made, DiskInv, Solid, FsType
<1>4. ASSUME NEW j \in Inums, iref'[j] > 0
      PROVE  Same(fs', j) /\ fs'.dinode[j].used
  <2>1. CASE j = i
    BY <1>3, <2>1, NewInodeIs DEF Same
  <2>2. CASE j # i
    BY <1>1, <1>3, <1>4, <2>2 DEF DiskInv, Same
  <2> QED
    BY <2>1, <2>2
<1>5. ASSUME NEW j \in Inums, ~fs'.dinode[j].used
      PROVE  fs'.dinode[j] = NoInode
  BY <1>3, <1>5, NewInodeIs DEF DiskInv
<1>6. ASSUME NEW j \in Inums, fs'.dinode[j].nlink > 0
      PROVE  j = i
  BY <1>3, <1>6 DEF Named
<1> QED
  BY <1>2, <1>4, <1>5, <1>6 DEF DiskInv

\* iput(): the file is freed, or stays as it is.
LEMMA IputIs ==
  ASSUME FileInv, DiskInv, NEW p \in Procs, Iput(p), NEW i, i = Head(work[p]).x
  PROVE  /\ i \in Inums /\ iref[i] > 0 /\ Head(work[p]) = IputOf(i) /\ work[p] # <<>>
         /\ iref' = [iref EXCEPT ![i] = @ - 1]
         /\ IF fs.dinode[i].nlink = 0 /\ iref[i] = 1
            THEN Solid(fs') /\ Freed(fs, fs', i) ELSE fs' = fs
<1>1. /\ work[p] # <<>> /\ Head(work[p]).op = "iput" /\ iref' = [iref EXCEPT ![i] = @ - 1]
      /\ fs' = IF fs.inode[i].nlink = 0 /\ iref[i] = 1 THEN FreedInode(fs, i) ELSE fs
  BY DEF Iput, FreedInode
<1>2. i \in Inums /\ Head(work[p]) = IputOf(i) /\ iref[i] > 0
  BY <1>1, NextItem
<1>3. Same(fs, i) /\ Solid(fs)
  BY <1>2 DEF DiskInv
<1>4. fs.inode[i].nlink = fs.dinode[i].nlink
  BY <1>3 DEF Same
<1>5. ASSUME fs.dinode[i].nlink = 0, iref[i] = 1
      PROVE  Solid(fs') /\ Freed(fs, fs', i)
  <2>1. fs' = FreedInode(fs, i)
    BY <1>1, <1>4, <1>5
  <2> QED
    BY <1>2, <1>3, <2>1, FreedIs
<1>6. ASSUME ~(fs.dinode[i].nlink = 0 /\ iref[i] = 1)
      PROVE  fs' = fs
  BY <1>1, <1>4, <1>6
<1> QED
  BY <1>1, <1>2, <1>5, <1>6

\* The last iput() of an inode without names truncates and frees it.
LEMMA DiskIput ==
  ASSUME FileInv, DiskInv, NEW p \in Procs, Iput(p)
  PROVE  DiskInv'
<1> DEFINE i == Head(work[p]).x
<1> HIDE DEF i
<1>1. /\ i \in Inums /\ iref[i] > 0
      /\ iref' = [iref EXCEPT ![i] = @ - 1]
      /\ IF fs.dinode[i].nlink = 0 /\ iref[i] = 1
         THEN Solid(fs') /\ Freed(fs, fs', i) ELSE fs' = fs
  BY IputIs DEF i
<1>2. iref \in [Inums -> Nat]
  BY DEF FileInv, FileType
<1>3. \A j \in Inums : iref'[j] = IF j = i THEN iref[j] - 1 ELSE iref[j]
  BY <1>1, <1>2
<1>4. CASE fs.dinode[i].nlink = 0 /\ iref[i] = 1
  <2>1. Solid(fs') /\ Freed(fs, fs', i) /\ Solid(fs)
    BY <1>1, <1>4 DEF DiskInv
  <2>2. /\ fs'.dinode[i] = NoInode
        /\ \A j \in Inums : j # i => fs'.dinode[j] = fs.dinode[j] /\ fs'.inode[j] = fs.inode[j]
    BY <1>1, <2>1 DEF Freed, Solid, FsType
  <2>3. ASSUME NEW j \in Inums, iref'[j] > 0
        PROVE  Same(fs', j) /\ fs'.dinode[j].used
    <3>1. j # i
      BY <1>3, <1>4, <2>3
    <3> QED
      BY <1>3, <2>2, <2>3, <3>1 DEF DiskInv, Same
  <2>4. ASSUME NEW j \in Inums, ~fs'.dinode[j].used
        PROVE  fs'.dinode[j] = NoInode
    BY <2>2, <2>4 DEF DiskInv
  <2>5. ASSUME NEW j \in Inums, NEW k \in Inums,
               fs'.dinode[j].nlink > 0, fs'.dinode[k].nlink > 0
        PROVE  j = k
    <3>1. j # i /\ k # i
      BY <2>2, <2>5, NoInodeIs
    <3> QED
      BY <2>2, <2>5, <3>1 DEF DiskInv
  <2> QED
    BY <2>1, <2>3, <2>4, <2>5 DEF DiskInv
<1>5. CASE ~(fs.dinode[i].nlink = 0 /\ iref[i] = 1)
  <2>1. fs' = fs
    BY <1>1, <1>5
  <2>2. \A j \in Inums : iref'[j] > 0 => iref[j] > 0
    BY <1>1, <1>2, <1>3
  <2> QED
    BY <2>1, <2>2 DEF DiskInv
<1> QED
  BY <1>4, <1>5

\* fileread() of r words by p from file f.
ReadAt(f, r) ==
    /\ f \in Files /\ ftable[f].type = "inode" /\ ftable[f].ip \in Inums
    /\ r \in Nat /\ ftable[f].off \in Nat
    /\ r > 0 => ftable[f].off + r <= fs.dinode[ftable[f].ip].size
    /\ fs' = fs /\ ftable' = [ftable EXCEPT ![f].off = @ + r]

\* fileread() of an inode is such a read.
LEMMA ReadIs ==
  ASSUME FileInv, FsInv, NEW p \in Procs, NEW d \in Fds, NEW n \in Sizes, Read(p, d, n)
  PROVE  \E r \in Nat : ReadAt(ofile[p][d], r)
<1> DEFINE f == ofile[p][d]
           i == ftable[f].ip
           off == ftable[f].off
           r == ReadLen(fs, i, off, n)
           z == fs.dinode[i].size
<1>1. /\ f # 0 /\ ftable[f].type = "inode" /\ fs' = readi(fs, i, off, r)
      /\ ftable' = [ftable EXCEPT ![f].off = @ + r]
  BY DEF Read
<1>2. f \in Files
  BY <1>1, OpenDesc
<1>3. DiskInv /\ BusyInv
  BY DEF FsInv
<1>4. i \in Inums /\ Same(fs, i) /\ Solid(fs)
  BY <1>1, <1>2, <1>3, OpenInode DEF DiskInv
<1>5. off \in Nat /\ n \in Nat
  BY <1>2, <1>3, FileAssumption DEF BusyInv
<1>6. z \in 0..(MAXFILE * BSIZE) /\ fs.inode[i].size = z
  BY <1>4 DEF Solid, FsType, Inodes, Same
<1>7. z \in Nat
  BY <1>6, InodeConstants
<1> HIDE DEF z
<1>8. r \in Nat /\ (r > 0 => off + r <= z)
  <2>1. CASE off > z
    BY <1>6, <2>1 DEF ReadLen
  <2>2. CASE ~(off > z)
    <3> DEFINE a == z - off
    <3>1. a \in Nat /\ off + a = z
      BY <1>5, <1>7, <2>2
    <3>2. r = Min({n, a})
      BY <1>6, <2>2 DEF ReadLen
    <3> HIDE DEF a, r
    <3>3. r \in Nat /\ r <= a
      BY <1>5, <3>1, <3>2, MinTwo
    <3> QED
      BY <1>5, <1>7, <3>1, <3>3
  <2> QED
    BY <2>1, <2>2
<1> HIDE DEF r
<1>9. readi(fs, i, off, r) = fs
  BY <1>4, <1>5, <1>8, ReadiIs DEF z
<1> QED
  BY <1>1, <1>2, <1>4, <1>5, <1>8, <1>9 DEF ReadAt, z

\* A piece of a filewrite() of n words by p to file f: n1 words are written.
WriteAt(p, f, n, n1) ==
    LET i == ftable[f].ip
        off == ftable[f].off
    IN /\ n1 \in Nat /\ n1 <= n
       /\ off <= fs.dinode[i].size /\ off + n1 <= MAXFILE * BSIZE
       /\ Solid(fs') /\ Same(fs', i) /\ OnlyInode(fs, fs', i)
       /\ WordsPut(fs, fs', i, off, n1, Value[p])
       /\ ftable' = [ftable EXCEPT ![f].off = @ + n1]
       /\ wr' = [wr EXCEPT ![p] = IF n1 = n THEN NoWrite ELSE [f |-> f, n |-> n - n1]]

\* It ends with an error.
WriteEnds(p) == wr' = [wr EXCEPT ![p] = NoWrite] /\ UNCHANGED <<fs, ftable>>

\* A turn of the loop of filewrite() is a write, or ends the call.
LEMMA ChunkIs ==
  ASSUME FileInv, FsInv, NEW p \in Procs, NEW f \in Files, ftable[f].type = "inode",
         NEW n \in Nat, Chunk(p, f, n)
  PROVE  WriteEnds(p) \/ \E n1 \in Nat : WriteAt(p, f, n, n1)
<1> DEFINE i == ftable[f].ip
           off == ftable[f].off
           n1 == Min({n, MaxChunk})
<1>1. DiskInv /\ BusyInv
  BY DEF FsInv
<1>2. i \in Inums /\ Same(fs, i) /\ Solid(fs)
  BY <1>1, OpenInode DEF DiskInv
<1>3. off \in Nat
  BY <1>1 DEF BusyInv
<1>4. n1 \in Nat /\ n1 <= n /\ Value[p] \in Nat
  BY FileAssumption, MinTwo
<1>5. CASE WriteFails(fs, i, off, n1)
  BY <1>5 DEF Chunk, WriteEnds
<1>6. CASE ~WriteFails(fs, i, off, n1)
  <2>1. /\ Room(fs, i, off + n1) /\ fs' = writei(fs, i, off, n1, Value[p])
        /\ ftable' = Moved(f, n1)
        /\ wr' = [wr EXCEPT ![p] = IF n1 = n THEN NoWrite ELSE [f |-> f, n |-> n - n1]]
    BY <1>6 DEF Chunk
  <2> HIDE DEF i, off, n1
  <2>2. /\ Solid(fs') /\ Same(fs', i) /\ OnlyInode(fs, fs', i)
        /\ WordsPut(fs, fs', i, off, n1, Value[p])
    BY <1>2, <1>3, <1>4, <1>6, <2>1, WriteiIs
  <2>3. off <= fs.dinode[i].size /\ off + n1 <= MAXFILE * BSIZE
    <3>1. fs.dinode[i].size \in Nat /\ fs.inode[i].size = fs.dinode[i].size
      BY <1>2, InodeConstants DEF Solid, FsType, Inodes, Same
    <3>2. MAXFILE * BSIZE \in Nat
      BY InodeConstants
    <3> QED
      BY <1>3, <1>4, <1>6, <3>1, <3>2 DEF WriteFails
  <2>4. WriteAt(p, f, n, n1)
    BY <1>4, <2>1, <2>2, <2>3 DEF WriteAt, Moved, i, off
  <2> QED
    BY <1>4, <2>4
<1> QED
  BY <1>5, <1>6

\* A piece that is written keeps the disk in order.
LEMMA DiskWrite ==
  ASSUME FileInv, DiskInv, NEW p, NEW f \in Files, ftable[f].type = "inode",
         NEW n, NEW n1, WriteAt(p, f, n, n1), UNCHANGED iref
  PROVE  DiskInv'
<1> DEFINE i == ftable[f].ip
<1>1. i \in Inums /\ fs.dinode[i].used
  BY OpenInode
<1>2. Solid(fs') /\ Same(fs', i) /\ OnlyInode(fs, fs', i)
  BY DEF WriteAt
<1> HIDE DEF i
<1>3. /\ \A j \in Inums : j # i => fs'.inode[j] = fs.inode[j] /\ fs'.dinode[j] = fs.dinode[j]
      /\ fs'.dinode[i].nlink = fs.dinode[i].nlink /\ fs'.dinode[i].used = fs.dinode[i].used
  BY <1>2 DEF OnlyInode
<1>4. ASSUME NEW j \in Inums, iref'[j] > 0
      PROVE  Same(fs', j) /\ fs'.dinode[j].used
  <2>1. CASE j = i
    BY <1>1, <1>2, <1>3, <2>1
  <2>2. CASE j # i
    BY <1>3, <1>4, <2>2 DEF DiskInv, Same
  <2> QED
    BY <2>1, <2>2
<1>5. ASSUME NEW j \in Inums, ~fs'.dinode[j].used
      PROVE  fs'.dinode[j] = NoInode
  BY <1>1, <1>3, <1>5 DEF DiskInv
<1>6. ASSUME NEW j \in Inums, NEW k \in Inums, fs'.dinode[j].nlink > 0, fs'.dinode[k].nlink > 0
      PROVE  j = k
  BY <1>3, <1>6 DEF DiskInv
<1> QED
  BY <1>2, <1>4, <1>5, <1>6 DEF DiskInv

\* The inodes and the places of the open files stay as they are, and no file
\* becomes or ceases to be that of an inode.
Steady == \A f \in Files :
    /\ ftable'[f].type = "inode" <=> ftable[f].type = "inode"
    /\ ftable[f].type = "inode" => ftable'[f].ip = ftable[f].ip
    /\ ftable'[f].off \in Nat
    /\ ftable[f].type = "inode" => ftable'[f].off = ftable[f].off

\* Nobody's descriptors are taken away.
NoneTaken == \A q \in Procs, d \in Fds : ofile[q][d] # 0 => ofile'[q][d] = ofile[q][d]

\* Who has no call under way in p is not disturbed by what p does.
LEMMA Undisturbed ==
  ASSUME BusyInv, NEW p \in Procs, p \in alive => (work[p] # <<>> \/ wr[p] = NoWrite),
         wr' = wr, \A q \in Procs : q # p /\ q \in alive => q \in alive' /\ work'[q] = work[q],
         \A f \in Files : ftable'[f].off \in Nat,
         \A q \in Procs, d \in Fds :
            q # p /\ ofile[q][d] \in Files /\ ftable[ofile[q][d]].type = "inode" =>
               ofile'[q][d] = ofile[q][d] /\ ftable'[ofile[q][d]].type = "inode"
  PROVE  BusyInv'
<1>1. \A q \in Procs : Writing(q)
  BY DEF BusyInv
<1>2. wr[p] = NoWrite
  BY <1>1 DEF Writing
<1>3. ASSUME NEW q \in Procs, wr[q] # NoWrite
      PROVE  /\ q \in alive' /\ work'[q] = work[q]
             /\ ftable'[wr[q].f].type = "inode"
             /\ \A d \in Fds : ofile[q][d] = wr[q].f => ofile'[q][d] = wr[q].f
  <2>1. q # p
    BY <1>2, <1>3
  <2>2. Writing(q)
    BY <1>1
  <2>3. /\ q \in alive /\ wr[q].f \in Files /\ ftable[wr[q].f].type = "inode"
        /\ \E d \in Fds : ofile[q][d] = wr[q].f
    BY <1>3, <2>2 DEF Writing
  <2> QED
    BY <2>1, <2>3
<1> QED
  BY <1>3, WriteKept

\* fileclose(): with the last reference no descriptor is left, and the file
\* is closed.
LEMMA CloseIs ==
  ASSUME FileInv, NEW p \in Procs, FileClose(p), NEW f, f = Head(work[p]).x
  PROVE  /\ f \in Files /\ work[p] # <<>> /\ FileEntry(ftable[f]) /\ ftable[f].ref > 0
         /\ ftable' = [ftable EXCEPT ![f] = IF ftable[f].ref > 1
                          THEN [ftable[f] EXCEPT !.ref = @ - 1] ELSE None]
         /\ \A q \in Procs, d \in Fds : ofile[q][d] = f => ftable[f].ref > 1
         /\ \A q \in Procs : q # p => work'[q] = work[q]
         /\ UNCHANGED <<fs, iref, ofile, alive, wr>>
<1>1. /\ work[p] # <<>> /\ Head(work[p]).op = "fileclose"
      /\ ftable' = Closed(f) /\ UNCHANGED <<fs, iref, pipe, ofile, alive, wr>>
  BY DEF FileClose
<1>2. f \in Files /\ Head(work[p]) = CloseOf(f) /\ ftable[f].ref > 0
  BY <1>1, NextItem
<1>3. FileEntry(ftable[f]) /\ work \in [Procs -> Works]
  BY <1>2 DEF FileInv, FileType
<1>4. ftable' = [ftable EXCEPT ![f] = IF ftable[f].ref > 1
                          THEN [ftable[f] EXCEPT !.ref = @ - 1] ELSE None]
  <2>1. CASE ftable[f].ref > 1
    BY <1>1, <2>1 DEF Closed
  <2>2. CASE ~(ftable[f].ref > 1)
    BY <1>1, <2>2 DEF Closed
  <2> QED
    BY <2>1, <2>2
<1>5. \A q \in Procs : q # p => work'[q] = work[q]
  BY <1>3 DEF FileClose
<1>6. ASSUME NEW q \in Procs, NEW d \in Fds, ofile[q][d] = f
      PROVE  ftable[f].ref > 1
  <2>1. ftable[f].ref = Cardinality(ItemIn(work, CloseOf(f))) + Cardinality(DescIn(ofile, f))
    BY <1>2 DEF FileInv, FileCounted
  <2>2. Cardinality(ItemIn(work, CloseOf(f))) \in Nat \ {0}
    BY <1>1, <1>2, <1>3, ItemCounted, FileConstants
  <2>3. <<q, d>> \in DescIn(ofile, f)
    BY <1>6 DEF DescIn
  <2>4. IsFiniteSet(DescIn(ofile, f))
    <3>1. IsFiniteSet(Fds)
      BY FdsFinite
    <3>2. IsFiniteSet(Procs \X Fds)
      BY <3>1, FileConstants, FS_Product
    <3> QED
      BY <3>2, FS_Subset DEF DescIn
  <2>5. Cardinality(DescIn(ofile, f)) \in Nat /\ Cardinality(DescIn(ofile, f)) # 0
    BY <2>3, <2>4, FS_CardinalityType, FS_EmptySet
  <2> QED
    BY <2>1, <2>2, <2>5
<1> QED
  BY <1>1, <1>2, <1>3, <1>4, <1>5, <1>6

\* What fileclose() leaves of the file.
LEMMA CloseEntry ==
  ASSUME FileInv, BusyInv, NEW p \in Procs, FileClose(p), NEW f, f = Head(work[p]).x
  PROVE  /\ \A g \in Files : g # f => ftable'[g] = ftable[g]
         /\ \A g \in Files : ftable'[g].off \in Nat
         /\ ftable[f].ref > 1 => Steady
         /\ ~(ftable[f].ref > 1) => ftable'[f].type = "none"
<1>1. /\ f \in Files /\ FileEntry(ftable[f])
      /\ ftable' = [ftable EXCEPT ![f] = IF ftable[f].ref > 1
                          THEN [ftable[f] EXCEPT !.ref = @ - 1] ELSE None]
  BY CloseIs
<1>2. ftable = [g \in Files |-> ftable[g]]
  BY DEF FileInv, FileType
<1>3. /\ \A g \in Files : g # f => ftable'[g] = ftable[g]
      /\ ftable'[f] = IF ftable[f].ref > 1 THEN [ftable[f] EXCEPT !.ref = @ - 1] ELSE None
  BY <1>1, <1>2
<1>4. \A g \in Files : ftable[g].off \in Nat
  BY DEF BusyInv
<1>5. CASE ftable[f].ref > 1
  <2>1. ftable'[f].type = ftable[f].type /\ ftable'[f].ip = ftable[f].ip /\ ftable'[f].off = ftable[f].off
    BY <1>1, <1>3, <1>5, SMTT(30) DEF FileEntry
  <2> QED
    BY <1>3, <1>4, <1>5, <2>1 DEF Steady
<1>6. CASE ~(ftable[f].ref > 1)
  <2>1. ftable'[f].type = "none" /\ ftable'[f].off = 0
    BY <1>3, <1>6 DEF None
  <2> QED
    BY <1>3, <1>4, <1>6, <2>1
<1> QED
  BY <1>5, <1>6

\* fileclose() frees an entry of the table only when no descriptor has it.
LEMMA BusyClose ==
  ASSUME FileInv, BusyInv, NEW p \in Procs, FileClose(p)
  PROVE  BusyInv'
<1> DEFINE f == Head(work[p]).x
<1> HIDE DEF f
<1>1. /\ f \in Files /\ work[p] # <<>>
      /\ \A q \in Procs, d \in Fds : ofile[q][d] = f => ftable[f].ref > 1
      /\ \A q \in Procs : q # p => work'[q] = work[q]
      /\ UNCHANGED <<fs, iref, ofile, alive, wr>>
  BY CloseIs DEF f
<1>2. /\ \A g \in Files : g # f => ftable'[g] = ftable[g]
      /\ \A g \in Files : ftable'[g].off \in Nat
      /\ ftable[f].ref > 1 => Steady
  BY CloseEntry DEF f
<1>3. ASSUME NEW q \in Procs, NEW d \in Fds, ofile[q][d] \in Files,
             ftable[ofile[q][d]].type = "inode"
      PROVE  ftable'[ofile[q][d]].type = "inode"
  <2>1. CASE ofile[q][d] = f
    BY <1>1, <1>2, <1>3, <2>1 DEF Steady
  <2>2. CASE ofile[q][d] # f
    BY <1>2, <1>3, <2>2
  <2> QED
    BY <2>1, <2>2
<1> QED
  BY <1>1, <1>2, <1>3, Undisturbed

\* Entries change that are not open files of inodes.
LEMMA SteadyFrom ==
  ASSUME BusyInv,
         \A f \in Files : ftable'[f] = ftable[f] \/ /\ ftable[f].type # "inode"
                                                    /\ ftable'[f].type # "inode"
                                                    /\ ftable'[f].off \in Nat
  PROVE  Steady
BY DEF Steady, BusyInv

\* An entry that filealloc() returns.
LEMMA FreeEntry ==
  ASSUME FileInv, BusyInv, NEW f \in Files, ftable[f].ref = 0
  PROVE  /\ ftable[f].type = "none"
         /\ [ftable[f] EXCEPT !.ref = 1].type = "none"
         /\ [ftable[f] EXCEPT !.ref = 1].off \in Nat
<1>1. FileEntry(ftable[f]) /\ ftable[f].off \in Nat
  BY DEF FileInv, FileType, BusyInv
<1> QED
  BY <1>1 DEF FileEntry

\* A new open file of inode i has the descriptor d of p.
NewFile(p, i, f, d) ==
    /\ f \in Files /\ d \in Fds /\ ofile[p][d] = 0
    /\ ftable[f].ref = 0 /\ ftable[f].type = "none"
    /\ ftable' = [ftable EXCEPT ![f] = [ref |-> 1, type |-> "inode", ip |-> i,
                                        off |-> 0, pipe |-> 0, writable |-> TRUE]]
    /\ ofile' = [ofile EXCEPT ![p][d] = f]

\* open() opens a file, or fails and leaves the open files as they are.
LEMMA OpenFileIs ==
  ASSUME FileInv, BusyInv, NEW p \in Procs, NEW s, NEW i, OpenFile(p, s, i)
  PROVE  /\ (Steady /\ UNCHANGED ofile) \/ \E f \in Files, d \in Fds : NewFile(p, i, f, d)
         /\ \A q \in Procs : q # p => work'[q] = work[q]
         /\ UNCHANGED <<alive, wr>> /\ fs' = s /\ iref' = [iref EXCEPT ![i] = @ + 1]
<1> DEFINE f == Min(FreeFiles)
           d == Min(FreeFds(p))
<1>1. work \in [Procs -> Works] /\ ftable = [g \in Files |-> ftable[g]]
  BY DEF FileInv, FileType
<1>2. NFILE \in Nat /\ NOFILE \in Nat \ {0}
  BY FileConstants
<1>3. UNCHANGED <<alive, wr>> /\ fs' = s /\ iref' = [iref EXCEPT ![i] = @ + 1]
  BY DEF OpenFile
<1>4. \A q \in Procs : q # p => work'[q] = work[q]
  <2>1. CASE FreeFiles = {} \/ FreeFds(p) = {}
    BY <1>1, <2>1 DEF OpenFile
  <2>2. CASE ~(FreeFiles = {} \/ FreeFds(p) = {})
    BY <2>2 DEF OpenFile
  <2> QED
    BY <2>1, <2>2
<1>5. CASE FreeFiles = {}
  <2>1. ftable' = ftable /\ ofile' = ofile
    BY <1>5 DEF OpenFile
  <2>2. Steady
    BY <2>1, SteadyFrom
  <2> QED
    BY <1>3, <1>4, <2>1, <2>2
<1>6. ASSUME FreeFiles # {}
      PROVE  f \in Files /\ ftable[f].ref = 0
  BY <1>2, <1>6, FreeFile
<1>7. CASE FreeFiles # {} /\ FreeFds(p) = {}
  <2>1. ftable' = [ftable EXCEPT ![f].ref = 1] /\ ofile' = ofile
    BY <1>7 DEF OpenFile
  <2> HIDE DEF f
  <2>2. \A g \in Files : ftable'[g] = IF g = f THEN [ftable[f] EXCEPT !.ref = 1] ELSE ftable[g]
    BY <1>1, <2>1
  <2>3. Steady
    <3>1. f \in Files /\ ftable[f].ref = 0
      BY <1>6, <1>7
    <3>2. /\ ftable[f].type = "none" /\ [ftable[f] EXCEPT !.ref = 1].type = "none"
          /\ [ftable[f] EXCEPT !.ref = 1].off \in Nat
      BY <3>1, FreeEntry
    <3> QED
      BY <2>2, <3>2, SteadyFrom
  <2> QED
    BY <1>3, <1>4, <2>1, <2>3
<1>8. CASE FreeFiles # {} /\ FreeFds(p) # {}
  <2>1. /\ ofile' = [ofile EXCEPT ![p][d] = f]
        /\ ftable' = [ftable EXCEPT ![f] = [ref |-> 1, type |-> "inode", ip |-> i,
                                            off |-> 0, pipe |-> 0, writable |-> TRUE]]
    BY <1>8 DEF OpenFile
  <2>2. d \in Fds /\ ofile[p][d] = 0
    BY <1>2, <1>8, FreeDescriptor
  <2>3. f \in Files /\ ftable[f].ref = 0
    BY <1>6, <1>8
  <2> HIDE DEF f, d
  <2>4. ftable[f].type = "none"
    BY <2>3, FreeEntry
  <2>5. NewFile(p, i, f, d)
    BY <2>1, <2>2, <2>3, <2>4 DEF NewFile
  <2> QED
    BY <1>3, <1>4, <2>2, <2>3, <2>5
<1> QED
  BY <1>5, <1>7, <1>8

\* A new open file takes an entry that no filewrite() uses.
LEMMA BusyOpen ==
  ASSUME FileInv, BusyInv, NEW p \in Procs, wr[p] = NoWrite, NEW s, NEW i, OpenFile(p, s, i)
  PROVE  BusyInv'
<1>1. /\ (Steady /\ UNCHANGED ofile) \/ \E f \in Files, d \in Fds : NewFile(p, i, f, d)
      /\ \A q \in Procs : q # p => work'[q] = work[q]
      /\ UNCHANGED <<alive, wr>>
  BY OpenFileIs
<1>2. CASE Steady /\ UNCHANGED ofile
  <2>1. \A f \in Files : ftable'[f].off \in Nat
    BY <1>2 DEF Steady
  <2>2. \A q \in Procs, d \in Fds :
            q # p /\ ofile[q][d] \in Files /\ ftable[ofile[q][d]].type = "inode" =>
               ofile'[q][d] = ofile[q][d] /\ ftable'[ofile[q][d]].type = "inode"
    BY <1>2 DEF Steady
  <2> QED
    BY <1>1, <2>1, <2>2, Undisturbed
<1>3. ASSUME NEW f \in Files, NEW d \in Fds, NewFile(p, i, f, d)
      PROVE  BusyInv'
  <2>1. ofile \in [Procs -> [Fds -> 0..NFILE]] /\ ftable = [g \in Files |-> ftable[g]]
    BY DEF FileInv, FileType, Descriptors
  <2>2. \A q \in Procs, e \in Fds : q # p => ofile'[q][e] = ofile[q][e]
    BY <1>3, <2>1 DEF NewFile
  <2>3. /\ \A g \in Files : g # f => ftable'[g] = ftable[g]
        /\ ftable[f].type = "none" /\ ftable'[f].off = 0
    BY <1>3, <2>1 DEF NewFile
  <2>4. \A g \in Files : ftable'[g].off \in Nat
    BY <2>3 DEF BusyInv
  <2> QED
    BY <1>1, <2>2, <2>3, <2>4, Undisturbed
<1> QED
  BY <1>1, <1>2, <1>3

\* The descriptors that are new are not open files of inodes.
OnlyPipes == \A q \in Procs, d \in Fds : ofile'[q][d] # ofile[q][d] =>
    /\ ofile[q][d] = 0 /\ ofile'[q][d] \in Files
    /\ ftable'[ofile'[q][d]].type # "inode"

\* pipe() leaves the open files of inodes as they are.
LEMMA PipeIs ==
  ASSUME FileInv, BusyInv, NEW p \in Procs, Pipe(p)
  PROVE  /\ Steady /\ OnlyPipes
         /\ \A q \in Procs : q # p => work'[q] = work[q] /\ \A d \in Fds : ofile'[q][d] = ofile[q][d]
         /\ UNCHANGED <<fs, iref, alive, wr>> /\ wr[p] = NoWrite
<1> DEFINE f0 == Min(FreeFiles)
           f1 == Min(FreeFiles \ {f0})
           d0 == Min(FreeFds(p))
           d1 == Min(FreeFds(p) \ {d0})
           e0(x) == [ref |-> 1, type |-> "pipe", ip |-> 0, off |-> 0, pipe |-> x, writable |-> FALSE]
           e1(x) == [ref |-> 1, type |-> "pipe", ip |-> 0, off |-> 0, pipe |-> x, writable |-> TRUE]
           Many == Cardinality(FreeFiles) > 1
<1>1. wr[p] = NoWrite /\ FreeFiles # {} /\ UNCHANGED <<fs, iref, alive, wr>>
  BY DEF Pipe, Ready
<1>2. /\ work \in [Procs -> Works] /\ ftable = [g \in Files |-> ftable[g]]
      /\ ofile \in [Procs -> [Fds -> 0..NFILE]]
  BY DEF FileInv, FileType, Descriptors
<1>3. \/ ftable' = [ftable EXCEPT ![f0].ref = 1] /\ UNCHANGED ofile
      \/ Many /\ ftable' = [ftable EXCEPT ![f0].ref = 1, ![f1].ref = 1] /\ UNCHANGED ofile
      \/ /\ Many
         /\ \E x \in Pipes :
              /\ ftable' = [ftable EXCEPT ![f0] = e0(x), ![f1] = e1(x)]
              /\ \/ /\ Cardinality(FreeFds(p)) > 1
                    /\ ofile' = [ofile EXCEPT ![p][d0] = f0, ![p][d1] = f1]
                 \/ UNCHANGED ofile
  BY DEF Pipe
<1>4. \A q \in Procs : q # p => work'[q] = work[q]
  BY <1>2 DEF Pipe
<1>5. NFILE \in Nat /\ NOFILE \in Nat \ {0} /\ IsFiniteSet(Procs)
  BY FileConstants
<1>6. f0 \in Files /\ ftable[f0].ref = 0
  BY <1>1, <1>5, FreeFile
<1>7. Many => f1 \in Files /\ f0 # f1 /\ ftable[f1].ref = 0
  <2>1. Many => /\ f0 \in Files /\ f1 \in Files /\ f0 # f1
                /\ ftable[f0].ref = 0 /\ ftable[f1].ref = 0
                /\ FileEntry(ftable[f0]) /\ FileEntry(ftable[f1])
    BY <1>5, TwoFiles
  <2> QED
    BY <2>1
<1>8. Cardinality(FreeFds(p)) > 1 =>
        d0 \in Fds /\ d1 \in Fds /\ d0 # d1 /\ ofile[p][d0] = 0 /\ ofile[p][d1] = 0
  BY <1>5, TwoDescriptors
<1> HIDE DEF f0, f1, d0, d1, Many
<1>9. /\ ftable[f0].type = "none" /\ [ftable[f0] EXCEPT !.ref = 1].type = "none"
      /\ [ftable[f0] EXCEPT !.ref = 1].off \in Nat
  BY <1>6, FreeEntry
<1>10. Many => /\ ftable[f1].type = "none" /\ [ftable[f1] EXCEPT !.ref = 1].type = "none"
               /\ [ftable[f1] EXCEPT !.ref = 1].off \in Nat
  BY <1>7, FreeEntry
<1>11. CASE ftable' = [ftable EXCEPT ![f0].ref = 1] /\ UNCHANGED ofile
  <2>1. \A g \in Files : ftable'[g] = IF g = f0 THEN [ftable[f0] EXCEPT !.ref = 1] ELSE ftable[g]
    BY <1>2, <1>11
  <2>2. Steady
    BY <1>9, <2>1, SteadyFrom
  <2>3. OnlyPipes
    BY <1>11 DEF OnlyPipes
  <2> QED
    BY <1>1, <1>4, <1>11, <2>2, <2>3
<1>12. CASE Many /\ ftable' = [ftable EXCEPT ![f0].ref = 1, ![f1].ref = 1] /\ UNCHANGED ofile
  <2>1. \A g \in Files : ftable'[g] = IF g = f1 THEN [ftable[f1] EXCEPT !.ref = 1]
                                      ELSE IF g = f0 THEN [ftable[f0] EXCEPT !.ref = 1] ELSE ftable[g]
    BY <1>2, <1>6, <1>7, <1>12
  <2>2. Steady
    BY <1>9, <1>10, <1>12, <2>1, SteadyFrom
  <2>3. OnlyPipes
    BY <1>12 DEF OnlyPipes
  <2> QED
    BY <1>1, <1>4, <1>12, <2>2, <2>3
<1>13. ASSUME Many, NEW x \in Pipes, ftable' = [ftable EXCEPT ![f0] = e0(x), ![f1] = e1(x)],
              \/ Cardinality(FreeFds(p)) > 1 /\ ofile' = [ofile EXCEPT ![p][d0] = f0, ![p][d1] = f1]
              \/ UNCHANGED ofile
       PROVE  /\ Steady /\ OnlyPipes
              /\ \A q \in Procs : q # p => \A d \in Fds : ofile'[q][d] = ofile[q][d]
  <2>1. /\ \A g \in Files : g # f0 /\ g # f1 => ftable'[g] = ftable[g]
        /\ ftable'[f0] = e0(x) /\ ftable'[f1] = e1(x)
    BY <1>2, <1>6, <1>7, <1>13
  <2>2. /\ ftable'[f0].type = "pipe" /\ ftable'[f1].type = "pipe"
        /\ ftable'[f0].off \in Nat /\ ftable'[f1].off \in Nat
    BY <2>1
  <2>3. Steady
    BY <1>9, <1>10, <1>13, <2>1, <2>2, SteadyFrom
  <2>4. CASE UNCHANGED ofile
    BY <2>3, <2>4 DEF OnlyPipes
  <2>5. CASE Cardinality(FreeFds(p)) > 1 /\ ofile' = [ofile EXCEPT ![p][d0] = f0, ![p][d1] = f1]
    <3>1. d0 \in Fds /\ d1 \in Fds /\ d0 # d1 /\ ofile[p][d0] = 0 /\ ofile[p][d1] = 0
      BY <1>8, <2>5
    <3>2. \A q \in Procs, d \in Fds : ofile'[q][d] =
             IF q = p /\ d = d0 THEN f0 ELSE IF q = p /\ d = d1 THEN f1 ELSE ofile[q][d]
      BY <1>2, <2>5, <3>1
    <3>3. OnlyPipes
      BY <1>6, <1>7, <1>13, <2>2, <3>1, <3>2 DEF OnlyPipes
    <3> QED
      BY <2>3, <3>2, <3>3
  <2> QED
    BY <1>13, <2>4, <2>5
<1> QED
  BY <1>1, <1>3, <1>4, <1>11, <1>12, <1>13

\* The entries that dup() and fork() change get more references.
LEMMA SteadyRefs ==
  ASSUME FileInv, BusyInv,
         \A f \in Files : \E n : ftable'[f] = [ftable[f] EXCEPT !.ref = n]
  PROVE  Steady
<1>1. ASSUME NEW f \in Files
      PROVE  /\ ftable'[f].type = ftable[f].type /\ ftable'[f].ip = ftable[f].ip
             /\ ftable'[f].off = ftable[f].off /\ ftable[f].off \in Nat
  <2>1. FileEntry(ftable[f]) /\ ftable[f].off \in Nat
    BY DEF FileInv, FileType, BusyInv
  <2>2. PICK n : ftable'[f] = [ftable[f] EXCEPT !.ref = n]
    OBVIOUS
  <2> QED
    BY <2>1, <2>2 DEF FileEntry
<1> QED
  BY <1>1 DEF Steady

\* dup()
LEMMA DupIs ==
  ASSUME FileInv, BusyInv, NEW p \in Procs, NEW d \in Fds, Dup(p, d)
  PROVE  /\ Steady /\ wr[p] = NoWrite /\ UNCHANGED <<fs, iref, alive, work, wr>>
         /\ \E e \in Fds : ofile[p][e] = 0 /\ ofile' = [ofile EXCEPT ![p][e] = ofile[p][d]]
<1> DEFINE e == Min(FreeFds(p))
           f == ofile[p][d]
<1>1. /\ wr[p] = NoWrite /\ f # 0 /\ FreeFds(p) # {} /\ UNCHANGED <<fs, iref, alive, work, wr>>
      /\ ofile' = [ofile EXCEPT ![p][e] = f]
      /\ ftable' = [ftable EXCEPT ![f].ref = @ + 1]
  BY DEF Dup, Ready
<1>2. e \in Fds /\ ofile[p][e] = 0
  BY <1>1, FileConstants, FreeDescriptor
<1>3. ftable = [g \in Files |-> ftable[g]]
  BY DEF FileInv, FileType
<1>4. ASSUME NEW g \in Files
      PROVE  \E n : ftable'[g] = [ftable[g] EXCEPT !.ref = n]
  <2>1. FileEntry(ftable[g])
    BY DEF FileInv, FileType
  <2>2. ftable[g] = [ftable[g] EXCEPT !.ref = ftable[g].ref]
    BY <2>1 DEF FileEntry
  <2>3. ftable'[g] = IF g = f THEN [ftable[g] EXCEPT !.ref = ftable[g].ref + 1] ELSE ftable[g]
    BY <1>1, <1>3
  <2> QED
    BY <2>2, <2>3
<1>5. Steady
  BY <1>4, SteadyRefs
<1> QED
  BY <1>1, <1>2, <1>5

\* fork()
LEMMA ForkIs ==
  ASSUME FileInv, BusyInv, NEW p \in Procs, NEW c \in Procs, Fork(p, c)
  PROVE  /\ Steady /\ UNCHANGED <<fs, iref, work, wr>> /\ alive' = alive \cup {c}
         /\ c \notin alive /\ ofile' = [ofile EXCEPT ![c] = ofile[p]]
<1>1. /\ UNCHANGED <<fs, iref, work, wr>> /\ alive' = alive \cup {c} /\ c \notin alive
      /\ ofile' = [ofile EXCEPT ![c] = ofile[p]] /\ ftable' = Duped(p)
  BY DEF Fork
<1>2. \A f \in Files : \E n : ftable'[f] = [ftable[f] EXCEPT !.ref = n]
  BY <1>1 DEF Duped
<1>3. Steady
  BY <1>2, SteadyRefs
<1> QED
  BY <1>1, <1>3

\* close(), and exit() for one of its descriptors.
LEMMA CloseCallIs ==
  ASSUME FileInv, NEW p \in Procs, (\E d \in Fds : Close(p, d)) \/ ExitClose(p)
  PROVE  /\ \E d \in Fds : ofile' = [ofile EXCEPT ![p][d] = 0]
         /\ p \in alive => wr[p] = NoWrite
         /\ \A q \in Procs : q # p => work'[q] = work[q]
         /\ UNCHANGED <<fs, iref, ftable, alive, wr>>
<1>1. work \in [Procs -> Works]
  BY DEF FileInv, FileType
<1>2. ASSUME NEW d \in Fds, Close(p, d)
      PROVE  /\ ofile' = [ofile EXCEPT ![p][d] = 0] /\ wr[p] = NoWrite
             /\ \A q \in Procs : q # p => work'[q] = work[q]
             /\ UNCHANGED <<fs, iref, ftable, alive, wr>>
  BY <1>1, <1>2 DEF Close, Ready
<1>3. CASE ExitClose(p)
  <2> DEFINE d == Min(Fds \ FreeFds(p))
  <2>1. /\ p \notin alive /\ FreeFds(p) # Fds /\ ofile' = [ofile EXCEPT ![p][d] = 0]
        /\ \A q \in Procs : q # p => work'[q] = work[q]
        /\ UNCHANGED <<fs, iref, ftable, alive, wr>>
    BY <1>1, <1>3 DEF ExitClose
  <2>2. Fds \ FreeFds(p) \subseteq Nat /\ Fds \ FreeFds(p) # {}
    BY <2>1, FileConstants DEF FreeFds, Fds
  <2>3. d \in Fds
    BY <2>2, MinIn
  <2> HIDE DEF d
  <2> QED
    BY <2>1, <2>3
<1> QED
  BY <1>2, <1>3

\* close() and exit() are called by one that is not in a filewrite().
LEMMA BusyCloseCall ==
  ASSUME FileInv, BusyInv, NEW p \in Procs, (\E d \in Fds : Close(p, d)) \/ ExitClose(p)
  PROVE  BusyInv'
<1>1. PICK d \in Fds : ofile' = [ofile EXCEPT ![p][d] = 0]
  BY CloseCallIs
<1>2. /\ p \in alive => wr[p] = NoWrite
      /\ \A q \in Procs : q # p => work'[q] = work[q]
      /\ UNCHANGED <<fs, iref, ftable, alive, wr>>
  BY CloseCallIs
<1>3. ofile \in [Procs -> [Fds -> 0..NFILE]]
  BY DEF FileInv, FileType, Descriptors
<1>4. \A q \in Procs, e \in Fds : q # p => ofile'[q][e] = ofile[q][e]
  BY <1>1, <1>3
<1>5. \A f \in Files : ftable'[f].off \in Nat
  BY <1>2 DEF BusyInv
<1> QED
  BY <1>2, <1>4, <1>5, Undisturbed

\* dup(), fork() and pipe()
LEMMA BusyShare ==
  ASSUME FileInv, BusyInv, NEW p \in Procs,
         \/ Pipe(p) \/ \E c \in Procs : Fork(p, c)
         \/ \E d \in Fds : Dup(p, d)
  PROVE  BusyInv'
<1>1. ofile \in [Procs -> [Fds -> 0..NFILE]]
  BY DEF FileInv, FileType, Descriptors
<1>2. CASE Pipe(p)
  <2>1. /\ Steady /\ wr[p] = NoWrite /\ UNCHANGED <<alive, wr>>
        /\ \A q \in Procs : q # p => work'[q] = work[q] /\ \A d \in Fds : ofile'[q][d] = ofile[q][d]
    BY <1>2, PipeIs
  <2> QED
    BY <2>1, Undisturbed DEF Steady
<1>3. ASSUME NEW c \in Procs, Fork(p, c)
      PROVE  BusyInv'
  <2>1. /\ Steady /\ UNCHANGED <<work, wr>> /\ alive' = alive \cup {c}
        /\ c \notin alive /\ ofile' = [ofile EXCEPT ![c] = ofile[p]]
    BY <1>3, ForkIs
  <2>2. \A q \in Procs, e \in Fds : q # c => ofile'[q][e] = ofile[q][e]
    BY <1>1, <2>1
  <2> QED
    BY <2>1, <2>2, Undisturbed DEF Steady
<1>4. ASSUME NEW d \in Fds, Dup(p, d)
      PROVE  BusyInv'
  <2>1. Steady /\ wr[p] = NoWrite /\ UNCHANGED <<alive, work, wr>>
    BY <1>4, DupIs
  <2>2. \A q \in Procs, e \in Fds : q # p => ofile'[q][e] = ofile[q][e]
    <3>1. PICK e \in Fds : ofile' = [ofile EXCEPT ![p][e] = ofile[p][d]]
      BY <1>4, DupIs
    <3> QED
      BY <1>1, <3>1
  <2> QED
    BY <2>1, <2>2, Undisturbed DEF Steady
<1> QED
  BY <1>2, <1>3, <1>4

\* The place of a file moves.
LEMMA OffsetMoved ==
  ASSUME FileInv, BusyInv, NEW f \in Files, NEW r \in Nat,
         ftable' = [ftable EXCEPT ![f].off = @ + r]
  PROVE  /\ \A g \in Files : g # f => ftable'[g] = ftable[g]
         /\ ftable'[f].type = ftable[f].type /\ ftable'[f].ip = ftable[f].ip
         /\ ftable'[f].off = ftable[f].off + r
         /\ \A g \in Files : ftable'[g].off \in Nat
<1>1. FileEntry(ftable[f]) /\ ftable = [g \in Files |-> ftable[g]]
  BY DEF FileInv, FileType
<1>2. \A g \in Files : ftable[g].off \in Nat
  BY DEF BusyInv
<1>3. /\ \A g \in Files : g # f => ftable'[g] = ftable[g]
      /\ ftable'[f] = [ftable[f] EXCEPT !.off = ftable[f].off + r]
  BY <1>1
<1>4. /\ ftable'[f].type = ftable[f].type /\ ftable'[f].ip = ftable[f].ip
      /\ ftable'[f].off = ftable[f].off + r
  BY <1>1, <1>3 DEF FileEntry
<1> QED
  BY <1>2, <1>3, <1>4

\* fileread()
LEMMA BusyRead ==
  ASSUME FileInv, FsInv, NEW p \in Procs, NEW d \in Fds, NEW n \in Sizes, Read(p, d, n)
  PROVE  BusyInv'
<1>1. BusyInv /\ UNCHANGED <<ofile, alive, work, wr>>
  BY DEF FsInv, Read
<1>2. PICK r \in Nat : ReadAt(ofile[p][d], r)
  BY ReadIs
<1> DEFINE f == ofile[p][d]
<1>3. f \in Files /\ ftable' = [ftable EXCEPT ![f].off = @ + r]
  BY <1>2 DEF ReadAt
<1> HIDE DEF f
<1>4. /\ \A g \in Files : g # f => ftable'[g] = ftable[g]
      /\ ftable'[f].type = ftable[f].type
      /\ \A g \in Files : ftable'[g].off \in Nat
  BY <1>1, <1>3, OffsetMoved
<1>5. \A q \in Procs : wr[q] # NoWrite => /\ q \in alive /\ wr[q].f \in Files
                                          /\ ftable[wr[q].f].type = "inode"
  BY <1>1 DEF BusyInv, Writing
<1>6. \A q \in Procs : wr[q] # NoWrite => ftable'[wr[q].f].type = "inode"
  BY <1>4, <1>5
<1> QED
  BY <1>1, <1>4, <1>5, <1>6, WriteKept

\* filewrite()
LEMMA BusyChunk ==
  ASSUME FileInv, FsInv, NEW p \in Procs, NEW f \in Files, ftable[f].type = "inode",
         NEW n \in Nat, Chunk(p, f, n), p \in alive, work[p] = <<>>,
         \E d \in Fds : ofile[p][d] = f
  PROVE  BusyInv'
<1>1. BusyInv /\ UNCHANGED <<ofile, alive, work>>
  BY DEF FsInv, Chunk
<1>2. wr = [q \in Procs |-> wr[q]] /\ \A q \in Procs : Writing(q)
  BY <1>1 DEF BusyInv
<1>3. CASE WriteEnds(p)
  <2>1. /\ wr' = [q \in Procs |-> wr'[q]] /\ ftable' = ftable
        /\ \A q \in Procs : wr'[q] # NoWrite => wr'[q] = wr[q]
    BY <1>2, <1>3 DEF WriteEnds
  <2>2. ASSUME NEW q \in Procs
        PROVE  Writing(q)'
    BY <1>1, <1>2, <2>1 DEF Writing
  <2> QED
    BY <1>1, <2>1, <2>2 DEF BusyInv
<1>4. ASSUME NEW n1 \in Nat, WriteAt(p, f, n, n1)
      PROVE  BusyInv'
  <2>1. /\ ftable' = [ftable EXCEPT ![f].off = @ + n1] /\ n1 <= n
        /\ wr' = [wr EXCEPT ![p] = IF n1 = n THEN NoWrite ELSE [f |-> f, n |-> n - n1]]
    BY <1>4 DEF WriteAt
  <2>2. /\ \A g \in Files : g # f => ftable'[g] = ftable[g]
        /\ ftable'[f].type = ftable[f].type
        /\ \A g \in Files : ftable'[g].off \in Nat
    BY <1>1, <2>1, OffsetMoved
  <2>3. /\ wr' = [q \in Procs |-> wr'[q]]
        /\ \A q \in Procs : q # p => wr'[q] = wr[q]
        /\ wr'[p] # NoWrite => wr'[p].f = f /\ wr'[p].n \in Nat
    BY <1>2, <2>1
  <2>4. ASSUME NEW q \in Procs, wr'[q] # NoWrite
        PROVE  Writing(q)'
    <3>1. CASE q = p
      BY <1>1, <2>2, <2>3, <2>4, <3>1 DEF Writing
    <3>2. CASE q # p
      <4>1. Writing(q) /\ wr'[q] = wr[q] /\ wr[q] # NoWrite
        BY <1>2, <2>3, <2>4, <3>2
      <4> QED
        BY <1>1, <2>2, <4>1 DEF Writing
    <3> QED
      BY <3>1, <3>2
  <2>5. \A q \in Procs : Writing(q)'
    BY <2>4 DEF Writing
  <2> QED
    BY <2>2, <2>3, <2>5 DEF BusyInv
<1> QED
  BY <1>3, <1>4, ChunkIs

\* A filewrite() begins or goes on: it is a piece of a write to an open file.
LEMMA WriteCallIs ==
  ASSUME FileInv, FsInv, NEW p \in Procs,
         WriteMore(p) \/ \E d \in Fds, n \in Sizes : Write(p, d, n)
  PROVE  \E f \in Files, n \in Nat :
            /\ ftable[f].type = "inode" /\ Chunk(p, f, n)
            /\ p \in alive /\ work[p] = <<>> /\ \E d \in Fds : ofile[p][d] = f
<1>1. CASE WriteMore(p)
  <2>1. wr[p] # NoWrite /\ Chunk(p, wr[p].f, wr[p].n) /\ Writing(p)
    BY <1>1 DEF WriteMore, FsInv, BusyInv
  <2> QED
    BY <2>1 DEF Writing
<1>2. ASSUME NEW d \in Fds, NEW n \in Sizes, Write(p, d, n)
      PROVE  \E f \in Files, m \in Nat :
                /\ ftable[f].type = "inode" /\ Chunk(p, f, m)
                /\ p \in alive /\ work[p] = <<>> /\ \E e \in Fds : ofile[p][e] = f
  <2>1. /\ ofile[p][d] # 0 /\ ftable[ofile[p][d]].type = "inode" /\ Chunk(p, ofile[p][d], n)
        /\ p \in alive /\ work[p] = <<>>
    BY <1>2 DEF Write, Ready
  <2>2. ofile[p][d] \in Files /\ n \in Nat
    BY <2>1, OpenDesc, FileAssumption
  <2> QED
    BY <2>1, <2>2
<1> QED
  BY <1>1, <1>2

\* open(), with and without O_CREATE.
LEMMA DiskOpen ==
  ASSUME FileInv, FsInv, NEW p \in Procs, Open(p) \/ Create(p)
  PROVE  FsInv'
<1>1. DiskInv /\ BusyInv
  BY DEF FsInv
<1>2. CASE Open(p)
  <2>1. PICK i \in Named : OpenFile(p, Iget(fs, i), i)
    BY <1>2 DEF Open
  <2>2. fs' = Iget(fs, i) /\ iref' = [iref EXCEPT ![i] = @ + 1]
    BY <1>1, <2>1, OpenFileIs
  <2>3. i \in Inums /\ Got(Iget(fs, i), i)
    BY <1>1, NamedIs, OpenGot
  <2>4. DiskInv'
    BY <1>1, <2>2, <2>3, DiskGot
  <2>5. wr[p] = NoWrite
    BY <1>2 DEF Open, Ready
  <2>6. BusyInv'
    BY <1>1, <2>1, <2>5, BusyOpen
  <2> QED
    BY <2>4, <2>6 DEF FsInv
<1>3. CASE Create(p)
  <2> DEFINE i == FreeInum
             s == [fs EXCEPT !.dinode[i] = NewInode, !.inode[i] = NewInode]
  <2>1. /\ OpenFile(p, s, i) /\ Named = {} /\ wr[p] = NoWrite
        /\ \E j \in Inums : ~fs.dinode[j].used
    BY <1>3 DEF Create, Ready, NewInode
  <2>2. i \in Inums /\ Made(s, i)
    BY <1>1, <2>1, CreateMade
  <2> HIDE DEF i, s
  <2>3. fs' = s /\ iref' = [iref EXCEPT ![i] = @ + 1]
    BY <1>1, <2>1, OpenFileIs
  <2>4. DiskInv'
    BY <1>1, <2>1, <2>2, <2>3, DiskMade
  <2>5. BusyInv'
    BY <1>1, <2>1, BusyOpen
  <2> QED
    BY <2>4, <2>5 DEF FsInv
<1> QED
  BY <1>2, <1>3

\* unlink()
LEMMA DiskUnlink ==
  ASSUME FileInv, FsInv, NEW p \in Procs, Unlink(p)
  PROVE  FsInv'
<1>1. DiskInv /\ BusyInv
  BY DEF FsInv
<1>2. PICK i \in Named : /\ fs' = iupdate([Iget(fs, i) EXCEPT !.inode[i].nlink = 0], i)
                         /\ iref' = [iref EXCEPT ![i] = @ + 1]
                         /\ work' = [work EXCEPT ![p] = <<IputOf(i)>>]
  BY DEF Unlink
<1>3. wr[p] = NoWrite /\ UNCHANGED <<ftable, ofile, alive, wr>>
  BY DEF Unlink, Ready
<1>4. i \in Inums /\ Got(fs', i)
  BY <1>1, <1>2, NamedIs, UnlinkGot
<1>5. DiskInv'
  BY <1>1, <1>2, <1>4, DiskGot
<1>6. work \in [Procs -> Works]
  BY DEF FileInv, FileType
<1>7. \A q \in Procs : q # p => work'[q] = work[q]
  BY <1>2, <1>6
<1>8. \A f \in Files : ftable'[f].off \in Nat
  BY <1>1, <1>3 DEF BusyInv
<1>9. BusyInv'
  BY <1>1, <1>3, <1>7, <1>8, Undisturbed
<1> QED
  BY <1>5, <1>9 DEF FsInv

\* iput(), pipeclose() and exit() leave the open files alone.
LEMMA BusyOther ==
  ASSUME FileInv, BusyInv, NEW p \in Procs, Iput(p) \/ PipeClose(p) \/ Exit(p)
  PROVE  BusyInv'
<1>1. work \in [Procs -> Works]
  BY DEF FileInv, FileType
<1>2. /\ UNCHANGED <<ftable, ofile, wr>>
      /\ p \in alive => work[p] # <<>> \/ wr[p] = NoWrite
      /\ \A q \in Procs : q # p /\ q \in alive => q \in alive' /\ work'[q] = work[q]
  <2>1. CASE Iput(p)
    BY <1>1, <2>1 DEF Iput
  <2>2. CASE PipeClose(p)
    BY <1>1, <2>2 DEF PipeClose
  <2>3. CASE Exit(p)
    BY <2>3 DEF Exit, Ready
  <2> QED
    BY <2>1, <2>2, <2>3
<1>3. \A f \in Files : ftable'[f].off \in Nat
  BY <1>2 DEF BusyInv
<1> QED
  BY <1>2, <1>3, Undisturbed

\* Every step keeps the invariant of the disk.
LEMMA FsNextInv ==
  ASSUME FileInv, FsInv, [FileNext]_fileVars
  PROVE  FsInv'
<1> USE DEF FsInv
<1>1. CASE UNCHANGED fileVars
  BY <1>1 DEF fileVars, DiskInv, BusyInv, Writing
<1>2. ASSUME NEW p \in Procs, FileStep(p)
      PROVE  FsInv'
  <2>1. CASE FileClose(p)
    <3>1. UNCHANGED <<fs, iref>>
      BY <2>1 DEF FileClose
    <3> QED
      BY <2>1, <3>1, BusyClose, DiskUnchanged
  <2>2. CASE Iput(p)
    BY <2>2, BusyOther, DiskIput
  <2>3. CASE PipeClose(p) \/ Exit(p)
    <3>1. UNCHANGED <<fs, iref>>
      BY <2>3 DEF PipeClose, Exit
    <3> QED
      BY <2>3, <3>1, BusyOther, DiskUnchanged
  <2>4. CASE Open(p) \/ Create(p)
    BY <2>4, DiskOpen
  <2>5. CASE Unlink(p)
    BY <2>5, DiskUnlink
  <2>6. CASE (\E d \in Fds : Close(p, d)) \/ ExitClose(p)
    <3>1. UNCHANGED <<fs, iref>>
      BY <2>6, CloseCallIs
    <3> QED
      BY <2>6, <3>1, BusyCloseCall, DiskUnchanged
  <2>7. CASE Pipe(p) \/ (\E c \in Procs : Fork(p, c)) \/ \E d \in Fds : Dup(p, d)
    <3>1. UNCHANGED <<fs, iref>>
      BY <2>7 DEF Pipe, Fork, Dup
    <3> QED
      BY <2>7, <3>1, BusyShare, DiskUnchanged
  <2>8. ASSUME NEW d \in Fds, NEW n \in Sizes, Read(p, d, n)
        PROVE  FsInv'
    <3>1. UNCHANGED <<fs, iref>>
      <4>1. PICK r \in Nat : ReadAt(ofile[p][d], r)
        BY <2>8, ReadIs
      <4> QED
        BY <2>8, <4>1 DEF Read, ReadAt
    <3> QED
      BY <2>8, <3>1, BusyRead, DiskUnchanged
  <2>9. CASE WriteMore(p) \/ \E d \in Fds, n \in Sizes : Write(p, d, n)
    <3>1. PICK f \in Files, n \in Nat :
            /\ ftable[f].type = "inode" /\ Chunk(p, f, n)
            /\ p \in alive /\ work[p] = <<>> /\ \E d \in Fds : ofile[p][d] = f
      BY <2>9, WriteCallIs
    <3>2. BusyInv'
      BY <3>1, BusyChunk
    <3>3. UNCHANGED iref
      BY <3>1 DEF Chunk
    <3>4. CASE WriteEnds(p)
      BY <3>2, <3>3, <3>4, DiskUnchanged DEF WriteEnds
    <3>5. ASSUME NEW n1 \in Nat, WriteAt(p, f, n, n1)
          PROVE  FsInv'
      BY <3>1, <3>2, <3>3, <3>5, DiskWrite
    <3> QED
      BY <3>1, <3>4, <3>5, ChunkIs
  <2> QED
    BY <1>2, <2>1, <2>2, <2>3, <2>4, <2>5, <2>6, <2>7, <2>8, <2>9 DEF FileStep
<1> QED
  BY <1>1, <1>2 DEF FileNext

\* The empty disk is in order.
LEMMA FsInitInv == FileInit => FsInv
<1> SUFFICES ASSUME FileInit PROVE FsInv
  OBVIOUS
<1>1. /\ fs = Blank /\ iref = [i \in Inums |-> 0] /\ ftable = [f \in Files |-> None]
      /\ wr = [p \in Procs |-> NoWrite]
  BY DEF FileInit
<1>2. /\ fs.used = {} /\ fs.data = [b \in DataBlocks |-> Junk]
      /\ fs.dinode = [i \in Inums |-> NoInode] /\ fs.inode = [i \in Inums |-> NoInode]
      /\ fs = [used |-> fs.used, data |-> fs.data, dinode |-> fs.dinode, inode |-> fs.inode]
  BY <1>1 DEF Blank
<1>3. fs \in FsType
  <2>1. fs.data \in [DataBlocks -> [Words -> Datum]]
    BY <1>2 DEF Junk, Datum
  <2>2. fs.dinode \in [Inums -> Inodes] /\ fs.inode \in [Inums -> Inodes]
    BY <1>2, NoInodeIs
  <2> QED
    BY <1>2, <2>1, <2>2 DEF FsType
<1>4. \A i \in Inums : Addrs(fs.dinode)[i] = NoAddrs /\ PlaceCounts(fs.dinode)[i] = 0
  BY <1>2, NoInodeIs DEF Addrs, PlaceCounts
<1>5. \A i \in Inums, k \in Places : Num(fs.data, Addrs(fs.dinode)[i], k) = 0 /\ ~(k < 0)
  <2>1. ASSUME NEW i \in Inums, NEW k \in Places
        PROVE  Num(fs.data, Addrs(fs.dinode)[i], k) = 0 /\ ~(k < 0)
    <3>1. Addrs(fs.dinode)[i] = NoAddrs /\ k \in Nat
      BY <1>4, InodeConstants DEF Places
    <3>2. NoAddrs[NDIRECT] = 0 /\ (k <= NDIRECT => NoAddrs[k] = 0)
      BY <3>1, InodeConstants DEF NoAddrs
    <3> QED
      BY <3>1, <3>2 DEF Num
  <2> QED
    BY <2>1
<1>6. Solid(fs)
  BY <1>2, <1>3, <1>4, <1>5 DEF Solid, Layout
<1>7. DiskInv
  BY <1>1, <1>2, <1>6, NoInodeIs DEF DiskInv
<1>8. BusyInv
  BY <1>1 DEF BusyInv, Writing, None
<1> QED
  BY <1>7, <1>8 DEF FsInv

\* BlocksOwned says of the sets of blocks what Layout says of the places.
LEMMA DiskInvOwned ==
  ASSUME DiskInv
  PROVE  BlocksOwned
<1> DEFINE e == [fs EXCEPT !.inode = fs.dinode]
           A == Addrs(fs.dinode)
           C == PlaceCounts(fs.dinode)
           B(i) == BlocksOf(e, i)
<1>1. Solid(fs) /\ fs \in FsType
  BY DEF DiskInv, Solid
<1>2. e.used = fs.used /\ e.data = fs.data /\ e.inode = fs.dinode
  BY <1>1 DEF FsType
<1> HIDE DEF e
<1>3. \A i \in Inums : B(i) = TakenBy(fs.data, A, C, i) /\ Cardinality(B(i)) = C[i]
  BY <1>1, <1>2, SolidBlocks
<1> HIDE DEF A, C, B
<1>4. Layout(fs.used, fs.data, A, C)
  BY <1>1 DEF Solid, A, C
<1>5. fs.used = UNION {B(i) : i \in Inums}
  <2>1. ASSUME NEW b \in fs.used
        PROVE  \E i \in Inums : b \in B(i)
    <3>1. PICK i \in Inums, k \in Places : k < C[i] /\ Num(fs.data, A[i], k) = b
      BY <1>4 DEF Layout
    <3>2. b \in TakenBy(fs.data, A, C, i)
      BY <3>1 DEF TakenBy
    <3> QED
      BY <1>3, <3>2
  <2>2. ASSUME NEW i \in Inums, NEW b \in B(i)
        PROVE  b \in fs.used
    <3>1. b \in TakenBy(fs.data, A, C, i)
      BY <1>3
    <3> QED
      BY <1>4, <3>1 DEF TakenBy, Layout
  <2> QED
    BY <2>1, <2>2
<1>6. ASSUME NEW i \in Inums, NEW j \in Inums, i # j
      PROVE  B(i) \cap B(j) = {}
  <2>1. ASSUME NEW b \in TakenBy(fs.data, A, C, i), b \in TakenBy(fs.data, A, C, j)
        PROVE  FALSE
    BY <1>4, <1>6, <2>1 DEF TakenBy, Layout
  <2> QED
    BY <1>3, <2>1
<1>7. ASSUME NEW i \in Inums
      PROVE  Cardinality(B(i)) = LET n == (e.inode[i].size + BSIZE - 1) \div BSIZE
                                 IN IF n > NDIRECT THEN n + 1 ELSE n
  <2>1. Cardinality(B(i)) = PlacesOf(BlocksFor(fs.dinode[i].size))
    BY <1>3 DEF C, PlaceCounts
  <2> QED
    BY <1>2, <2>1 DEF PlacesOf, BlocksFor
<1>8. \A i \in Inums : iref[i] > 0 => fs.inode[i] = fs.dinode[i]
  BY DEF DiskInv, Same
<1> QED
  BY <1>5, <1>6, <1>7, <1>8 DEF BlocksOwned, B, e

\* The disk stays in order, whatever the calls do.
THEOREM FileDiskInvariant ==
  FileSpec => [](FileInv /\ FsInv)
<1>1. FileInit => FileInv /\ FsInv
  BY FileInitInv, FsInitInv
<1>2. FileInv /\ FsInv /\ [FileNext]_fileVars => (FileInv /\ FsInv)'
  BY FileNextInv, FsNextInv
<1> QED
  BY <1>1, <1>2, PTL DEF FileSpec

\* No block is shared, lost or freed twice, and the inodes in the cache agree
\* with the disk, for files of any size and any number of them.
THEOREM FileBlocksOwned ==
  FileSpec => []BlocksOwned
<1>1. FsInv => BlocksOwned
  BY DiskInvOwned DEF FsInv
<1> QED
  BY <1>1, FileDiskInvariant, PTL

-----------------------------------------------------------------------------
(* Open files as streams                                                   *)

\* What file i is to those who read it, on the disk s.
ContentOf(s, i) == ReadData([s EXCEPT !.inode = s.dinode], i, 0, s.dinode[i].size)

\* The words of a file are those in its blocks.
LEMMA ContentIs ==
  ASSUME NEW s, Solid(s), NEW i \in Inums
  PROVE  /\ s.dinode[i].size \in 0..(MAXFILE * BSIZE)
         /\ ContentOf(s, i) = [k \in 1..s.dinode[i].size |-> Word(s, i, k - 1)]
<1> DEFINE e == [s EXCEPT !.inode = s.dinode]
           z == s.dinode[i].size
<1>1. s \in FsType
  BY DEF Solid
<1>2. e.data = s.data /\ e.inode = s.dinode
  BY <1>1 DEF FsType
<1>3. z \in 0..(MAXFILE * BSIZE) /\ z \in Nat
  <2>1. z \in 0..(MAXFILE * BSIZE)
    BY <1>1 DEF FsType, Inodes
  <2>2. MAXFILE * BSIZE \in Nat
    BY InodeConstants
  <2> QED
    BY <2>1, <2>2
<1> HIDE DEF e, z
<1>4. ASSUME NEW k \in 1..z
      PROVE  e.data[Addr(e, i, (0 + k - 1) \div BSIZE)][(0 + k - 1) % BSIZE] = Word(s, i, k - 1)
  <2> DEFINE x == k - 1
             b == x \div BSIZE
  <2>1. x \in Nat /\ x < z /\ 0 + k - 1 = x
    BY <1>3
  <2> HIDE DEF x
  <2>2. b \in Blocknums
    BY <1>3, <2>1, WordCell
  <2>3. Addr(e, i, b) = Num(e.data, e.inode[i].addrs, PlaceOf(b))
    BY <2>2, AddrIs DEF Blocknums
  <2>4. e.data[Addr(e, i, b)][x % BSIZE] = Word(s, i, x)
    BY <1>2, <2>3 DEF Word
  <2> QED
    BY <2>1, <2>4 DEF x
<1>5. ContentOf(s, i) = [k \in 1..z |->
          e.data[Addr(e, i, (0 + k - 1) \div BSIZE)][(0 + k - 1) % BSIZE]]
  BY DEF ContentOf, ReadData, e, z
<1>6. ContentOf(s, i) = [k \in 1..z |-> Word(s, i, k - 1)]
  BY <1>4, <1>5
<1> QED
  BY <1>3, <1>6 DEF z

\* A file whose words are the same has the same content.
LEMMA ContentKept ==
  ASSUME NEW s, Solid(s), NEW r, Solid(r), NEW i \in Inums,
         r.dinode[i].size = s.dinode[i].size,
         \A x \in Nat : x < s.dinode[i].size => Word(r, i, x) = Word(s, i, x)
  PROVE  ContentOf(r, i) = ContentOf(s, i)
<1> DEFINE z == s.dinode[i].size
<1>1. z \in Nat
  <2>1. z \in 0..(MAXFILE * BSIZE) /\ MAXFILE * BSIZE \in Nat
    BY ContentIs, InodeConstants
  <2> QED
    BY <2>1
<1>2. /\ ContentOf(s, i) = [k \in 1..z |-> Word(s, i, k - 1)]
      /\ ContentOf(r, i) = [k \in 1..z |-> Word(r, i, k - 1)]
  BY ContentIs
<1>3. ASSUME NEW k \in 1..z
      PROVE  Word(r, i, k - 1) = Word(s, i, k - 1)
  <2>1. k - 1 \in Nat /\ k - 1 < z
    BY <1>1
  <2> QED
    BY <2>1
<1> QED
  BY <1>2, <1>3

\* What a descriptor is if the table is t.
Desc(t, g) == IF g # 0 /\ t[g].type = "inode" THEN g ELSE 0
PlaceAt(e) == IF e.type = "inode" THEN [ip |-> e.ip, off |-> e.off] ELSE [ip |-> 0, off |-> 0]

\* The mapping, in terms of one file, one entry and one descriptor.
LEMMA StreamsAre ==
  /\ StreamExist = {i \in Inums : fs.dinode[i].used}
  /\ StreamContent = [i \in Inums |-> ContentOf(fs, i)]
  /\ StreamPlace = [f \in Files |-> PlaceAt(ftable[f])]
  /\ StreamFds = [p \in Procs |-> [d \in Fds |-> Desc(ftable, ofile[p][d])]]
BY DEF StreamExist, StreamContent, StreamPlace, StreamFds, ContentOf, PlaceAt, Desc

\* The same after a step.
LEMMA StreamsAreNext ==
  /\ StreamExist' = {i \in Inums : fs'.dinode[i].used}
  /\ StreamContent' = [i \in Inums |-> ContentOf(fs', i)]
  /\ StreamPlace' = [f \in Files |-> PlaceAt(ftable'[f])]
  /\ StreamFds' = [p \in Procs |-> [d \in Fds |-> Desc(ftable', ofile'[p][d])]]
BY DEF StreamExist, StreamContent, StreamPlace, StreamFds, ContentOf, PlaceAt, Desc

\* The name is that of the one file that has it.
LEMMA NameIs ==
  ASSUME DiskInv
  PROVE  /\ StreamName = 0 <=> Named = {}
         /\ \A i \in Named : StreamName = i
         /\ StreamName # 0 => StreamName \in Named
<1>1. Named \subseteq Nat \ {0}
  BY InodeConstants DEF Named
<1>2. Named # {} => StreamName \in Named
  <2>1. Named # {} => Min(Named) \in Named
    BY <1>1, MinIn
  <2> QED
    BY <2>1 DEF StreamName
<1>3. \A i, j \in Named : i = j
  BY DEF Named, DiskInv
<1>4. Named = {} => StreamName = 0
  BY DEF StreamName
<1> QED
  BY <1>1, <1>2, <1>3, <1>4

\* The disk stays as it is.
LEMMA SameDisk ==
  ASSUME fs' = fs
  PROVE  UNCHANGED <<StreamExist, StreamContent, StreamName>>
BY DEF StreamExist, StreamContent, StreamName, Named

\* The open files stay as they are.
LEMMA SamePlaces ==
  ASSUME Steady
  PROVE  /\ StreamPlace' = StreamPlace
         /\ \A g \in 0..NFILE : Desc(ftable', g) = Desc(ftable, g)
<1>1. \A f \in Files : PlaceAt(ftable'[f]) = PlaceAt(ftable[f])
  BY DEF Steady, PlaceAt
<1>2. StreamPlace' = StreamPlace
  BY <1>1, StreamsAre, StreamsAreNext
<1>3. ASSUME NEW g \in 0..NFILE
      PROVE  Desc(ftable', g) = Desc(ftable, g)
  <2>1. g = 0 \/ g \in Files
    BY FileConstants DEF Files
  <2> QED
    BY <2>1 DEF Steady, Desc
<1> QED
  BY <1>2, <1>3

\* A step of Streams, or one that it does not see.
Simulated == Abstractly!Next \/ UNCHANGED Abstractly!vars

\* A step that changes nothing of the mapping is not seen.
LEMMA Unseen ==
  ASSUME UNCHANGED <<StreamExist, StreamContent, StreamName, StreamPlace, StreamFds>>
  PROVE  Simulated
BY DEF Simulated, Abstractly!vars

\* Nothing changes but what Streams does not see.
LEMMA SameFds ==
  ASSUME FileInv, Steady, UNCHANGED ofile
  PROVE  StreamPlace' = StreamPlace /\ StreamFds' = StreamFds
<1>1. ofile \in [Procs -> [Fds -> 0..NFILE]]
  BY DEF FileInv, FileType, Descriptors
<1>2. StreamPlace' = StreamPlace /\ \A g \in 0..NFILE : Desc(ftable', g) = Desc(ftable, g)
  BY SamePlaces
<1>3. \A p \in Procs, d \in Fds : Desc(ftable', ofile'[p][d]) = Desc(ftable, ofile[p][d])
  BY <1>1, <1>2
<1> QED
  BY <1>2, <1>3, StreamsAre, StreamsAreNext

\* fileclose() of the last reference leaves the place.
LEMMA SimClose ==
  ASSUME FileInv, FsInv, NEW p \in Procs, FileClose(p)
  PROVE  Simulated
<1> DEFINE f == Head(work[p]).x
<1> HIDE DEF f
<1>1. /\ f \in Files
      /\ \A q \in Procs, d \in Fds : ofile[q][d] = f => ftable[f].ref > 1
      /\ UNCHANGED <<fs, ofile>>
  BY CloseIs DEF f
<1>2. /\ \A g \in Files : g # f => ftable'[g] = ftable[g]
      /\ ftable[f].ref > 1 => Steady
      /\ ~(ftable[f].ref > 1) => ftable'[f].type = "none"
  BY CloseEntry DEF f, FsInv
<1>3. UNCHANGED <<StreamExist, StreamContent, StreamName>>
  BY <1>1, SameDisk
<1>4. CASE ftable[f].ref > 1
  <2>1. StreamPlace' = StreamPlace /\ StreamFds' = StreamFds
    BY <1>1, <1>2, <1>4, SameFds
  <2> QED
    BY <1>3, <2>1, Unseen
<1>5. CASE ~(ftable[f].ref > 1)
  <2>1. ofile \in [Procs -> [Fds -> 0..NFILE]]
    BY DEF FileInv, FileType, Descriptors
  <2>2. \A q \in Procs, d \in Fds : ofile[q][d] # f
    BY <1>1, <1>5
  <2>3. ASSUME NEW q \in Procs, NEW d \in Fds
        PROVE  Desc(ftable', ofile'[q][d]) = Desc(ftable, ofile[q][d]) /\ Desc(ftable, ofile[q][d]) # f
    <3>1. ofile[q][d] = 0 \/ ofile[q][d] \in Files
      BY <2>1, FileConstants DEF Files
    <3>2. f # 0
      BY <1>1, FileConstants DEF Files
    <3> QED
      BY <1>1, <1>2, <2>2, <3>1, <3>2 DEF Desc
  <2>4. StreamFds' = StreamFds
    BY <2>3, StreamsAre, StreamsAreNext
  <2>5. \A q \in Procs, d \in Fds : StreamFds[q][d] # f
    BY <2>3, StreamsAre
  <2>6. StreamPlace' = [StreamPlace EXCEPT ![f] = [ip |-> 0, off |-> 0]]
    <3>1. PlaceAt(ftable'[f]) = [ip |-> 0, off |-> 0]
      BY <1>2, <1>5 DEF PlaceAt
    <3>2. \A g \in Files : g # f => PlaceAt(ftable'[g]) = PlaceAt(ftable[g])
      BY <1>2
    <3> QED
      BY <1>1, <3>1, <3>2, StreamsAre, StreamsAreNext
  <2>7. Abstractly!Leave(f)
    BY <1>3, <2>4, <2>5, <2>6 DEF Abstractly!Leave, Abstractly!Closed
  <2>8. Abstractly!Next
    BY <1>1, <2>7 DEF Abstractly!Next
  <2> QED
    BY <2>8 DEF Simulated
<1> QED
  BY <1>4, <1>5

\* iput() of the last reference to a file without a name ends it.
LEMMA SimIput ==
  ASSUME FileInv, FsInv, NEW p \in Procs, Iput(p)
  PROVE  Simulated
<1> DEFINE i == Head(work[p]).x
<1>1. DiskInv /\ Solid(fs)
  BY DEF FsInv, DiskInv
<1>2. /\ i \in Inums /\ Head(work[p]) = IputOf(i) /\ work[p] # <<>>
      /\ IF fs.dinode[i].nlink = 0 /\ iref[i] = 1
         THEN Solid(fs') /\ Freed(fs, fs', i) ELSE fs' = fs
  BY <1>1, IputIs
<1> HIDE DEF i
<1>3. UNCHANGED <<ftable, ofile>>
  BY DEF Iput
<1>4. StreamPlace' = StreamPlace /\ StreamFds' = StreamFds
  BY <1>3, StreamsAre, StreamsAreNext
<1>5. CASE ~(fs.dinode[i].nlink = 0 /\ iref[i] = 1)
  <2>1. UNCHANGED <<StreamExist, StreamContent, StreamName>>
    BY <1>2, <1>5, SameDisk
  <2> QED
    BY <1>4, <2>1, Unseen
<1>6. CASE fs.dinode[i].nlink = 0 /\ iref[i] = 1
  <2>1. Solid(fs') /\ Freed(fs, fs', i)
    BY <1>2, <1>6
  <2>2. /\ fs'.dinode[i] = NoInode
        /\ \A j \in Inums : j # i => fs'.dinode[j] = fs.dinode[j]
    BY <1>1, <1>2, <2>1 DEF Freed, Solid, FsType
  <2>3. StreamExist' = StreamExist \ {i}
    BY <2>2, NoInodeIs, StreamsAre, StreamsAreNext
  <2>4. StreamContent' = [StreamContent EXCEPT ![i] = <<>>]
    <3>1. ContentOf(fs', i) = <<>>
      <4>1. ContentOf(fs', i) = [k \in 1..0 |-> Word(fs', i, k - 1)]
        BY <1>2, <2>1, <2>2, NoInodeIs, ContentIs
      <4>2. DOMAIN ContentOf(fs', i) = {} /\ ContentOf(fs', i) = [k \in {} |-> Word(fs', i, k - 1)]
        BY <4>1
      <4> QED
        BY <4>1
    <3>2. ASSUME NEW j \in Inums, j # i
          PROVE  ContentOf(fs', j) = ContentOf(fs, j)
      <4>1. \A x \in Nat : x < fs.dinode[j].size => Word(fs', j, x) = Word(fs, j, x)
        BY <2>1, <3>2 DEF Freed
      <4>2. fs'.dinode[j].size = fs.dinode[j].size
        BY <2>2, <3>2
      <4> QED
        BY <1>1, <2>1, <4>1, <4>2, ContentKept
    <3> QED
      BY <1>2, <3>1, <3>2, StreamsAre, StreamsAreNext
  <2>5. StreamName' = StreamName /\ i # StreamName
    <3>1. Named' = Named /\ i \notin Named
      BY <1>2, <1>6, <2>2, NoInodeIs DEF Named
    <3>2. i # 0
      BY <1>2, InodeConstants
    <3>3. StreamName # 0 => StreamName \in Named
      BY <1>1, NameIs
    <3> QED
      BY <3>1, <3>2, <3>3 DEF StreamName
  <2>6. ASSUME NEW f \in Files
        PROVE  StreamPlace[f].ip # i
    <3>1. ~HasInode(ftable[f], i)
      <4>1. iref[i] = Cardinality(ItemIn(work, IputOf(i))) + Cardinality(InodeIn(ftable, i))
        BY <1>2 DEF FileInv, FileCounted
      <4>2. Cardinality(ItemIn(work, IputOf(i))) \in Nat \ {0}
        <5>1. work \in [Procs -> Works]
          BY DEF FileInv, FileType
        <5> QED
          BY <1>2, <5>1, ItemCounted, FileConstants
      <4>3. IsFiniteSet(InodeIn(ftable, i))
        <5>1. IsFiniteSet(Files)
          BY FileConstants, FS_Interval DEF Files
        <5> QED
          BY <5>1, FS_Subset DEF InodeIn
      <4>4. Cardinality(InodeIn(ftable, i)) \in Nat
        BY <4>3, FS_CardinalityType
      <4>5. Cardinality(InodeIn(ftable, i)) = 0
        BY <1>6, <4>1, <4>2, <4>4
      <4>6. InodeIn(ftable, i) = {}
        BY <4>3, <4>5, FS_EmptySet
      <4> QED
        BY <4>6 DEF InodeIn
    <3>2. i # 0 /\ StreamPlace[f] = PlaceAt(ftable[f])
      BY <1>2, InodeConstants, StreamsAre
    <3> QED
      BY <3>1, <3>2 DEF PlaceAt, HasInode
  <2>7. Abstractly!End(i)
    BY <1>4, <2>3, <2>4, <2>5, <2>6 DEF Abstractly!End
  <2>8. Abstractly!Next
    BY <1>2, <2>7 DEF Abstractly!Next
  <2> QED
    BY <2>8 DEF Simulated
<1> QED
  BY <1>5, <1>6

\* The files with their contents are the same when their words are.
LEMMA SameContents ==
  ASSUME DiskInv, NEW i \in Inums, fs' \in FsType, SameUse(fs, fs')
  PROVE  StreamContent' = StreamContent
<1>1. Solid(fs)
  BY DEF DiskInv
<1>2. /\ Solid(fs')
      /\ \A j \in Inums, x \in Nat : Word(fs', j, x) = Word(fs, j, x)
  BY <1>1, SolidAlike
<1>3. \A j \in Inums : fs'.dinode[j].size = fs.dinode[j].size
  BY DEF SameUse
<1>4. \A j \in Inums : ContentOf(fs', j) = ContentOf(fs, j)
  BY <1>1, <1>2, <1>3, ContentKept
<1> QED
  BY <1>4, StreamsAre, StreamsAreNext

\* open() opens a place at the start of i, or leaves the places as they are.
LEMMA SimOpened ==
  ASSUME FileInv, BusyInv, NEW p \in Procs, NEW i, NEW f \in Files, NEW d \in Fds, NewFile(p, i, f, d)
  PROVE  Abstractly!Opened(i)
<1>1. /\ ofile \in [Procs -> [Fds -> 0..NFILE]] /\ ftable = [g \in Files |-> ftable[g]]
      /\ f # 0
  BY FileConstants DEF FileInv, FileType, Descriptors, Files
<1>2. /\ ftable[f].type = "none" /\ ofile[p][d] = 0
      /\ ftable' = [ftable EXCEPT ![f] = [ref |-> 1, type |-> "inode", ip |-> i,
                                          off |-> 0, pipe |-> 0, writable |-> TRUE]]
      /\ ofile' = [ofile EXCEPT ![p][d] = f]
  BY DEF NewFile
<1>3. /\ \A g \in Files : g # f => ftable'[g] = ftable[g]
      /\ ftable'[f].type = "inode" /\ ftable'[f].ip = i /\ ftable'[f].off = 0
  BY <1>1, <1>2
<1>4. StreamPlace[f] = [ip |-> 0, off |-> 0]
  BY <1>2, StreamsAre DEF PlaceAt
<1>5. StreamFds[p][d] = 0
  BY <1>2, StreamsAre DEF Desc
<1>6. StreamPlace' = [StreamPlace EXCEPT ![f] = [ip |-> i, off |-> 0]]
  <2>1. PlaceAt(ftable'[f]) = [ip |-> i, off |-> 0]
    BY <1>3 DEF PlaceAt
  <2>2. \A g \in Files : g # f => PlaceAt(ftable'[g]) = PlaceAt(ftable[g])
    BY <1>3
  <2> QED
    BY <2>1, <2>2, StreamsAre, StreamsAreNext
<1>7. StreamFds' = [StreamFds EXCEPT ![p][d] = f]
  <2>1. Desc(ftable', ofile'[p][d]) = f
    BY <1>1, <1>2, <1>3 DEF Desc
  <2>2. ASSUME NEW q \in Procs, NEW e \in Fds, ~(q = p /\ e = d)
        PROVE  Desc(ftable', ofile'[q][e]) = Desc(ftable, ofile[q][e])
    <3>1. ofile'[q][e] = ofile[q][e]
      BY <1>1, <1>2, <2>2
    <3>2. ofile[q][e] = 0 \/ ofile[q][e] \in Files
      BY <1>1, FileConstants DEF Files
    <3>3. ofile[q][e] # f
      <4>1. ~(ftable[f].ref > 0) /\ f # 0
        BY <1>1 DEF NewFile
      <4>2. ofile[q][e] # 0 => ftable[ofile[q][e]].ref > 0
        BY OpenDesc
      <4> QED
        BY <4>1, <4>2
    <3> QED
      BY <1>3, <3>1, <3>2, <3>3 DEF Desc
  <2> QED
    BY <2>1, <2>2, StreamsAre, StreamsAreNext
<1> QED
  BY <1>4, <1>5, <1>6, <1>7 DEF Abstractly!Opened, Abstractly!Closed

\* sys_open() of a name that is there
LEMMA SimOpen ==
  ASSUME FileInv, FsInv, NEW p \in Procs, Open(p)
  PROVE  Simulated
<1>1. DiskInv /\ BusyInv
  BY DEF FsInv
<1>2. PICK i \in Named : OpenFile(p, Iget(fs, i), i)
  BY DEF Open
<1>3. /\ (Steady /\ UNCHANGED ofile) \/ \E f \in Files, d \in Fds : NewFile(p, i, f, d)
      /\ fs' = Iget(fs, i)
  BY <1>1, <1>2, OpenFileIs
<1>4. i \in Inums /\ fs.dinode[i].used /\ iref \in [Inums -> Nat]
  BY <1>1, NamedIs DEF FileInv, FileType
<1>5. fs' \in FsType /\ SameUse(fs, fs') /\ fs'.dinode = fs.dinode
  BY <1>1, <1>3, <1>4, IgetIs
<1>6. StreamContent' = StreamContent
  BY <1>1, <1>4, <1>5, SameContents
<1>7. StreamExist' = StreamExist /\ StreamName' = StreamName
  BY <1>5 DEF StreamExist, StreamName, Named
<1>8. CASE Steady /\ UNCHANGED ofile
  <2>1. StreamPlace' = StreamPlace /\ StreamFds' = StreamFds
    BY <1>8, SameFds
  <2> QED
    BY <1>6, <1>7, <2>1, Unseen
<1>9. ASSUME NEW f \in Files, NEW d \in Fds, NewFile(p, i, f, d)
      PROVE  Simulated
  <2>1. Abstractly!Opened(i)
    BY <1>1, <1>9, SimOpened
  <2>2. StreamName = i /\ i # 0
    BY <1>1, <1>4, NameIs, InodeConstants
  <2>3. Abstractly!Open
    BY <1>6, <1>7, <2>1, <2>2 DEF Abstractly!Open
  <2>4. Abstractly!Next
    BY <2>3 DEF Abstractly!Next
  <2> QED
    BY <2>4 DEF Simulated
<1> QED
  BY <1>3, <1>8, <1>9

\* sys_open() with O_CREATE of a name that is not
LEMMA SimCreate ==
  ASSUME FileInv, FsInv, FsInv', NEW p \in Procs, Create(p)
  PROVE  Simulated
<1>1. DiskInv /\ BusyInv /\ DiskInv'
  BY DEF FsInv
<1> DEFINE i == FreeInum
           s == [fs EXCEPT !.dinode[i] = NewInode, !.inode[i] = NewInode]
<1>2. /\ OpenFile(p, s, i) /\ Named = {}
      /\ \E j \in Inums : ~fs.dinode[j].used
  BY DEF Create, Ready, NewInode
<1>3. i \in Inums /\ Made(s, i)
  BY <1>1, <1>2, CreateMade
<1> HIDE DEF i, s
<1>4. /\ (Steady /\ UNCHANGED ofile) \/ \E f \in Files, d \in Fds : NewFile(p, i, f, d)
      /\ fs' = s
  BY <1>1, <1>2, OpenFileIs
<1>5. /\ ~fs.dinode[i].used /\ fs' \in FsType /\ SameUse(fs, fs') /\ fs'.dinode[i] = NewInode
      /\ \A j \in Inums : j # i => fs'.dinode[j] = fs.dinode[j]
  BY <1>1, <1>3, <1>4 DEF Made, DiskInv, Solid, FsType
<1>6. StreamContent' = StreamContent
  BY <1>1, <1>3, <1>5, SameContents
<1>7. StreamExist' = StreamExist \cup {i} /\ i \notin StreamExist
  BY <1>3, <1>5, NewInodeIs, StreamsAre, StreamsAreNext
<1>8. StreamName = 0
  BY <1>1, <1>2, NameIs
<1>9. StreamName' = i
  <2>1. Named' = {i}
    BY <1>2, <1>3, <1>5, NewInodeIs DEF Named
  <2>2. Named' \subseteq Nat /\ Named' # {}
    BY <1>3, <2>1, InodeConstants
  <2>3. Min(Named') \in Named'
    BY <2>2, MinIn
  <2>4. StreamName' = Min(Named')
    BY <2>2 DEF StreamName
  <2> QED
    BY <2>1, <2>3, <2>4
<1>10. Abstractly!Opened(i)
  <2>1. CASE Steady /\ UNCHANGED ofile
    <3>1. StreamPlace' = StreamPlace /\ StreamFds' = StreamFds
      BY <2>1, SameFds
    <3> QED
      BY <3>1 DEF Abstractly!Opened
  <2>2. ASSUME NEW f \in Files, NEW d \in Fds, NewFile(p, i, f, d)
        PROVE  Abstractly!Opened(i)
    BY <1>1, <2>2, SimOpened
  <2> QED
    BY <1>4, <2>1, <2>2
<1>11. Abstractly!Create
  BY <1>3, <1>6, <1>7, <1>8, <1>9, <1>10 DEF Abstractly!Create
<1>12. Abstractly!Next
  BY <1>11 DEF Abstractly!Next
<1> QED
  BY <1>12 DEF Simulated

\* sys_unlink()
LEMMA SimUnlink ==
  ASSUME FileInv, FsInv, NEW p \in Procs, Unlink(p)
  PROVE  Simulated
<1>1. DiskInv
  BY DEF FsInv
<1>2. PICK i \in Named : fs' = iupdate([Iget(fs, i) EXCEPT !.inode[i].nlink = 0], i)
  BY DEF Unlink
<1>3. UNCHANGED <<ftable, ofile>>
  BY DEF Unlink
<1>4. i \in Inums /\ fs.dinode[i].used /\ Got(fs', i) /\ fs'.dinode[i].nlink = 0
  BY <1>1, <1>2, NamedIs, UnlinkGot
<1>5. StreamContent' = StreamContent
  <2>1. fs' \in FsType /\ SameUse(fs, fs')
    BY <1>4 DEF Got
  <2> QED
    BY <1>1, <1>4, <2>1, SameContents
<1>6. StreamExist' = StreamExist
  <2>1. \A j \in Inums : fs'.dinode[j].used <=> fs.dinode[j].used
    BY <1>4 DEF Got
  <2> QED
    BY <2>1, StreamsAre, StreamsAreNext
<1>7. StreamName' = 0
  <2>1. \A j \in Inums : fs.dinode[j].nlink > 0 => j = i
    BY <1>1, <1>4 DEF DiskInv, Named
  <2>2. Named' = {}
    BY <1>4, <2>1 DEF Named, Got
  <2> QED
    BY <2>2 DEF StreamName
<1>8. StreamPlace' = StreamPlace /\ StreamFds' = StreamFds
  BY <1>3, StreamsAre, StreamsAreNext
<1>9. Abstractly!Unlink
  BY <1>5, <1>6, <1>7, <1>8 DEF Abstractly!Unlink
<1>10. Abstractly!Next
  BY <1>9 DEF Abstractly!Next
<1> QED
  BY <1>10 DEF Simulated

\* close(), dup() and fork() share the places.
LEMMA SimShare ==
  ASSUME FileInv, FsInv, NEW p \in Procs,
         \/ (\E d \in Fds : Close(p, d)) \/ ExitClose(p)
         \/ (\E d \in Fds : Dup(p, d))
         \/ \E c \in Procs : Fork(p, c)
  PROVE  Simulated
<1>1. BusyInv /\ ofile \in [Procs -> [Fds -> 0..NFILE]]
  BY DEF FileInv, FileType, FsInv, Descriptors
<1>2. CASE (\E d \in Fds : Close(p, d)) \/ ExitClose(p)
  <2>1. PICK d \in Fds : ofile' = [ofile EXCEPT ![p][d] = 0]
    BY <1>2, CloseCallIs
  <2>2. UNCHANGED <<fs, ftable>>
    BY <1>2, CloseCallIs
  <2>3. UNCHANGED <<StreamExist, StreamContent, StreamName>> /\ StreamPlace' = StreamPlace
    BY <2>2, SameDisk, StreamsAre, StreamsAreNext
  <2>4. \A q \in Procs, e \in Fds : Desc(ftable', ofile'[q][e]) =
           IF q = p /\ e = d THEN 0 ELSE Desc(ftable, ofile[q][e])
    BY <1>1, <2>1, <2>2 DEF Desc
  <2>5. StreamFds' = [StreamFds EXCEPT ![p][d] = 0]
    BY <2>4, StreamsAre, StreamsAreNext
  <2>6. Abstractly!Share
    BY <2>3, <2>5 DEF Abstractly!Share
  <2>7. Abstractly!Next
    BY <2>6 DEF Abstractly!Next
  <2> QED
    BY <2>7 DEF Simulated
<1>3. ASSUME NEW d \in Fds, Dup(p, d)
      PROVE  Simulated
  <2>1. Steady /\ fs' = fs
    BY <1>1, <1>3, DupIs
  <2>2. PICK e \in Fds : ofile' = [ofile EXCEPT ![p][e] = ofile[p][d]]
    BY <1>1, <1>3, DupIs
  <2>3. UNCHANGED <<StreamExist, StreamContent, StreamName>> /\ StreamPlace' = StreamPlace
        /\ \A g \in 0..NFILE : Desc(ftable', g) = Desc(ftable, g)
    BY <2>1, SameDisk, SamePlaces
  <2>4. \A q \in Procs, k \in Fds : Desc(ftable', ofile'[q][k]) =
           IF q = p /\ k = e THEN Desc(ftable, ofile[p][d]) ELSE Desc(ftable, ofile[q][k])
    BY <1>1, <2>2, <2>3
  <2>5. StreamFds' = [StreamFds EXCEPT ![p][e] = StreamFds[p][d]]
    BY <2>4, StreamsAre, StreamsAreNext, SMTT(30)
  <2>6. Abstractly!Share
    BY <2>3, <2>5 DEF Abstractly!Share
  <2>7. Abstractly!Next
    BY <2>6 DEF Abstractly!Next
  <2> QED
    BY <2>7 DEF Simulated
<1>4. ASSUME NEW c \in Procs, Fork(p, c)
      PROVE  Simulated
  <2>1. Steady /\ fs' = fs /\ ofile' = [ofile EXCEPT ![c] = ofile[p]]
    BY <1>1, <1>4, ForkIs
  <2>2. UNCHANGED <<StreamExist, StreamContent, StreamName>> /\ StreamPlace' = StreamPlace
        /\ \A g \in 0..NFILE : Desc(ftable', g) = Desc(ftable, g)
    BY <2>1, SameDisk, SamePlaces
  <2>3. \A q \in Procs, k \in Fds : Desc(ftable', ofile'[q][k]) =
           IF q = c THEN Desc(ftable, ofile[p][k]) ELSE Desc(ftable, ofile[q][k])
    BY <1>1, <2>1, <2>2
  <2>4. StreamFds' = [StreamFds EXCEPT ![c] = StreamFds[p]]
    BY <2>3, StreamsAre, StreamsAreNext
  <2>5. 0 \in Fds
    BY FileConstants DEF Fds
  <2>6. Abstractly!Share
    BY <2>2, <2>4, <2>5 DEF Abstractly!Share
  <2>7. Abstractly!Next
    BY <2>6 DEF Abstractly!Next
  <2> QED
    BY <2>7 DEF Simulated
<1> QED
  BY <1>2, <1>3, <1>4

\* pipe() has nothing to do with files.
LEMMA SimPipe ==
  ASSUME FileInv, FsInv, NEW p \in Procs, Pipe(p)
  PROVE  Simulated
<1>1. BusyInv /\ ofile \in [Procs -> [Fds -> 0..NFILE]]
  BY DEF FileInv, FileType, FsInv, Descriptors
<1>2. Steady /\ OnlyPipes /\ fs' = fs
  BY <1>1, PipeIs
<1>3. UNCHANGED <<StreamExist, StreamContent, StreamName>> /\ StreamPlace' = StreamPlace
      /\ \A g \in 0..NFILE : Desc(ftable', g) = Desc(ftable, g)
  BY <1>2, SameDisk, SamePlaces
<1>4. ASSUME NEW q \in Procs, NEW d \in Fds
      PROVE  Desc(ftable', ofile'[q][d]) = Desc(ftable, ofile[q][d])
  <2>1. CASE ofile'[q][d] = ofile[q][d]
    BY <1>1, <1>3, <2>1
  <2>2. CASE ofile'[q][d] # ofile[q][d]
    BY <1>2, <2>2 DEF OnlyPipes, Desc
  <2> QED
    BY <2>1, <2>2
<1>5. StreamFds' = StreamFds
  BY <1>4, StreamsAre, StreamsAreNext
<1> QED
  BY <1>3, <1>5, Unseen

\* The place of an open file moves, and nothing else of the open files changes.
LEMMA PlaceMoved ==
  ASSUME FileInv, BusyInv, NEW f \in Files, ftable[f].type = "inode", NEW r \in Nat,
         ftable' = [ftable EXCEPT ![f].off = @ + r], UNCHANGED ofile
  PROVE  /\ StreamPlace' = [StreamPlace EXCEPT ![f].off = @ + r]
         /\ StreamPlace[f].ip = ftable[f].ip /\ StreamPlace[f].off = ftable[f].off
         /\ r = 0 => StreamPlace' = StreamPlace
         /\ StreamFds' = StreamFds
<1>1. /\ \A g \in Files : g # f => ftable'[g] = ftable[g]
      /\ ftable'[f].type = ftable[f].type /\ ftable'[f].ip = ftable[f].ip
      /\ ftable'[f].off = ftable[f].off + r
  BY OffsetMoved
<1>2. ftable[f].off \in Nat
  BY DEF BusyInv
<1>3. /\ PlaceAt(ftable[f]) = [ip |-> ftable[f].ip, off |-> ftable[f].off]
      /\ PlaceAt(ftable'[f]) = [ip |-> ftable[f].ip, off |-> ftable[f].off + r]
  BY <1>1 DEF PlaceAt
<1>4. \A g \in Files : g # f => PlaceAt(ftable'[g]) = PlaceAt(ftable[g])
  BY <1>1
<1>5. StreamPlace[f] = [ip |-> ftable[f].ip, off |-> ftable[f].off]
  BY <1>3, StreamsAre
<1>6. StreamPlace' = [StreamPlace EXCEPT ![f].off = @ + r]
  <2>1. [StreamPlace[f] EXCEPT !.off = @ + r] = PlaceAt(ftable'[f])
    BY <1>3, <1>5
  <2> QED
    BY <1>4, <2>1, StreamsAre, StreamsAreNext
<1>7. r = 0 => StreamPlace' = StreamPlace
  <2>1. r = 0 => PlaceAt(ftable'[f]) = PlaceAt(ftable[f])
    BY <1>2, <1>3
  <2> QED
    BY <1>4, <2>1, StreamsAre, StreamsAreNext
<1>8. StreamFds' = StreamFds
  <2>1. ofile \in [Procs -> [Fds -> 0..NFILE]]
    BY DEF FileInv, FileType, Descriptors
  <2>2. ASSUME NEW q \in Procs, NEW d \in Fds
        PROVE  Desc(ftable', ofile'[q][d]) = Desc(ftable, ofile[q][d])
    <3>1. ofile[q][d] = 0 \/ ofile[q][d] \in Files
      BY <2>1, FileConstants DEF Files
    <3> QED
      BY <1>1, <3>1 DEF Desc
  <2> QED
    BY <2>2, StreamsAre, StreamsAreNext
<1> QED
  BY <1>5, <1>6, <1>7, <1>8

\* The length of a file is its size.
LEMMA ContentLen ==
  ASSUME NEW s, Solid(s), NEW i \in Inums
  PROVE  Len(ContentOf(s, i)) = s.dinode[i].size
<1> DEFINE z == s.dinode[i].size
           g == [k \in 1..z |-> Word(s, i, k - 1)]
<1>1. z \in Nat
  <2>1. z \in 0..(MAXFILE * BSIZE) /\ MAXFILE * BSIZE \in Nat
    BY ContentIs, InodeConstants
  <2> QED
    BY <2>1
<1>2. ContentOf(s, i) = g
  BY ContentIs
<1> HIDE DEF z
<1>3. Len(g) = z
  BY <1>1
<1> QED
  BY <1>2, <1>3 DEF z

\* fileread()
LEMMA SimRead ==
  ASSUME FileInv, FsInv, NEW p \in Procs, NEW d \in Fds, NEW n \in Sizes, Read(p, d, n)
  PROVE  Simulated
<1>1. PICK r \in Nat : ReadAt(ofile[p][d], r)
  BY ReadIs
<1> DEFINE f == ofile[p][d]
           i == ftable[f].ip
           off == ftable[f].off
           z == fs.dinode[i].size
<1>2. /\ f \in Files /\ ftable[f].type = "inode" /\ i \in Inums /\ off \in Nat
      /\ r > 0 => off + r <= z
      /\ fs' = fs /\ ftable' = [ftable EXCEPT ![f].off = @ + r]
  BY <1>1 DEF ReadAt
<1>3. UNCHANGED ofile /\ BusyInv /\ Solid(fs)
  BY DEF Read, FsInv, DiskInv
<1> HIDE DEF f
<1>4. UNCHANGED <<StreamExist, StreamContent, StreamName>>
  BY <1>2, SameDisk
<1>5. /\ StreamPlace' = [StreamPlace EXCEPT ![f].off = @ + r]
      /\ StreamPlace[f].ip = i /\ StreamPlace[f].off = off
      /\ r = 0 => StreamPlace' = StreamPlace
      /\ StreamFds' = StreamFds
  BY <1>2, <1>3, PlaceMoved
<1>6. CASE r = 0
  BY <1>4, <1>5, <1>6, Unseen
<1>7. CASE r # 0
  <2>1. Len(StreamContent[i]) = z
    <3>1. StreamContent[i] = ContentOf(fs, i)
      BY <1>2, StreamsAre
    <3> QED
      BY <1>2, <1>3, <3>1, ContentLen
  <2>2. z \in 0..(MAXFILE * BSIZE)
    BY <1>2, <1>3, ContentIs
  <2> HIDE DEF i, z, off
  <2>3. i # 0
    BY <1>2, InodeConstants
  <2>4. MAXFILE * BSIZE \in Nat
    BY InodeConstants
  <2>5. off + r <= z /\ r \in 1..(MAXFILE * BSIZE)
    BY <1>2, <1>7, <2>2, <2>4
  <2>6. Abstractly!Read(f, r)
    BY <1>4, <1>5, <2>1, <2>3, <2>5 DEF Abstractly!Read
  <2>7. Abstractly!Next
    BY <1>2, <2>5, <2>6 DEF Abstractly!Next
  <2> QED
    BY <2>7 DEF Simulated
<1> QED
  BY <1>6, <1>7

\* A piece of a filewrite()
LEMMA SimWriteAt ==
  ASSUME FileInv, FsInv, NEW p \in Procs, NEW f \in Files, ftable[f].type = "inode",
         NEW n, NEW n1 \in Nat, WriteAt(p, f, n, n1), UNCHANGED ofile
  PROVE  Simulated
<1> DEFINE i == ftable[f].ip
           off == ftable[f].off
           v == Value[p]
           z == fs.dinode[i].size
           y == IF n1 > 0 /\ off + n1 > z THEN off + n1 ELSE z
<1>1. BusyInv /\ DiskInv /\ Solid(fs) /\ off \in Nat
  BY DEF FsInv, DiskInv, BusyInv
<1>2. i \in Inums /\ fs.dinode[i].used
  BY <1>1, OpenInode
<1>3. /\ off <= z /\ off + n1 <= MAXFILE * BSIZE
      /\ Solid(fs') /\ OnlyInode(fs, fs', i) /\ WordsPut(fs, fs', i, off, n1, v)
      /\ ftable' = [ftable EXCEPT ![f].off = @ + n1]
  BY DEF WriteAt
<1>4. z \in 0..(MAXFILE * BSIZE) /\ MAXFILE * BSIZE \in Nat
  <2>1. z \in 0..(MAXFILE * BSIZE)
    BY <1>1, <1>2, ContentIs
  <2>2. MAXFILE * BSIZE \in Nat
    BY InodeConstants
  <2> QED
    BY <2>1, <2>2
<1>5. z \in Nat /\ y \in Nat /\ z <= y
  BY <1>1, <1>4
<1>6. /\ StreamPlace' = [StreamPlace EXCEPT ![f].off = @ + n1]
      /\ StreamPlace[f].ip = i /\ StreamPlace[f].off = off
      /\ n1 = 0 => StreamPlace' = StreamPlace
      /\ StreamFds' = StreamFds
  BY <1>1, <1>3, PlaceMoved
<1>7. /\ \A j \in Inums : fs'.dinode[j].used <=> fs.dinode[j].used
      /\ \A j \in Inums : fs'.dinode[j].nlink = fs.dinode[j].nlink
  BY <1>3 DEF OnlyInode
<1>8. StreamExist' = StreamExist /\ StreamName' = StreamName
  BY <1>7 DEF StreamExist, StreamName, Named
<1>9. ASSUME NEW j \in Inums, j # i
      PROVE  ContentOf(fs', j) = ContentOf(fs, j)
  <2>1. \A x \in Nat : x < fs.dinode[j].size => Word(fs', j, x) = Word(fs, j, x)
    BY <1>3, <1>9 DEF WordsPut
  <2>2. fs'.dinode[j].size = fs.dinode[j].size
    BY <1>3, <1>9 DEF OnlyInode
  <2> QED
    BY <1>1, <1>3, <2>1, <2>2, ContentKept
<1>10. fs'.dinode[i].size = y
  BY <1>3 DEF WordsPut
<1>11. CASE n1 = 0
  <2>1. y = z
    BY <1>11
  <2>2. \A x \in Nat : x < z => Word(fs', i, x) = Word(fs, i, x)
    BY <1>1, <1>3, <1>10, <1>11, <2>1 DEF WordsPut
  <2>3. ContentOf(fs', i) = ContentOf(fs, i)
    BY <1>1, <1>2, <1>3, <1>10, <2>1, <2>2, ContentKept
  <2>4. StreamContent' = StreamContent
    BY <1>9, <2>3, StreamsAre, StreamsAreNext
  <2> QED
    BY <1>6, <1>8, <1>11, <2>4, Unseen
<1>12. CASE n1 # 0
  <2> DEFINE g == StreamContent[i]
  <2>1. g = [k \in 1..z |-> Word(fs, i, k - 1)] /\ Len(g) = z
    <3>1. g = ContentOf(fs, i)
      BY <1>2, StreamsAre
    <3> QED
      BY <1>1, <1>2, <3>1, ContentIs, ContentLen, SMTT(30)
  <2>2. ContentOf(fs', i) = [k \in 1..y |-> Word(fs', i, k - 1)]
    BY <1>2, <1>3, <1>10, ContentIs, SMTT(30)
  <2>3. y = IF off + n1 > Len(g) THEN off + n1 ELSE Len(g)
    <3>1. n1 > 0
      BY ONLY n1 \in Nat, <1>12
    <3>2. Len(g) = z
      BY <2>1
    <3> HIDE DEF g, z, off
    <3> QED
      BY <3>1, <3>2
  <2> HIDE DEF g, y, z, i, off, v
  <2>4. ASSUME NEW k \in 1..y
        PROVE  Word(fs', i, k - 1) = IF k \in (off + 1)..(off + n1) THEN v ELSE g[k]
    <3> DEFINE x == k - 1
    <3>1. x \in Nat /\ x < y /\ (x \in off..(off + n1 - 1) <=> k \in (off + 1)..(off + n1))
      BY <1>1, <1>5
    <3> HIDE DEF x
    <3>2. Word(fs', i, x) = IF x \in off..(off + n1 - 1) THEN v ELSE Word(fs, i, x)
      BY <1>3, <1>10, <3>1 DEF WordsPut
    <3>3. k \notin (off + 1)..(off + n1) => k \in 1..z
      BY <1>1, <1>3, <1>5, <2>1, <2>3
    <3>4. k \in 1..z => g[k] = Word(fs, i, x)
      BY <2>1 DEF x
    <3> QED
      BY <3>1, <3>2, <3>3, <3>4 DEF x
  <2>5. ContentOf(fs', i) = [k \in 1..y |-> IF k \in (off + 1)..(off + n1) THEN v ELSE g[k]]
    BY <2>2, <2>4
  <2>6. StreamContent' = [StreamContent EXCEPT ![i] =
            [k \in 1..(IF off + n1 > Len(g) THEN off + n1 ELSE Len(g)) |->
                IF k \in (off + 1)..(off + n1) THEN v ELSE g[k]]]
    BY <1>2, <1>9, <2>3, <2>5, StreamsAre, StreamsAreNext
  <2>7. i # 0 /\ n1 \in 1..(MAXFILE * BSIZE)
    BY <1>1, <1>2, <1>3, <1>4, <1>12, InodeConstants
  <2>8. Abstractly!Write(f, n1, v)
    BY <1>6, <1>8, <2>6, <2>7 DEF Abstractly!Write, g
  <2>9. Abstractly!Next
    BY <2>7, <2>8 DEF Abstractly!Next, v
  <2> QED
    BY <2>9 DEF Simulated
<1> QED
  BY <1>11, <1>12

\* filewrite()
LEMMA SimWrite ==
  ASSUME FileInv, FsInv, NEW p \in Procs,
         WriteMore(p) \/ \E d \in Fds, n \in Sizes : Write(p, d, n)
  PROVE  Simulated
<1>1. PICK f \in Files, n \in Nat : ftable[f].type = "inode" /\ Chunk(p, f, n)
  BY WriteCallIs
<1>2. UNCHANGED ofile
  BY <1>1 DEF Chunk
<1>3. CASE WriteEnds(p)
  <2>1. UNCHANGED <<fs, ftable>>
    BY <1>3 DEF WriteEnds
  <2>2. StreamPlace' = StreamPlace /\ StreamFds' = StreamFds
    BY <1>2, <2>1, StreamsAre, StreamsAreNext
  <2> QED
    BY <2>1, <2>2, SameDisk, Unseen
<1>4. ASSUME NEW n1 \in Nat, WriteAt(p, f, n, n1)
      PROVE  Simulated
  BY <1>1, <1>2, <1>4, SimWriteAt
<1> QED
  BY <1>1, <1>3, <1>4, ChunkIs

\* Every step of File is one of Streams, or is not seen.
LEMMA SimStep ==
  ASSUME FileInv, FsInv, FsInv', [FileNext]_fileVars
  PROVE  Simulated
<1>1. CASE UNCHANGED fileVars
  <2>1. UNCHANGED <<fs, ftable, ofile>>
    BY <1>1 DEF fileVars
  <2>2. StreamPlace' = StreamPlace /\ StreamFds' = StreamFds
    BY <2>1, StreamsAre, StreamsAreNext
  <2> QED
    BY <2>1, <2>2, SameDisk, Unseen
<1>2. ASSUME NEW p \in Procs, FileStep(p)
      PROVE  Simulated
  <2>1. CASE FileClose(p)
    BY <2>1, SimClose
  <2>2. CASE Iput(p)
    BY <2>2, SimIput
  <2>3. CASE PipeClose(p) \/ Exit(p)
    <3>1. UNCHANGED <<fs, ftable, ofile>>
      BY <2>3 DEF PipeClose, Exit
    <3>2. StreamPlace' = StreamPlace /\ StreamFds' = StreamFds
      BY <3>1, StreamsAre, StreamsAreNext
    <3> QED
      BY <3>1, <3>2, SameDisk, Unseen
  <2>4. CASE Open(p)
    BY <2>4, SimOpen
  <2>5. CASE Create(p)
    BY <2>5, SimCreate
  <2>6. CASE Unlink(p)
    BY <2>6, SimUnlink
  <2>7. CASE \/ (\E d \in Fds : Close(p, d)) \/ ExitClose(p)
             \/ (\E d \in Fds : Dup(p, d))
             \/ \E c \in Procs : Fork(p, c)
    BY <2>7, SimShare
  <2>8. CASE Pipe(p)
    BY <2>8, SimPipe
  <2>9. ASSUME NEW d \in Fds, NEW n \in Sizes, Read(p, d, n)
        PROVE  Simulated
    BY <2>9, SimRead
  <2>10. CASE WriteMore(p) \/ \E d \in Fds, n \in Sizes : Write(p, d, n)
    BY <2>10, SimWrite
  <2> QED
    BY <1>2, <2>1, <2>2, <2>3, <2>4, <2>5, <2>6, <2>7, <2>8, <2>9, <2>10 DEF FileStep
<1> QED
  BY <1>1, <1>2 DEF FileNext

\* No file, no words, nothing open
LEMMA SimInit == FileInit => Abstractly!Init
<1> SUFFICES ASSUME FileInit PROVE Abstractly!Init
  OBVIOUS
<1>1. /\ fs = Blank /\ ftable = [f \in Files |-> None]
      /\ ofile = [p \in Procs |-> [fd \in Fds |-> 0]]
  BY DEF FileInit
<1>2. FsInv
  BY FsInitInv
<1>3. Solid(fs) /\ DiskInv
  BY <1>2 DEF FsInv, DiskInv
<1>4. \A i \in Inums : fs.dinode[i] = NoInode
  BY <1>1 DEF Blank
<1>5. StreamExist = {} /\ Named = {}
  BY <1>4, NoInodeIs, StreamsAre DEF Named
<1>6. StreamName = 0
  BY <1>3, <1>5, NameIs
<1>7. StreamContent = [i \in Inums |-> <<>>]
  <2>1. ASSUME NEW i \in Inums
        PROVE  ContentOf(fs, i) = <<>>
    <3>1. ContentOf(fs, i) = [k \in 1..0 |-> Word(fs, i, k - 1)]
      BY <1>3, <1>4, NoInodeIs, ContentIs
    <3> QED
      BY <3>1
  <2> QED
    BY <2>1, StreamsAre
<1>8. StreamPlace = [f \in Files |-> [ip |-> 0, off |-> 0]]
  <2>1. \A f \in Files : PlaceAt(ftable[f]) = [ip |-> 0, off |-> 0]
    BY <1>1 DEF None, PlaceAt
  <2> QED
    BY <2>1, StreamsAre
<1>9. StreamFds = [p \in Procs |-> [d \in Fds |-> 0]]
  <2>1. \A p \in Procs, d \in Fds : Desc(ftable, ofile[p][d]) = 0
    BY <1>1 DEF Desc
  <2> QED
    BY <2>1, StreamsAre
<1> QED
  BY <1>5, <1>6, <1>7, <1>8, <1>9 DEF Abstractly!Init, Abstractly!Closed

\* The open files above the blocks of the disk implement streams: what is
\* written is what is read, through whatever number of blocks.
THEOREM FileImplementsStreams ==
  FileSpec => IsStreams
<1>1. FileInv /\ FsInv /\ FsInv' /\ [FileNext]_fileVars => [Abstractly!Next]_(Abstractly!vars)
  BY SimStep DEF Simulated
<1> QED
  BY <1>1, SimInit, FileDiskInvariant, PTL DEF FileSpec, IsStreams, Abstractly!Spec
=============================================================================
