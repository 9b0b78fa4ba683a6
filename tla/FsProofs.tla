------------------------------ MODULE FsProofs ------------------------------
(***************************************************************************)
(* Proofs about the calls on the file system and their log: the log (Log:  *)
(* its invariants, and that it implements AtomicDisk) and the inode cache  *)
(* under the system calls on names (SysFile).  Each holds for any number   *)
(* of processes and any size of the tables.                                *)
(***************************************************************************)
EXTENDS Log, SysFile, FiniteSetTheorems, WellFoundedInduction, TLAPS

\* The calls in progress.
Ops == {p \in Procs : pc[p] = "op"}

\* Every variable has its type.
TypeOK ==
    /\ home \in [Blocks -> Vals] /\ cache \in [Blocks -> Vals]
    /\ hdr \in Seq(Blocks) /\ lh \in Seq(Blocks)
    /\ logd \in [LogData -> Vals]
    /\ outstanding \in Nat /\ committing \in BOOLEAN
    /\ wrote \in [Procs -> SUBSET Blocks] /\ appending \in [Procs -> SUBSET Blocks]
    /\ pc \in [Procs -> {"out", "op", "asleep"}]
    /\ phase \in {"run", "write_log", "head", "install", "clear", "done",
                  "recover", "reclear", "panic"}
    /\ tail \in Nat \ {0}

\* No block is twice in the log, and log.lh.block[] has room for them.
Compact(s) ==
    /\ Len(s) <= LOGSIZE
    /\ \A i, j \in 1..Len(s) : s[i] = s[j] => i = j

\* outstanding counts the calls in progress, and there are none while
\* commit() or recover_from_log() runs.
Control ==
    /\ IsFiniteSet(Ops) /\ outstanding = Cardinality(Ops)
    /\ committing <=> phase \in {"write_log", "head", "install", "clear", "done"}
    /\ phase \notin {"run", "panic"} => Ops = {}
    /\ phase \in {"recover", "reclear"} => \A p \in Procs : pc[p] = "out"

\* The loops over the blocks of the log are in bounds.
Loop ==
    /\ phase \in {"write_log", "install", "recover"} => tail <= Len(lh)
    /\ phase = "head" => tail = 1 /\ Len(lh) > 0
    /\ phase = "done" => lh = <<>>

\* The header on the disk lists a transaction only while it is installed.
Header ==
    /\ phase \in {"run", "write_log", "head", "done", "panic"} => hdr = <<>>
    /\ phase \in {"install", "clear", "recover", "reclear"} => hdr = lh

\* A block is in the log, or a call is in log_write() with it.
Logged(b) ==
    \/ \E i \in 1..Len(lh) : lh[i] = b
    \/ \E p \in Procs : b \in appending[p]

\* A block that is not in the log is the same in the cache and at home, and
\* so is one that has been installed.
Clean ==
    /\ phase # "panic" => \A b \in Blocks : ~Logged(b) => cache[b] = home[b]
    /\ phase \in {"recover", "reclear"} => cache = home
    /\ phase = "install" => \A i \in 1..(tail - 1) : home[lh[i]] = cache[lh[i]]
    /\ phase = "clear" => \A i \in 1..Len(lh) : home[lh[i]] = cache[lh[i]]

\* The data blocks of the log are copied from the cache, then to their home,
\* if the transaction fits in the log.
Copied ==
    WithinLog =>
    /\ phase = "write_log" => \A i \in 1..(tail - 1) : logd[i] = cache[lh[i]]
    /\ phase \in {"head", "install", "clear"} =>
          \A i \in 1..Len(lh) : logd[i] = cache[lh[i]]
    /\ phase \in {"install", "recover"} =>
          \A i \in 1..(tail - 1) : home[lh[i]] = logd[i]
    /\ phase \in {"clear", "reclear"} =>
          \A i \in 1..Len(lh) : home[lh[i]] = logd[i]

\* What a call has written is in the log, and it has room for the block that
\* it is in log_write() with.
Wrote ==
    \A p \in Procs :
        /\ IsFiniteSet(wrote[p])
        /\ pc[p] # "op" => wrote[p] = {} /\ appending[p] = {}
        /\ \A b \in appending[p] : Cardinality(wrote[p] \cup {b}) <= MAXOPBLOCKS
        /\ \A b, c \in appending[p] : b = c
        /\ phase # "panic" => \A b \in wrote[p] : \E i \in 1..Len(lh) : lh[i] = b

IInv ==
    /\ TypeOK
    /\ Compact(lh) /\ Compact(hdr)
    /\ Control
    /\ Loop
    /\ Header
    /\ Clean
    /\ Copied
    /\ Wrote
    /\ Reservation
    /\ NoMissedWakeup

-----------------------------------------------------------------------------
(* Lemmas about the reservation                                            *)

\* The pairs of a finite set of calls and a count from 1 to k.
LEMMA Pairs ==
  ASSUME NEW S, IsFiniteSet(S), NEW k \in Nat
  PROVE  /\ IsFiniteSet(S \X (1..k))
         /\ Cardinality(S \X (1..k)) = Cardinality(S) * k
<1>1. IsFiniteSet(1..k) /\ Cardinality(1..k) = k
  BY FS_Interval
<1>2. IsFiniteSet(S \X (1..k)) /\ Cardinality(S \X (1..k)) = Cardinality(S) * Cardinality(1..k)
  BY <1>1, FS_Product
<1> QED
  BY <1>1, <1>2

\* initlog() starts in a state of the invariant.
LEMMA InitInv == Init => IInv
<1> SUFFICES ASSUME Init PROVE IInv
  OBVIOUS
<1>1. TypeOK
  <2>1. logd \in [LogData -> Vals]
    BY DEF Init
  <2>2. lh \in Seq(Blocks) /\ hdr \in Seq(Blocks)
    BY DEF Init
  <2>3. home \in [Blocks -> Vals] /\ cache \in [Blocks -> Vals]
    BY DEF Init
  <2>4. outstanding \in Nat /\ tail \in Nat \ {0}
    BY DEF Init
  <2>5. /\ wrote \in [Procs -> SUBSET Blocks] /\ appending \in [Procs -> SUBSET Blocks]
        /\ committing \in BOOLEAN
    BY Zenon DEF Init
  <2> QED
    BY <2>1, <2>2, <2>3, <2>4, <2>5, Zenon DEF Init, TypeOK
<1>2. Ops = {} /\ Unused = {}
  BY DEF Init, Ops, Unused
<1>3. Control
  BY <1>2, FS_EmptySet DEF Init, Control
<1>4. Compact(lh) /\ Compact(hdr)
  BY LogAssumption DEF Init, Compact
<1>5. Loop /\ Header /\ Clean /\ Copied
  BY DEF Init, Loop, Header, Clean, Copied, Logged
<1>6. Wrote
  BY FS_EmptySet DEF Init, Wrote
<1>7. Reservation
  BY <1>2, FS_EmptySet, LogAssumption DEF Init, Reservation
<1>8. NoMissedWakeup
  BY DEF Init, NoMissedWakeup
<1> QED
  BY <1>1, <1>3, <1>4, <1>5, <1>6, <1>7, <1>8 DEF IInv

\* begin_op() admits a call only if the log has room for it, and goes to
\* sleep otherwise.
LEMMA BeginInv ==
  ASSUME IInv, NEW p \in Procs, begin_op(p)
  PROVE  IInv'
<1> USE DEF IInv
<1>0. /\ MAXOPBLOCKS \in Nat /\ LOGSIZE \in Nat
      /\ outstanding \in Nat /\ Len(lh) \in Nat
  BY LogAssumption DEF TypeOK
<1>1. TypeOK'
  BY DEF begin_op, TypeOK, disk
<1>2. Compact(lh)' /\ Compact(hdr)' /\ Loop' /\ Header' /\ Clean' /\ Copied'
  BY DEF begin_op, Compact, Loop, Header, Clean, Logged, Copied, WithinLog, disk
<1>3. CASE MustWait
  <2>1. Ops' = Ops /\ Unused' = Unused
    BY <1>3 DEF begin_op, Ops, Unused, TypeOK, disk
  <2>2. Control'
    BY <1>3, <2>1 DEF begin_op, Control, TypeOK, Up
  <2>3. Wrote'
    BY <1>3 DEF begin_op, Wrote, TypeOK
  <2>4. Reservation'
    BY <2>1 DEF begin_op, Reservation
  <2>5. NoMissedWakeup'
    BY <1>3 DEF begin_op, NoMissedWakeup, MustWait
  <2> QED
    BY <1>1, <1>2, <2>2, <2>3, <2>4, <2>5
<1>4. CASE ~MustWait
  <2>1. Ops' = Ops \cup {p} /\ p \notin Ops
    BY <1>4 DEF begin_op, Ops, TypeOK
  <2>2. IsFiniteSet(Ops') /\ Cardinality(Ops') = outstanding + 1
    BY <2>1, FS_AddElement DEF Control
  <2>3. Control'
    <3>1. phase = "run"
      BY <1>4 DEF begin_op, Control, MustWait, Up, TypeOK
    <3> QED
      BY <1>4, <2>2, <3>1 DEF begin_op, Control
  <2>4. Wrote'
    BY <1>4 DEF begin_op, Wrote, TypeOK
  <2>5. Reservation'
    <3>1. Unused' \in SUBSET (Ops' \X (1..MAXOPBLOCKS))
      BY DEF Unused, Ops
    <3>2. /\ Cardinality(Unused') \in Nat
          /\ Cardinality(Unused') <= (outstanding + 1) * MAXOPBLOCKS
      <4>1. /\ IsFiniteSet(Ops' \X (1..MAXOPBLOCKS))
            /\ Cardinality(Ops' \X (1..MAXOPBLOCKS)) = (outstanding + 1) * MAXOPBLOCKS
        BY <1>0, <2>2, Pairs
      <4>2. /\ IsFiniteSet(Unused')
            /\ Cardinality(Unused') <= Cardinality(Ops' \X (1..MAXOPBLOCKS))
        BY <3>1, <4>1, FS_Subset
      <4> QED
        BY <4>1, <4>2, FS_CardinalityType
    <3> QED
      BY <1>0, <1>4, <3>2 DEF begin_op, Reservation, MustWait
  <2>6. NoMissedWakeup'
    <3>1. \A q \in Procs : pc[q] # "asleep"
      BY <1>4 DEF NoMissedWakeup
    <3> QED
      BY <1>4, <3>1 DEF begin_op, NoMissedWakeup, TypeOK
  <2> QED
    BY <1>1, <1>2, <2>3, <2>4, <2>5, <2>6
<1> QED
  BY <1>3, <1>4

\* A call in progress keeps commit() and recovery away.
LEMMA OpRuns ==
  ASSUME IInv, Up, NEW p \in Procs, pc[p] = "op"
  PROVE  phase = "run" /\ ~committing
BY DEF IInv, Control, Ops, Up, TypeOK

\* Append makes the sequence one longer and keeps what was there.
LEMMA AppendFacts ==
  ASSUME NEW S, NEW s \in Seq(S), NEW x \in S
  PROVE  /\ Append(s, x) \in Seq(S)
         /\ Len(Append(s, x)) = Len(s) + 1
         /\ \A i \in 1..Len(s) : Append(s, x)[i] = s[i]
         /\ Append(s, x)[Len(s) + 1] = x
OBVIOUS

\* log_write() has not yet touched the log when it has tested its size.
LEMMA WriteInv ==
  ASSUME IInv, NEW p \in Procs, NEW b \in Blocks, NEW v \in Vals,
         log_write(p, b, v)
  PROVE  IInv'
<1> USE DEF IInv
<1>1. phase = "run" /\ ~committing /\ pc[p] = "op" /\ appending[p] = {}
  BY OpRuns DEF log_write
<1>2. /\ pc' = pc /\ lh' = lh /\ outstanding' = outstanding /\ wrote' = wrote
      /\ committing' = committing /\ phase' \in {"run", "panic"}
      /\ home' = home /\ hdr' = hdr /\ logd' = logd /\ tail' = tail
      /\ cache' = [cache EXCEPT ![b] = v] /\ appending' = [appending EXCEPT ![p] = {b}]
  BY <1>1 DEF log_write, disk
<1>3. Ops' = Ops /\ Unused' = Unused
  BY <1>2 DEF Ops, Unused
<1>4. TypeOK'
  BY <1>2 DEF TypeOK
<1>5. Control' /\ Loop' /\ Header' /\ Copied' /\ Compact(lh)' /\ Compact(hdr)'
  BY <1>1, <1>2, <1>3 DEF Control, Loop, Header, Copied, Compact, WithinLog
<1>6. Clean'
  <2> SUFFICES ASSUME NEW c \in Blocks, ~Logged(c)'
               PROVE  cache'[c] = home'[c]
    BY <1>2 DEF Clean
  <2>1. c # b
    BY <1>2 DEF Logged, TypeOK
  <2>2. ~Logged(c)
    BY <1>1, <1>2 DEF Logged, TypeOK
  <2> QED
    BY <1>1, <1>2, <2>1, <2>2 DEF Clean, TypeOK
<1>7. Wrote'
  <2>1. \A q \in Procs : appending'[q] = IF q = p THEN {b} ELSE appending[q]
    BY <1>2 DEF TypeOK
  <2>2. Cardinality(wrote[p] \cup {b}) <= MAXOPBLOCKS
    BY DEF log_write
  <2>3. ASSUME NEW q \in Procs
        PROVE  /\ \A c \in appending'[q] : Cardinality(wrote[q] \cup {c}) <= MAXOPBLOCKS
               /\ \A c, d \in appending'[q] : c = d
               /\ pc[q] # "op" => wrote[q] = {} /\ appending'[q] = {}
    <3>1. CASE q = p
      <4>1. appending'[q] = {b}
        BY <2>1, <3>1
      <4> QED
        BY <1>1, <2>2, <3>1, <4>1
    <3>2. CASE q # p
      BY <2>1, <3>2 DEF Wrote
    <3> QED
      BY <3>1, <3>2
  <2> QED
    BY <1>1, <1>2, <2>3 DEF Wrote
<1>8. NoMissedWakeup' /\ Reservation'
  BY <1>2, <1>3 DEF NoMissedWakeup, MustWait, Reservation
<1> QED
  BY <1>4, <1>5, <1>6, <1>7, <1>8

\* log_write() takes one block of the call's reservation if it takes a new
\* block of the log.
LEMMA AppendReserved ==
  ASSUME IInv, NEW p \in Procs, NEW b \in Blocks, log_append(p, b)
  PROVE  Reservation'
<1>1. /\ MAXOPBLOCKS \in Nat /\ LOGSIZE \in Nat
      /\ lh \in Seq(Blocks) /\ Len(lh) \in Nat
  BY LogAssumption DEF TypeOK, IInv
<1>2. IsFiniteSet(Unused) /\ Cardinality(Unused) \in Nat
  <2>1. Unused \in SUBSET (Ops \X (1..MAXOPBLOCKS))
    BY DEF Unused, Ops
  <2>2. IsFiniteSet(Ops \X (1..MAXOPBLOCKS))
    BY <1>1, Pairs DEF IInv, Control
  <2> QED
    BY <2>1, <2>2, FS_Subset, FS_CardinalityType
<1>3. /\ IsFiniteSet(wrote[p]) /\ Cardinality(wrote[p]) \in Nat
      /\ pc[p] = "op" /\ phase = "run" /\ pc' = pc
      /\ \A q \in Procs : wrote'[q] = IF q = p THEN wrote[p] \cup {b} ELSE wrote[q]
  <2>1. pc[p] = "op"
    BY DEF IInv, Wrote, log_append
  <2> QED
    BY <2>1, OpRuns, FS_CardinalityType DEF IInv, Wrote, log_append, TypeOK
<1>4. CASE b \in wrote[p]
  <2>1. wrote' = wrote
    BY <1>3, <1>4 DEF log_append, IInv, TypeOK
  <2>2. Unused' = Unused
    BY <1>3, <2>1 DEF Unused
  <2>3. \E i \in DOMAIN lh : lh[i] = b
    BY <1>1, <1>3, <1>4 DEF IInv, Wrote
  <2>4. lh' = lh
    BY <2>3 DEF log_append, Absorb
  <2> QED
    BY <2>2, <2>4 DEF Reservation, IInv
<1>5. CASE b \notin wrote[p]
  <2> DEFINE n == Cardinality(wrote[p]) + 1
  <2>1. Cardinality(wrote[p] \cup {b}) = n /\ n \in 1..MAXOPBLOCKS
    <3>1. Cardinality(wrote[p] \cup {b}) = n
      BY <1>3, <1>5, FS_AddElement
    <3>2. Cardinality(wrote[p] \cup {b}) <= MAXOPBLOCKS
      BY DEF log_append, IInv, Wrote
    <3> QED
      BY <1>1, <1>3, <3>1, <3>2
  <2>2. <<p, n>> \in Unused
    BY <1>1, <1>3, <2>1 DEF Unused
  <2>3. Unused' = Unused \ {<<p, n>>}
    <3>1. \A k \in 1..MAXOPBLOCKS : k > n <=> k > Cardinality(wrote[p]) /\ k # n
      BY <1>3
    <3> HIDE DEF n
    <3>2. \A q \in Procs, k \in 1..MAXOPBLOCKS :
             <<q, k>> \in Unused' <=> <<q, k>> \in Unused /\ <<q, k>> # <<p, n>>
      <4> SUFFICES ASSUME NEW q \in Procs, NEW k \in 1..MAXOPBLOCKS
                   PROVE  <<q, k>> \in Unused' <=>
                            <<q, k>> \in Unused /\ <<q, k>> # <<p, n>>
        OBVIOUS
      <4>1. <<q, k>> \in Unused <=> pc[q] = "op" /\ k > Cardinality(wrote[q])
        BY DEF Unused
      <4>2. <<q, k>> \in Unused' <=> pc[q] = "op" /\ k > Cardinality(wrote'[q])
        BY <1>3 DEF Unused
      <4>3. CASE q = p
        BY <1>3, <2>1, <3>1, <4>1, <4>2, <4>3
      <4>4. CASE q # p
        BY <1>3, <4>1, <4>2, <4>4
      <4> QED
        BY <4>3, <4>4
    <3> QED
      BY <3>2 DEF Unused
  <2>4. Cardinality(Unused') = Cardinality(Unused) - 1
    BY <1>2, <2>2, <2>3, FS_RemoveElement
  <2>5. Len(lh') = Len(lh) \/ Len(lh') = Len(lh) + 1
    <3>1. lh' = lh \/ lh' = Append(lh, b)
      BY DEF log_append, Absorb
    <3> QED
      BY <1>1, <3>1, AppendFacts
  <2> QED
    BY <1>1, <1>2, <2>4, <2>5 DEF Reservation, IInv
<1> QED
  BY <1>4, <1>5

\* log_write() records the block once.
LEMMA AppendInv ==
  ASSUME IInv, NEW p \in Procs, NEW b \in Blocks, log_append(p, b)
  PROVE  IInv'
<1> USE DEF IInv
<1>0. /\ MAXOPBLOCKS \in Nat /\ LOGSIZE \in Nat /\ LogBlocks \in Nat
      /\ lh \in Seq(Blocks) /\ Len(lh) \in Nat /\ outstanding \in Nat
  BY LogAssumption DEF TypeOK
<1>1. phase = "run" /\ ~committing /\ pc[p] = "op" /\ b \in appending[p]
  <2>1. pc[p] = "op" /\ b \in appending[p]
    BY DEF Wrote, log_append
  <2> QED
    BY <2>1, OpRuns DEF log_append
<1>2. /\ pc' = pc /\ Ops' = Ops /\ outstanding' = outstanding
      /\ committing' = committing /\ phase' = "run" /\ cache' = cache
      /\ home' = home /\ hdr' = hdr /\ logd' = logd /\ tail' = tail
      /\ wrote' = [wrote EXCEPT ![p] = @ \cup {b}]
      /\ appending' = [appending EXCEPT ![p] = {}]
  BY <1>1 DEF log_append, Ops, disk
<1>3. Reservation' /\ Len(lh') <= LOGSIZE
  <2>1. Reservation'
    BY AppendReserved
  <2>2. IsFiniteSet(Unused')
    <3>1. Unused' \in SUBSET (Ops' \X (1..MAXOPBLOCKS))
      BY DEF Unused, Ops
    <3> QED
      BY <1>0, <1>2, <3>1, Pairs, FS_Subset DEF Control
  <2>3. Cardinality(Unused') \in Nat
    BY <2>2, FS_CardinalityType
  <2>4. Len(lh') \in Nat
    BY <1>0, AppendFacts DEF log_append, Absorb
  <2> QED
    BY <1>0, <2>1, <2>3, <2>4 DEF Reservation
<1>4. /\ Len(lh) <= Len(lh') /\ Len(lh') \in Nat
      /\ lh' \in Seq(Blocks)
      /\ \A i \in 1..Len(lh) : lh'[i] = lh[i]
      /\ \E i \in 1..Len(lh') : lh'[i] = b
      /\ Compact(lh')
  <2>1. CASE \E i \in DOMAIN lh : lh[i] = b
    <3>1. lh' = lh
      BY <2>1 DEF log_append, Absorb
    <3> QED
      BY <1>0, <2>1, <3>1
  <2>2. CASE ~(\E i \in DOMAIN lh : lh[i] = b)
    <3>1. lh' = Append(lh, b)
      BY <2>2 DEF log_append, Absorb
    <3> QED
      BY <1>0, <1>3, <2>2, <3>1, AppendFacts DEF Compact
  <2> QED
    BY <2>1, <2>2
<1>5. TypeOK'
  BY <1>2, <1>4 DEF TypeOK
<1>6. Control' /\ Loop' /\ Header' /\ Copied' /\ Compact(hdr)'
  BY <1>1, <1>2 DEF Control, Loop, Header, Copied, Compact
<1>7. Clean'
  <2> SUFFICES ASSUME NEW c \in Blocks, ~Logged(c)'
               PROVE  cache'[c] = home'[c]
    BY <1>2 DEF Clean
  <2>1. \A i \in 1..Len(lh') : lh'[i] # c
    BY DEF Logged
  <2>2. c # b
    BY <1>4, <2>1
  <2>3. \A i \in 1..Len(lh) : lh[i] # c
    BY <1>0, <1>4, <2>1
  <2>4. \A q \in Procs : c \notin appending[q]
    BY <1>1, <1>2, <2>2 DEF Logged, TypeOK, Wrote
  <2> QED
    BY <1>1, <1>2, <2>3, <2>4 DEF Clean, Logged
<1>8. Wrote'
  <2> SUFFICES ASSUME NEW q \in Procs
               PROVE  /\ IsFiniteSet(wrote'[q])
                      /\ pc'[q] # "op" => wrote'[q] = {} /\ appending'[q] = {}
                      /\ \A c \in appending'[q] : Cardinality(wrote'[q] \cup {c}) <= MAXOPBLOCKS
                      /\ \A c, d \in appending'[q] : c = d
                      /\ phase' # "panic" =>
                            \A c \in wrote'[q] : \E i \in 1..Len(lh') : lh'[i] = c
    BY DEF Wrote
  <2>1. /\ wrote'[q] = IF q = p THEN wrote[p] \cup {b} ELSE wrote[q]
        /\ appending'[q] = IF q = p THEN {} ELSE appending[q]
    BY <1>2 DEF TypeOK
  <2>2. IsFiniteSet(wrote'[q])
    BY <2>1, FS_AddElement DEF Wrote
  <2>3. ASSUME NEW c \in wrote'[q]
        PROVE  \E i \in 1..Len(lh') : lh'[i] = c
    <3>1. CASE c = b
      BY <1>4, <3>1
    <3>2. CASE c # b
      <4>1. c \in wrote[q]
        BY <2>1, <2>3, <3>2
      <4>2. PICK i \in 1..Len(lh) : lh[i] = c
        BY <1>1, <4>1 DEF Wrote
      <4> QED
        BY <1>0, <1>4, <4>2
    <3> QED
      BY <3>1, <3>2
  <2>4. \A c \in appending'[q] : Cardinality(wrote'[q] \cup {c}) <= MAXOPBLOCKS
    <3>1. CASE q = p
      BY <2>1, <3>1
    <3>2. CASE q # p
      BY <2>1, <3>2 DEF Wrote
    <3> QED
      BY <3>1, <3>2
  <2>5. \A c, d \in appending'[q] : c = d
    BY <2>1 DEF Wrote
  <2>6. pc'[q] # "op" => wrote'[q] = {} /\ appending'[q] = {}
    BY <1>1, <1>2, <2>1 DEF Wrote
  <2> QED
    BY <2>2, <2>3, <2>4, <2>5, <2>6
<1>9. NoMissedWakeup'
  BY <1>0, <1>2, <1>4 DEF NoMissedWakeup, MustWait
<1> QED
  BY <1>3, <1>4, <1>5, <1>6, <1>7, <1>8, <1>9

\* end_op() gives the reservation back; the last call commits, and any other
\* wakes those who wait for space.
LEMMA EndInv ==
  ASSUME IInv, NEW p \in Procs, end_op(p)
  PROVE  IInv'
<1> USE DEF IInv
<1>0. /\ MAXOPBLOCKS \in Nat /\ LOGSIZE \in Nat /\ lh \in Seq(Blocks)
      /\ Len(lh) \in Nat /\ outstanding \in Nat
  BY LogAssumption DEF TypeOK
<1>1. phase = "run" /\ ~committing /\ pc[p] = "op" /\ p \in Ops
  BY OpRuns DEF end_op, Ops
<1>2. /\ home' = home /\ hdr' = hdr /\ logd' = logd /\ cache' = cache
      /\ lh' = lh /\ tail' = 1
      /\ appending' = appending /\ appending[p] = {}
      /\ wrote' = [wrote EXCEPT ![p] = {}]
      /\ outstanding' = outstanding - 1
  BY DEF end_op, disk
<1>3. /\ pc' \in [Procs -> {"out", "op", "asleep"}]
      /\ \A q \in Procs : pc'[q] = "op" <=> pc[q] = "op" /\ q # p
  BY <1>1 DEF end_op, EndOther, Wake, TypeOK
<1>4. Ops' = Ops \ {p}
  BY <1>3 DEF Ops
<1>5. IsFiniteSet(Ops') /\ Cardinality(Ops') = outstanding - 1 /\ outstanding' \in Nat
  <2>1. IsFiniteSet(Ops') /\ Cardinality(Ops') = Cardinality(Ops) - 1
    BY <1>1, <1>4, FS_RemoveElement DEF Control
  <2>2. Cardinality(Ops') \in Nat
    BY <2>1, FS_CardinalityType
  <2> QED
    BY <1>2, <2>1, <2>2 DEF Control
<1>6. \/ /\ LastOp /\ committing' = TRUE
         /\ phase' = IF lh = <<>> THEN "done" ELSE "write_log"
      \/ /\ ~LastOp /\ committing' = committing /\ phase' = "run"
         /\ pc' = EndOther(p)
  BY <1>1 DEF end_op
<1>7. TypeOK'
  <2>1. committing' \in BOOLEAN
    BY <1>6 DEF TypeOK
  <2>2. wrote' \in [Procs -> SUBSET Blocks]
    BY <1>2 DEF TypeOK
  <2>3. phase' \in {"run", "write_log", "done"}
    BY <1>6
  <2> QED
    BY <1>2, <1>3, <1>5, <2>1, <2>2, <2>3 DEF TypeOK
<1>8. Control'
  <2>1. LastOp => Ops' = {}
    BY <1>5, FS_EmptySet, FS_CardinalityType DEF LastOp
  <2> QED
    BY <1>1, <1>2, <1>5, <1>6, <2>1 DEF Control
<1>9. Compact(lh)' /\ Compact(hdr)' /\ Loop' /\ Header' /\ Clean' /\ Copied'
  <2>1. phase' = "write_log" => Len(lh) >= 1
    BY <1>0, <1>6
  <2> QED
    BY <1>0, <1>1, <1>2, <1>6, <2>1
       DEF Compact, Loop, Header, Clean, Logged, Copied, WithinLog
<1>10. Wrote'
  BY <1>1, <1>2, <1>3, FS_EmptySet DEF Wrote, TypeOK
<1>11. Reservation'
  <2>1. Unused' \in SUBSET Unused
    BY <1>2, <1>3 DEF Unused, TypeOK
  <2>2. IsFiniteSet(Unused)
    <3>1. Unused \in SUBSET (Ops \X (1..MAXOPBLOCKS))
      BY DEF Unused, Ops
    <3> QED
      BY <1>0, <3>1, Pairs, FS_Subset DEF Control
  <2>3. /\ Cardinality(Unused') <= Cardinality(Unused)
        /\ Cardinality(Unused) \in Nat /\ Cardinality(Unused') \in Nat
    BY <2>1, <2>2, FS_Subset, FS_CardinalityType
  <2> QED
    BY <1>0, <1>2, <2>3 DEF Reservation
<1>12. NoMissedWakeup'
  <2>1. CASE LastOp
    BY <1>6, <2>1 DEF NoMissedWakeup, MustWait
  <2>2. CASE ~LastOp
    BY <1>6, <2>2 DEF NoMissedWakeup, EndOther, Wake
  <2> QED
    BY <2>1, <2>2
<1> QED
  BY <1>7, <1>8, <1>9, <1>10, <1>11, <1>12

\* While commit() or recovery runs, no call is in progress and none has a
\* reservation.
LEMMA Quiet ==
  ASSUME IInv, phase \notin {"run", "panic"}
  PROVE  /\ outstanding = 0 /\ Ops = {} /\ Unused = {}
         /\ \A p \in Procs : wrote[p] = {} /\ appending[p] = {} /\ pc[p] # "op"
<1>1. Ops = {} /\ outstanding = 0
  BY FS_EmptySet DEF IInv, Control
<1>2. \A p \in Procs : pc[p] # "op"
  BY <1>1 DEF Ops
<1> QED
  BY <1>1, <1>2 DEF IInv, Wrote, Unused

\* A step of commit() or of recovery that leaves the calls alone keeps what
\* the invariant says of them.
LEMMA CommitStep ==
  ASSUME IInv, phase \notin {"run", "panic"},
         wrote' = wrote, appending' = appending, outstanding' = outstanding,
         \/ pc' = pc
         \/ pc' = Wake,
         lh' \in Seq(Blocks), Len(lh') <= LOGSIZE
  PROVE  /\ Ops' = {} /\ IsFiniteSet(Ops') /\ outstanding' = Cardinality(Ops')
         /\ Wrote' /\ Reservation'
<1>1. \A p \in Procs : pc'[p] # "op" /\ wrote'[p] = {} /\ appending'[p] = {}
  BY Quiet DEF Wake
<1>2. Ops' = {} /\ Unused' = {}
  BY <1>1 DEF Ops, Unused
<1>3. Reservation'
  BY <1>2, FS_EmptySet, LogAssumption DEF Reservation
<1>4. Wrote'
  BY <1>1, FS_EmptySet DEF Wrote
<1> QED
  BY <1>2, <1>3, <1>4, Quiet, FS_EmptySet

\* The end of end_op() wakes everybody.
LEMMA EndCommitInv ==
  ASSUME IInv, end_commit
  PROVE  IInv'
<1> USE DEF IInv
<1>1. /\ phase = "done" /\ phase' = "run" /\ committing' = FALSE /\ pc' = Wake
      /\ home' = home /\ hdr' = hdr /\ logd' = logd /\ cache' = cache
      /\ lh' = lh /\ outstanding' = outstanding /\ wrote' = wrote /\ tail' = tail
      /\ appending' = appending
  BY DEF end_commit, disk
<1>2. TypeOK'
  <2>1. committing' \in BOOLEAN
    BY <1>1
  <2> QED
    BY <1>1, <2>1 DEF TypeOK, Wake
<1>3. /\ Ops' = {} /\ IsFiniteSet(Ops') /\ outstanding' = Cardinality(Ops')
      /\ Wrote' /\ Reservation'
  BY <1>1, CommitStep DEF TypeOK, Compact
<1>4. Control'
  BY <1>1, <1>3 DEF Control
<1>5. Compact(lh)' /\ Compact(hdr)' /\ Loop' /\ Header' /\ Clean' /\ Copied'
  BY <1>1 DEF Compact, Loop, Header, Clean, Logged, Copied, WithinLog
<1>6. NoMissedWakeup'
  BY <1>1 DEF NoMissedWakeup, Wake
<1> QED
  BY <1>2, <1>3, <1>4, <1>5, <1>6

\* write_log() copies one block from the cache to the log, or to the block
\* behind it.
LEMMA WriteLogInv ==
  ASSUME IInv, write_log
  PROVE  IInv'
<1> USE DEF IInv
<1>1. /\ phase = "write_log"
      /\ hdr' = hdr /\ lh' = lh
      /\ outstanding' = outstanding /\ committing' = committing
      /\ wrote' = wrote /\ appending' = appending /\ pc' = pc
      /\ phase' = IF tail = Len(lh) THEN "head" ELSE "write_log"
      /\ tail' = IF tail = Len(lh) THEN 1 ELSE tail + 1
  BY DEF write_log, opvars
<1>2. /\ lh \in Seq(Blocks) /\ Len(lh) \in Nat /\ tail \in 1..Len(lh)
      /\ LogBlocks \in Nat /\ lh[tail] \in Blocks /\ cache[lh[tail]] \in Vals
      /\ Behind \in Blocks
      /\ WithinLog => \A i \in 1..Len(lh) : i \in LogData
  BY <1>1, LogAssumption DEF TypeOK, Loop, WithinLog, LogData
<1>3. \/ /\ tail \in LogData /\ home' = home /\ cache' = cache
         /\ logd' = [logd EXCEPT ![tail] = cache[lh[tail]]]
      \/ /\ tail \notin LogData /\ logd' = logd
         /\ home' = [home EXCEPT ![Behind] = cache[lh[tail]]]
         /\ cache' = [cache EXCEPT ![Behind] = cache[lh[tail]]]
  BY DEF write_log
<1>4. TypeOK'
  BY <1>1, <1>2, <1>3 DEF TypeOK
<1>5. /\ Ops' = {} /\ IsFiniteSet(Ops') /\ outstanding' = Cardinality(Ops')
      /\ Wrote' /\ Reservation'
  BY <1>1, CommitStep DEF TypeOK, Compact
<1>6. Control'
  BY <1>1, <1>5 DEF Control
<1>7. Compact(lh)' /\ Compact(hdr)' /\ Header'
  BY <1>1 DEF Compact, Header
<1>8. Clean'
  <2>1. \A b \in Blocks : cache[b] = home[b] => cache'[b] = home'[b]
    BY <1>2, <1>3 DEF TypeOK
  <2>2. \A b \in Blocks : Logged(b)' <=> Logged(b)
    BY <1>1 DEF Logged
  <2> QED
    BY <1>1, <2>1, <2>2 DEF Clean
<1>9. Loop'
  BY <1>1, <1>2 DEF Loop
<1>10. Copied'
  <2> SUFFICES ASSUME WithinLog PROVE Copied'
    BY <1>1 DEF Copied, WithinLog
  <2>1. /\ tail \in LogData /\ cache' = cache
        /\ \A i \in LogData : logd'[i] = IF i = tail THEN cache[lh[tail]] ELSE logd[i]
    BY <1>2, <1>3 DEF TypeOK
  <2>2. \A i \in 1..tail : logd'[i] = cache'[lh'[i]]
    BY <1>1, <1>2, <2>1 DEF Copied
  <2> QED
    BY <1>1, <1>2, <2>2 DEF Copied
<1>11. NoMissedWakeup'
  BY <1>1 DEF NoMissedWakeup, MustWait
<1> QED
  BY <1>4, <1>5, <1>6, <1>7, <1>8, <1>9, <1>10, <1>11

\* write_head() makes the transaction durable.
LEMMA WriteHeadInv ==
  ASSUME IInv, write_head
  PROVE  IInv'
<1> USE DEF IInv
<1>1. /\ phase = "head" /\ phase' = "install" /\ hdr' = lh
      /\ home' = home /\ logd' = logd /\ cache' = cache /\ lh' = lh
      /\ outstanding' = outstanding /\ committing' = committing
      /\ wrote' = wrote /\ appending' = appending /\ pc' = pc /\ tail' = tail
  BY DEF write_head, AfterHead, opvars
<1>2. TypeOK'
  BY <1>1 DEF TypeOK
<1>3. /\ Ops' = {} /\ IsFiniteSet(Ops') /\ outstanding' = Cardinality(Ops')
      /\ Wrote' /\ Reservation'
  BY <1>1, CommitStep DEF TypeOK, Compact
<1>4. Control'
  BY <1>1, <1>3 DEF Control
<1>5. Compact(lh)' /\ Compact(hdr)' /\ Header' /\ Clean'
  BY <1>1 DEF Compact, Header, Clean, Logged, Loop
<1>6. Loop' /\ Copied'
  BY <1>1 DEF Loop, Copied, WithinLog, TypeOK
<1>7. NoMissedWakeup'
  BY <1>1 DEF NoMissedWakeup, MustWait
<1> QED
  BY <1>2, <1>3, <1>4, <1>5, <1>6, <1>7

\* install_trans() copies one block from the log, or from the block behind
\* it, to its home.
LEMMA InstallInv ==
  ASSUME IInv, install_trans
  PROVE  IInv'
<1> USE DEF IInv
<1>1. /\ phase \in {"install", "recover"}
      /\ hdr' = hdr /\ logd' = logd /\ lh' = lh
      /\ outstanding' = outstanding /\ committing' = committing
      /\ wrote' = wrote /\ appending' = appending /\ pc' = pc /\ tail' = tail + 1
      /\ phase' = IF tail < Len(lh) THEN phase
                  ELSE IF phase = "install" THEN "clear" ELSE "reclear"
      /\ home' = [home EXCEPT ![lh[tail]] = LogBlock(tail)]
      /\ cache' = [cache EXCEPT ![lh[tail]] = LogBlock(tail)]
  BY DEF install_trans, opvars
<1>2. /\ lh \in Seq(Blocks) /\ Len(lh) \in Nat /\ tail \in 1..Len(lh)
      /\ lh[tail] \in Blocks /\ LogBlock(tail) \in Vals
      /\ \A i \in 1..Len(lh) : lh[i] \in Blocks
  BY <1>1, LogAssumption DEF TypeOK, Loop, LogBlock
<1>3. \A b \in Blocks :
        /\ home'[b] = IF b = lh[tail] THEN LogBlock(tail) ELSE home[b]
        /\ cache'[b] = IF b = lh[tail] THEN LogBlock(tail) ELSE cache[b]
  BY <1>1, <1>2 DEF TypeOK
<1>4. TypeOK'
  BY <1>1, <1>2 DEF TypeOK
<1>5. /\ Ops' = {} /\ IsFiniteSet(Ops') /\ outstanding' = Cardinality(Ops')
      /\ Wrote' /\ Reservation'
  BY <1>1, CommitStep DEF TypeOK, Compact
<1>6. Control'
  BY <1>1, <1>5 DEF Control
<1>7. Compact(lh)' /\ Compact(hdr)' /\ Header' /\ Loop'
  BY <1>1, <1>2 DEF Compact, Header, Loop
<1>8. Clean'
  <2>1. \A b \in Blocks : cache[b] = home[b] => cache'[b] = home'[b]
    BY <1>3
  <2>2. \A b \in Blocks : Logged(b)' <=> Logged(b)
    BY <1>1 DEF Logged
  <2>3. home'[lh[tail]] = cache'[lh[tail]]
    BY <1>2, <1>3
  <2>4. phase = "install" => \A i \in 1..tail : home'[lh[i]] = cache'[lh[i]]
    BY <1>1, <1>2, <2>1, <2>3 DEF Clean
  <2>5. phase = "recover" => cache' = home'
    BY <1>1 DEF Clean
  <2> QED
    BY <1>1, <1>2, <2>1, <2>2, <2>4, <2>5 DEF Clean
<1>9. Copied'
  <2> SUFFICES ASSUME WithinLog PROVE Copied'
    BY <1>1 DEF Copied, WithinLog
  <2>1. LogBlock(tail) = logd[tail]
    BY <1>2, LogAssumption DEF LogBlock, LogData, WithinLog
  <2>2. \A i \in 1..Len(lh) : i # tail => lh[i] # lh[tail]
    BY <1>2 DEF Compact
  <2>3. \A i \in 1..tail : home'[lh'[i]] = logd'[i]
    BY <1>1, <1>2, <1>3, <2>1, <2>2 DEF Copied
  <2>4. phase = "install" => \A i \in 1..Len(lh) : logd'[i] = cache'[lh'[i]]
    BY <1>1, <1>2, <1>3, <2>1, <2>2 DEF Copied
  <2> QED
    BY <1>1, <1>2, <2>3, <2>4 DEF Copied
<1>10. NoMissedWakeup'
  BY <1>1 DEF NoMissedWakeup, MustWait
<1> QED
  BY <1>4, <1>5, <1>6, <1>7, <1>8, <1>9, <1>10

\* The header is cleared when every block is at home.
LEMMA ClearInv ==
  ASSUME IInv, clear_head
  PROVE  IInv'
<1> USE DEF IInv
<1>1. /\ phase \in {"clear", "reclear"} /\ lh' = <<>> /\ hdr' = <<>>
      /\ phase' = IF phase = "clear" THEN "done" ELSE "run"
      /\ home' = home /\ logd' = logd /\ cache' = cache
      /\ outstanding' = outstanding /\ committing' = committing
      /\ wrote' = wrote /\ appending' = appending /\ pc' = pc /\ tail' = tail
  BY DEF clear_head
<1>2. TypeOK'
  BY <1>1 DEF TypeOK
<1>3. Len(lh') <= LOGSIZE /\ lh' \in Seq(Blocks)
  BY <1>1, LogAssumption
<1>4. /\ Ops' = {} /\ IsFiniteSet(Ops') /\ outstanding' = Cardinality(Ops')
      /\ Wrote' /\ Reservation'
  BY <1>1, <1>3, CommitStep
<1>5. Control'
  BY <1>1, <1>4 DEF Control
<1>6. Compact(lh)' /\ Compact(hdr)' /\ Header' /\ Loop' /\ Copied'
  BY <1>1, LogAssumption DEF Compact, Header, Loop, Copied
<1>7. Clean'
  <2>1. \A p \in Procs : appending[p] = {}
    BY <1>1, Quiet
  <2>2. \A b \in Blocks : cache[b] = home[b]
    BY <1>1, <2>1 DEF Clean, Logged
  <2> QED
    BY <1>1, <2>2 DEF Clean
<1>8. NoMissedWakeup'
  BY <1>1 DEF NoMissedWakeup, MustWait, Control
<1> QED
  BY <1>2, <1>4, <1>5, <1>6, <1>7, <1>8

\* After a crash the header decides what is installed.
LEMMA CrashInv ==
  ASSUME IInv, Crash
  PROVE  IInv'
<1> USE DEF IInv
<1>1. /\ home' = home /\ hdr' = hdr /\ logd' = logd /\ cache' = home
      /\ lh' = hdr /\ outstanding' = 0 /\ committing' = FALSE /\ tail' = 1
      /\ phase' = IF hdr = <<>> THEN "reclear" ELSE "recover"
      /\ wrote' = [p \in Procs |-> {}] /\ appending' = [p \in Procs |-> {}]
      /\ pc' = [p \in Procs |-> "out"]
  BY DEF Crash, disk
<1>2. TypeOK'
  <2>1. /\ committing' \in BOOLEAN /\ wrote' \in [Procs -> SUBSET Blocks]
        /\ appending' \in [Procs -> SUBSET Blocks]
    BY <1>1
  <2> QED
    BY <1>1, <2>1 DEF TypeOK
<1>3. Ops' = {} /\ Unused' = {}
  BY <1>1 DEF Ops, Unused
<1>4. Control'
  BY <1>1, <1>3, FS_EmptySet DEF Control
<1>5. Compact(lh)' /\ Compact(hdr)' /\ Header' /\ Clean' /\ Copied'
  BY <1>1 DEF Compact, Header, Clean, Copied
<1>6. Loop'
  BY <1>1 DEF Loop, TypeOK
<1>7. Wrote'
  BY <1>1, FS_EmptySet DEF Wrote
<1>8. Reservation'
  BY <1>1, <1>3, FS_EmptySet, LogAssumption DEF Reservation, Compact, TypeOK
<1>9. NoMissedWakeup'
  BY <1>1 DEF NoMissedWakeup
<1> QED
  BY <1>1, <1>2, <1>4, <1>5, <1>6, <1>7, <1>8, <1>9

\* Every step keeps the invariant.
LEMMA NextInv == IInv /\ [Next]_vars => IInv'
<1> SUFFICES ASSUME IInv, [Next]_vars PROVE IInv'
  OBVIOUS
<1>1. CASE UNCHANGED vars
  BY <1>1 DEF IInv, vars, disk, opvars, TypeOK, Compact, Control, Ops, Loop,
     Header, Clean, Logged, Copied, WithinLog, Wrote, Reservation, Unused,
     NoMissedWakeup, MustWait
<1>2. CASE Next
  BY <1>2, BeginInv, WriteInv, AppendInv, EndInv, EndCommitInv, WriteLogInv,
     WriteHeadInv, InstallInv, ClearInv, CrashInv DEF Next
<1> QED
  BY <1>1, <1>2

\* The inductive invariant holds in every reachable state.
THEOREM Invariance == Spec => []IInv
BY InitInv, NextInv, PTL DEF Spec

\* Type correctness.
THEOREM TypeCorrect == Spec => []TypeOK
<1>1. IInv => TypeOK
  BY DEF IInv
<1> QED
  BY <1>1, Invariance, PTL

\* Whatever the calls in progress may still write fits in log.lh.block[],
\* although log_write() tests the size of the log without the lock.
THEOREM ReservationHolds == Spec => []Reservation
<1>1. IInv => Reservation
  BY DEF IInv
<1> QED
  BY <1>1, Invariance, PTL

\* Nobody sleeps in begin_op() without a reason.
THEOREM WakeupsComplete == Spec => []NoMissedWakeup
<1>1. IInv => NoMissedWakeup
  BY DEF IInv
<1> QED
  BY <1>1, Invariance, PTL

\* commit() and recovery run alone; write_log() and install_trans() never go
\* past the end of log.lh.block[], and past the end of the log only to the one
\* block behind it.
THEOREM CommitAlone ==
  Spec => []/\ phase \notin {"run", "panic"} => outstanding = 0
            /\ phase \in {"write_log", "install", "recover"} =>
                  tail <= LOGSIZE /\ tail \in LogData \cup {LogBlocks}
<1>1. IInv => /\ phase \notin {"run", "panic"} => outstanding = 0
              /\ phase \in {"write_log", "install", "recover"} =>
                    tail <= LOGSIZE /\ tail \in LogData \cup {LogBlocks}
  BY Quiet, LogAssumption DEF IInv, TypeOK, Loop, Compact, LogData
<1> QED
  BY <1>1, Invariance, PTL

\* A log whose header block is not counted in LOGSIZE would be long enough
\* for every transaction that begin_op() admits.
THEOREM RoomyLogSuffices ==
  ASSUME LOGSIZE < LogBlocks
  PROVE  Spec => []WithinLog
<1>1. IInv => WithinLog
  BY LogAssumption DEF IInv, TypeOK, Compact, WithinLog
<1> QED
  BY <1>1, Invariance, PTL

-----------------------------------------------------------------------------
(* The log implements AtomicDisk                                           *)

\* What AtomicDisk calls mem.
Mem == IF phase \in {"recover", "reclear"} THEN Recovered ELSE cache

\* Recovery gives a block the content of its only entry in the log.
RecoveredIs ==
    /\ DOMAIN Recovered = Blocks
    /\ \A b \in Blocks : (\A i \in 1..Len(hdr) : hdr[i] # b) => Recovered[b] = home[b]
    /\ \A i \in 1..Len(hdr) : Recovered[hdr[i]] = logd[i]

\* Recovered is what recover_from_log() computes, because no block is twice
\* in the header.
LEMMA RecoveredLemma == IInv => RecoveredIs
<1> SUFFICES ASSUME IInv PROVE RecoveredIs
  OBVIOUS
<1>1. hdr \in Seq(Blocks) /\ DOMAIN hdr = 1..Len(hdr) /\ Len(hdr) \in Nat
  BY DEF IInv, TypeOK
<1>2. DOMAIN Recovered = Blocks
  BY DEF Recovered
<1>3. ASSUME NEW b \in Blocks, \A i \in 1..Len(hdr) : hdr[i] # b
      PROVE  Recovered[b] = home[b]
  BY <1>1, <1>3 DEF Recovered
<1>4. ASSUME NEW i \in 1..Len(hdr)
      PROVE  Recovered[hdr[i]] = logd[i]
  <2>1. hdr[i] \in Blocks
    BY <1>1
  <2>2. (CHOOSE j \in DOMAIN hdr : hdr[j] = hdr[i]) = i
    BY <1>1 DEF IInv, Compact
  <2> QED
    BY <1>1, <2>1, <2>2 DEF Recovered
<1> QED
  BY <1>2, <1>3, <1>4 DEF RecoveredIs

\* Two disks that agree on every block are the same.
LEMMA SameBlocks ==
  ASSUME NEW f, NEW g, f = [b \in Blocks |-> f[b]], g = [b \in Blocks |-> g[b]],
         \A b \in Blocks : f[b] = g[b]
  PROVE  f = g
OBVIOUS

\* Every step of the log is a step of AtomicDisk or changes nothing there,
\* while the transaction fits in the log.
LEMMA StepRefines ==
  ASSUME IInv, IInv', [Next]_vars, WithinLog
  PROVE  [Abstract!Next]_(Abstract!vars)
<1> DEFINE Same == Recovered' = Recovered /\ Mem' = Mem /\ outstanding' = outstanding
<1>1. Same => UNCHANGED Abstract!vars
  BY DEF Abstract!vars, Mem
<1>2. RecoveredIs /\ RecoveredIs'
  <2>1. IInv' => RecoveredIs'
    BY RecoveredLemma, PTL
  <2> QED
    BY <2>1, RecoveredLemma
<1>3. home' = home /\ hdr' = hdr /\ logd' = logd => Recovered' = Recovered
  BY DEF Recovered
<1>4. /\ hdr \in Seq(Blocks) /\ lh \in Seq(Blocks) /\ Len(lh) \in Nat
      /\ home \in [Blocks -> Vals] /\ cache \in [Blocks -> Vals]
      /\ home' \in [Blocks -> Vals] /\ cache' \in [Blocks -> Vals]
      /\ Recovered = [b \in Blocks |-> Recovered[b]]
      /\ Recovered' = [b \in Blocks |-> Recovered'[b]]
  BY DEF IInv, TypeOK, Recovered
<1>5. ASSUME NEW p \in Procs, begin_op(p)
      PROVE  Abstract!Begin \/ Same
  <2>1. Recovered' = Recovered /\ Mem' = Mem
    BY <1>3, <1>5 DEF begin_op, Mem, disk
  <2> QED
    BY <1>5, <2>1 DEF begin_op, Abstract!Begin, Mem
<1>6. ASSUME NEW p \in Procs, NEW b \in Blocks, NEW v \in Vals, log_write(p, b, v)
      PROVE  Abstract!Write(b, v)
  <2>1. phase = "run" /\ phase' \in {"run", "panic"}
    BY <1>6, OpRuns DEF log_write
  <2>2. Recovered' = Recovered
    BY <1>3, <1>6 DEF log_write, disk
  <2>3. Mem = cache /\ Mem' = [cache EXCEPT ![b] = v]
    BY <1>6, <2>1 DEF log_write, Mem
  <2>4. outstanding > 0
    <3>1. Ops # {} /\ IsFiniteSet(Ops) /\ outstanding = Cardinality(Ops) /\ outstanding \in Nat
      BY <1>6 DEF log_write, Ops, IInv, Control, TypeOK
    <3> QED
      BY <3>1, FS_EmptySet
  <2> QED
    BY <1>6, <2>2, <2>3, <2>4 DEF Abstract!Write, Mem, log_write
<1>16. ASSUME NEW p \in Procs, NEW b \in Blocks, log_append(p, b)
       PROVE  Same
  BY <1>3, <1>16 DEF log_append, disk, Mem
<1>7. ASSUME NEW p \in Procs, end_op(p)
      PROVE  Abstract!End
  <2>1. phase = "run" /\ phase' \in {"run", "write_log", "done"}
    BY <1>7, OpRuns DEF end_op
  <2>2. Recovered' = Recovered /\ Mem' = Mem
    BY <1>3, <1>7, <2>1 DEF end_op, disk, Mem
  <2>3. outstanding > 0
    <3>1. Ops # {} /\ IsFiniteSet(Ops) /\ outstanding = Cardinality(Ops) /\ outstanding \in Nat
      BY <1>7 DEF end_op, Ops, IInv, Control, TypeOK
    <3> QED
      BY <3>1, FS_EmptySet
  <2> QED
    BY <1>7, <2>2, <2>3 DEF Abstract!End, Mem, end_op
<1>8. ASSUME end_commit
      PROVE  Same
  BY <1>3, <1>8 DEF end_commit, disk, Mem
<1>9. ASSUME write_log
      PROVE  Same
  <2>0. tail \in LogData
    BY <1>9, LogAssumption DEF write_log, IInv, TypeOK, Loop, WithinLog, LogData
  <2>1. hdr = <<>> /\ hdr' = <<>> /\ home' = home /\ phase = "write_log"
        /\ phase' \in {"write_log", "head"} /\ cache' = cache
    BY <1>9, <2>0 DEF write_log, IInv, Header
  <2>2. Recovered' = Recovered
    BY <1>2, <1>4, <2>1, SameBlocks DEF RecoveredIs
  <2> QED
    BY <1>9, <2>1, <2>2 DEF write_log, Mem, opvars
<1>10. ASSUME write_head
       PROVE  Abstract!Commit
  <2>1. /\ phase = "head" /\ phase' = "install" /\ hdr' = lh /\ home' = home
        /\ logd' = logd /\ cache' = cache /\ outstanding' = outstanding
    BY <1>10 DEF write_head, AfterHead, opvars
  <2>2. \A b \in Blocks : Recovered'[b] = cache[b]
    <3>1. \A p \in Procs : appending[p] = {}
      BY <2>1, Quiet
    <3> QED
      BY <1>2, <2>1, <3>1 DEF RecoveredIs, IInv, Clean, Logged, Copied
  <2>3. Recovered' = cache
    BY <1>4, <2>2, SameBlocks
  <2>4. outstanding = 0
    BY <2>1, Quiet
  <2> QED
    BY <2>1, <2>3, <2>4 DEF Abstract!Commit, Mem
<1>11. ASSUME install_trans
       PROVE  Same
  <2>1. /\ phase \in {"install", "recover"} /\ hdr' = hdr /\ hdr = lh /\ logd' = logd
        /\ tail \in 1..Len(lh) /\ lh[tail] \in Blocks /\ outstanding' = outstanding
        /\ phase = "install" => phase' \in {"install", "clear"}
        /\ phase = "recover" => phase' \in {"recover", "reclear"}
    BY <1>4, <1>11 DEF install_trans, opvars, IInv, Header, Loop, TypeOK
  <2>2. \A b \in Blocks : b # lh[tail] => home'[b] = home[b] /\ cache'[b] = cache[b]
    BY <1>4, <1>11 DEF install_trans
  <2>3. \A b \in Blocks : Recovered'[b] = Recovered[b]
    BY <1>2, <2>1, <2>2 DEF RecoveredIs
  <2>4. Recovered' = Recovered
    BY <1>4, <2>3, SameBlocks
  <2>6. LogBlock(tail) = logd[tail]
    BY <2>1, LogAssumption DEF LogBlock, LogData, WithinLog, IInv, TypeOK
  <2>5. phase = "install" => cache' = cache
    BY <1>4, <1>11, <2>1, <2>6 DEF install_trans, IInv, Copied
  <2> QED
    BY <2>1, <2>4, <2>5 DEF Mem
<1>12. ASSUME clear_head
       PROVE  Same
  <2>1. /\ phase \in {"clear", "reclear"} /\ hdr = lh /\ hdr' = <<>>
        /\ home' = home /\ cache' = cache /\ outstanding' = outstanding
        /\ phase' \notin {"recover", "reclear"}
    BY <1>12 DEF clear_head, IInv, Header
  <2>2. \A b \in Blocks : Recovered[b] = home[b] /\ Recovered'[b] = home[b]
    BY <1>2, <2>1 DEF RecoveredIs, IInv, Copied
  <2>3. Recovered = home /\ Recovered' = home
    BY <1>4, <2>2, SameBlocks
  <2>4. phase = "reclear" => cache = home
    BY DEF IInv, Clean
  <2> QED
    BY <2>1, <2>3, <2>4 DEF Mem
<1>13. ASSUME Crash
       PROVE  Abstract!Crash
  <2>1. Recovered' = Recovered /\ phase' \in {"recover", "reclear"}
    BY <1>3, <1>13 DEF Crash, disk
  <2> QED
    BY <1>13, <2>1 DEF Abstract!Crash, Mem, Crash
<1>14. CASE UNCHANGED vars
  BY <1>1, <1>3, <1>14 DEF vars, disk, opvars, Mem
<1>15. CASE Next
  <2> HIDE DEF Same
  <2> QED
    BY <1>1, <1>5, <1>6, <1>16, <1>7, <1>8, <1>9, <1>10, <1>11, <1>12, <1>13, <1>15
       DEF Next, Abstract!Next
<1> QED
  BY <1>14, <1>15

\* The log starts as AtomicDisk does.
LEMMA InitRefines == Init => Abstract!Init
<1> SUFFICES ASSUME Init PROVE Abstract!Init
  OBVIOUS
<1>1. Recovered = home
  BY DEF Init, Recovered
<1> QED
  BY <1>1 DEF Init, Abstract!Init

\* A crash at any moment, during commit() and during recovery too, leaves
\* all of the calls of a transaction or none of them, unless the transaction
\* runs past the end of the log.
THEOREM LogIsAtomic == Spec => Atomic
<1>1. IInv /\ IInv' /\ [Next]_vars => [WithinLog => Abstract!Next]_(Abstract!vars)
  BY StepRefines
<1> QED
  BY <1>1, InitRefines, Invariance, PTL DEF Spec, Atomic

\* The same without the exception, for a log that has room for LOGSIZE data
\* blocks beside its header.
THEOREM RoomyLogIsAtomic ==
  ASSUME LOGSIZE < LogBlocks
  PROVE  Spec => Abstract!Spec
<1>1. IInv /\ IInv' /\ [Next]_vars /\ WithinLog => [Abstract!Next]_(Abstract!vars)
  BY StepRefines
<1> QED
  BY <1>1, InitRefines, Invariance, RoomyLogSuffices, PTL DEF Spec, Abstract!Spec

-----------------------------------------------------------------------------
(* The inode cache under the system calls: RefExact of SysFile             *)

\* The variables of a call: an entry of the cache, or 0.
Regs == 0..NINODE

\* Where a call is in iput(), where it may go on afterwards, and which call
\* it is; link() becomes "link2" when it looks up the new name.
IputLabels == {"iput", "ifree", "ifreed", "idec"}
Returns    == {"idle", "namex", "exists", "linked", "unlinkbad", "unlinked",
               "linkexists", "linkend", "linkbad"}
Callings   == {"", "open", "create", "mkdir", "mknod", "unlink", "link", "chdir", "link2"}


\* Where a call has no reference in dp, or none in ip.
NoDp == {"idle", "open", "chdir", "link", "opened", "openfile", "chdired", "link1", "exists",
         "exists1", "linked", "unlinked", "link2start", "linkend", "linkbad", "linkbad1"}
NoIp == {"idle", "create", "mkdir", "mknod", "unlink", "create1", "unlink1", "unlinkbad"}

Labels == IputLabels \cup Returns \cup Callings \cup NoDp \cup NoIp
          \cup {"walk", "created", "created1", "victim", "victim1", "link21", "panic"}

CallState == [pc : Labels, call : Callings, path : Seq(Entries), name : Entries,
              new : Seq(Entries), dp : Regs, ip : Regs, put : Regs, ret : Returns]

\* Where a call is, or goes on after iput().
Where(t) == IF t.pc \in IputLabels THEN t.ret ELSE t.pc

\* A call in state t overwrites no reference that it still has to give back.
Tidy(t) ==
    /\ t.pc \notin IputLabels => t.put = 0 /\ t.ret = "idle"
    /\ Where(t) \in NoDp => t.dp = 0
    /\ Where(t) \in {"namex", "walk"} /\ t.call # "link2" => t.dp = 0
    /\ Where(t) \in NoIp => t.ip = 0
    /\ Where(t) = "link2start" => t.call = "link2"
    /\ t.pc = "walk" => t.path # <<>>

\* An inode has one entry.
Unique == \A x, y \in Slots : ref[x] > 0 /\ ref[y] > 0 /\ inum[x] = inum[y] => x = y

Counted == \A x \in Slots : ref[x] = Cardinality(Holders(x))

RefType ==
    /\ ref \in [Slots -> Nat] /\ DOMAIN inum = Slots
    /\ cwd \in [Procs -> Regs] /\ file \in [Procs -> Regs] /\ st \in [Procs -> CallState]

RefInv ==
    /\ RefType /\ Unique /\ Counted
    /\ \A p \in Procs : Tidy(st[p])

\* How many references to x process p has, and the references of the other
\* processes: in the current directories c, the open files f and the calls t.
One(b) == IF b THEN 1 ELSE 0
Has(c, f, t, p, x) == One(c[p] = x) + One(f[p] = x) + One(t[p].dp = x) + One(t[p].ip = x)
                      + One(t[p].put = x)
Variables == {"cwd", "file", "dp", "ip", "put"}
RegIn(c, f, t, p, v) ==
    CASE v = "cwd" -> c[p] [] v = "file" -> f[p] [] v = "dp" -> t[p].dp
      [] v = "ip" -> t[p].ip [] v = "put" -> t[p].put
HoldersIn(c, f, t, x) == {h \in Procs \X Variables : RegIn(c, f, t, h[1], h[2]) = x}
Rest(c, f, t, p, x) == {h \in HoldersIn(c, f, t, x) : h[1] # p}

\* What the assumptions on the constants are used for.
LEMMA Constants ==
  NINODE \in Nat \ {0} /\ IsFiniteSet(Procs) /\ Calls \in [Procs -> SUBSET CallType]
BY SysFileAssumption

\* One more reference, if it is one to x.
LEMMA AddOne ==
  ASSUME NEW A, IsFiniteSet(A), NEW h, h \notin A, NEW b \in BOOLEAN
  PROVE  LET B == IF b THEN A \cup {h} ELSE A IN
         IsFiniteSet(B) /\ Cardinality(B) = Cardinality(A) + One(b)
<1>1. CASE b
  <2>1. IsFiniteSet(A \cup {h}) /\ Cardinality(A \cup {h}) = Cardinality(A) + 1
    BY FS_AddElement
  <2> QED
    BY <1>1, <2>1 DEF One
<1>2. CASE ~b
  <2>1. Cardinality(A) \in Nat
    BY FS_CardinalityType
  <2> QED
    BY <1>2, <2>1 DEF One
<1> QED
  BY <1>1, <1>2

\* What holds a reference to x: the variables of p, and the other processes.
LEMMA HoldersIs ==
  ASSUME IsFiniteSet(Procs), NEW c, NEW f, NEW t, NEW p \in Procs, NEW x
  PROVE  /\ Cardinality(Rest(c, f, t, p, x)) \in Nat
         /\ Cardinality(HoldersIn(c, f, t, x)) = Cardinality(Rest(c, f, t, p, x)) + Has(c, f, t, p, x)
<1> DEFINE A0 == Rest(c, f, t, p, x)
           A1 == IF c[p] = x THEN A0 \cup {<<p, "cwd">>} ELSE A0
           A2 == IF f[p] = x THEN A1 \cup {<<p, "file">>} ELSE A1
           A3 == IF t[p].dp = x THEN A2 \cup {<<p, "dp">>} ELSE A2
           A4 == IF t[p].ip = x THEN A3 \cup {<<p, "ip">>} ELSE A3
           A5 == IF t[p].put = x THEN A4 \cup {<<p, "put">>} ELSE A4
<1>1. IsFiniteSet(A0)
  <2>1. IsFiniteSet(Variables)
    <3>1. IsFiniteSet({"cwd", "file"})
      <4>1. IsFiniteSet({"cwd"})
        BY FS_Singleton
      <4>2. {"cwd", "file"} = {"cwd"} \cup {"file"}
        OBVIOUS
      <4> QED
        BY <4>1, <4>2, FS_AddElement
    <3>2. IsFiniteSet({"cwd", "file", "dp"})
      <4>1. {"cwd", "file", "dp"} = {"cwd", "file"} \cup {"dp"}
        OBVIOUS
      <4> QED
        BY <3>1, <4>1, FS_AddElement
    <3>3. IsFiniteSet({"cwd", "file", "dp", "ip"})
      <4>1. {"cwd", "file", "dp", "ip"} = {"cwd", "file", "dp"} \cup {"ip"}
        OBVIOUS
      <4> QED
        BY <3>2, <4>1, FS_AddElement
    <3>4. Variables = {"cwd", "file", "dp", "ip"} \cup {"put"}
      BY DEF Variables
    <3> QED
      BY <3>3, <3>4, FS_AddElement
  <2>2. IsFiniteSet(Procs \X Variables)
    BY <2>1, FS_Product
  <2>3. A0 \subseteq Procs \X Variables
    BY DEF Rest, HoldersIn
  <2> QED
    BY <2>2, <2>3, FS_Subset
<1>2. A0 \cap {<<p, "cwd">>, <<p, "file">>, <<p, "dp">>, <<p, "ip">>, <<p, "put">>} = {}
  BY DEF Rest
<1>3. HoldersIn(c, f, t, x) = A5
  <2>1. /\ RegIn(c, f, t, p, "cwd") = c[p] /\ RegIn(c, f, t, p, "file") = f[p]
        /\ RegIn(c, f, t, p, "dp") = t[p].dp /\ RegIn(c, f, t, p, "ip") = t[p].ip
        /\ RegIn(c, f, t, p, "put") = t[p].put
    BY DEF RegIn
  <2>2. \A h : h \in HoldersIn(c, f, t, x) <=> \/ h \in A0
                                     \/ \E v \in Variables : h = <<p, v>> /\ RegIn(c, f, t, p, v) = x
    BY DEF Rest, HoldersIn, Variables
  <2>3. \A h : h \in A5 <=> \/ h \in A0
                            \/ h = <<p, "cwd">> /\ c[p] = x
                            \/ h = <<p, "file">> /\ f[p] = x
                            \/ h = <<p, "dp">> /\ t[p].dp = x
                            \/ h = <<p, "ip">> /\ t[p].ip = x
                            \/ h = <<p, "put">> /\ t[p].put = x
    <3> HIDE DEF A0
    <3> QED
      OBVIOUS
  <2> HIDE DEF A0, A5
  <2> QED
    BY <2>1, <2>2, <2>3 DEF Variables
<1> HIDE DEF A0
<1>4. IsFiniteSet(A1) /\ Cardinality(A1) = Cardinality(A0) + One(c[p] = x)
  BY <1>1, <1>2, AddOne
<1>5. <<p, "file">> \notin A1
  BY <1>2
<1>6. <<p, "dp">> \notin A2
  BY <1>2
<1>7. <<p, "ip">> \notin A3
  BY <1>2
<1>8. <<p, "put">> \notin A4
  BY <1>2
<1> HIDE DEF A1
<1>9. IsFiniteSet(A2) /\ Cardinality(A2) = Cardinality(A1) + One(f[p] = x)
  BY <1>4, <1>5, AddOne
<1> HIDE DEF A2
<1>10. IsFiniteSet(A3) /\ Cardinality(A3) = Cardinality(A2) + One(t[p].dp = x)
  BY <1>9, <1>6, AddOne
<1> HIDE DEF A3
<1>11. IsFiniteSet(A4) /\ Cardinality(A4) = Cardinality(A3) + One(t[p].ip = x)
  BY <1>10, <1>7, AddOne
<1> HIDE DEF A4
<1>12. IsFiniteSet(A5) /\ Cardinality(A5) = Cardinality(A4) + One(t[p].put = x)
  BY <1>11, <1>8, AddOne
<1>13. Cardinality(A0) \in Nat
  BY <1>1, FS_CardinalityType
<1> HIDE DEF A5
<1>14. Cardinality(A5) = Cardinality(A0) + Has(c, f, t, p, x)
  BY <1>4, <1>9, <1>10, <1>11, <1>12, <1>13 DEF Has, One
<1> QED
  BY <1>3, <1>13, <1>14 DEF A0

\* What the step of p leaves alone.
OthersKeep(p) ==
    \A q \in Procs : q # p => cwd'[q] = cwd[q] /\ file'[q] = file[q] /\ st'[q] = st[q]

\* The counts change with the references of p.
Balanced(p) ==
    \A x \in Slots : ref'[x] + Has(cwd, file, st, p, x) = ref[x] + Has(cwd', file', st', p, x)

\* The holders of an entry, before and after a step, as a function of the variables.
LEMMA HoldersNow ==
  ASSUME NEW x
  PROVE  /\ Holders(x) = HoldersIn(cwd, file, st, x)
         /\ Holders(x)' = HoldersIn(cwd', file', st', x)
BY DEF Holders, HoldersIn, Reg, RegIn, Variables

\* The other processes keep their references.
LEMMA RestKept ==
  ASSUME NEW p \in Procs, NEW x, OthersKeep(p)
  PROVE  Rest(cwd', file', st', p, x) = Rest(cwd, file, st, p, x)
<1>1. \A q \in Procs, v \in Variables :
         q # p => RegIn(cwd', file', st', q, v) = RegIn(cwd, file, st, q, v)
  BY DEF RegIn, OthersKeep, Variables
<1> QED
  BY <1>1 DEF Rest, HoldersIn

\* A step that is balanced keeps the counts exact.
LEMMA StepCounted ==
  ASSUME IsFiniteSet(Procs), NEW p \in Procs, OthersKeep(p), Balanced(p),
         ref \in [Slots -> Nat], ref' \in [Slots -> Nat], Counted
  PROVE  Counted'
<1>1. SUFFICES ASSUME NEW x \in Slots
               PROVE  ref'[x] = Cardinality(Holders(x))'
  BY DEF Counted
<1> DEFINE R == Rest(cwd, file, st, p, x)
<1>2. /\ Cardinality(R) \in Nat
      /\ Cardinality(Holders(x)) = Cardinality(R) + Has(cwd, file, st, p, x)
  BY HoldersIs, HoldersNow
<1>3. Cardinality(Holders(x))' = Cardinality(R) + Has(cwd', file', st', p, x)
  BY HoldersIs, HoldersNow, RestKept
<1>4. Has(cwd, file, st, p, x) \in Nat /\ Has(cwd', file', st', p, x) \in Nat
  BY DEF Has, One
<1>5. /\ ref'[x] + Has(cwd, file, st, p, x) = ref[x] + Has(cwd', file', st', p, x)
      /\ ref[x] = Cardinality(Holders(x))
  BY DEF Balanced, Counted
<1> QED
  BY <1>2, <1>3, <1>4, <1>5

\* A set of numbers that is not empty has a least element.
LEMMA LeastNumber ==
  ASSUME NEW T, T \subseteq Nat, T # {}
  PROVE  \E m \in T : \A n \in T : m <= n
<1> DEFINE R == OpToRel(<, Nat)
<1>1. IsWellFoundedOn(R, Nat)
  BY NatLessThanWellFounded
<1>2. \A x, y \in Nat : <<y, x>> \in R <=> y < x
  BY DEF OpToRel
<1> HIDE DEF R
<1>3. PICK m \in T : \A n \in T : ~(<<n, m>> \in R)
  BY <1>1, WFMin
<1>4. \A n \in T : m <= n
  <2>1. SUFFICES ASSUME NEW n \in T PROVE m <= n
    OBVIOUS
  <2>2. m \in Nat /\ n \in Nat /\ ~(n < m)
    BY <1>2, <1>3
  <2> QED
    BY <2>2
<1> QED
  BY <1>4

\* iget() finds its entry, or a free one.
LEMMA EntryIs ==
  ASSUME NEW i, Cached(i) # {} \/ \E x \in Slots : ref[x] = 0
  PROVE  /\ Entry(i) \in Slots
         /\ Cached(i) # {} => Entry(i) \in Cached(i)
         /\ Cached(i) = {} => ref[Entry(i)] = 0
<1>1. ASSUME NEW T, T \subseteq Slots, T # {} PROVE Min(T) \in T
  <2>1. T \subseteq Nat
    BY <1>1 DEF Slots
  <2>2. \E m \in T : \A n \in T : m <= n
    BY <1>1, <2>1, LeastNumber
  <2> QED
    BY <2>2 DEF Min
<1>2. CASE Cached(i) # {}
  <2>1. Cached(i) \subseteq Slots
    BY DEF Cached
  <2>2. Entry(i) \in Cached(i)
    BY <1>1, <1>2, <2>1 DEF Entry
  <2> QED
    BY <1>2, <2>1, <2>2
<1>3. CASE Cached(i) = {}
  <2> DEFINE F == {x \in Slots : ref[x] = 0}
  <2>1. F \subseteq Slots /\ F # {}
    BY <1>3
  <2>2. Entry(i) = Min(F)
    BY <1>3 DEF Entry
  <2>3. Entry(i) \in F
    BY <1>1, <2>1, <2>2
  <2> QED
    BY <1>3, <2>3
<1> QED
  BY <1>2, <1>3

\* One more reference to entry y of the cache.
Taken(y) ==
    /\ ref' \in [Slots -> Nat] /\ DOMAIN inum' = Slots /\ Unique'
    /\ \A x \in Slots : ref'[x] = ref[x] + One(x = y)

\* iget() takes a reference, to the one entry of the inode.
LEMMA IgetTakes ==
  ASSUME RefType, Unique, NEW i, iget(i)
  PROVE  Entry(i) \in Slots /\ Taken(Entry(i))
<1> DEFINE e == Entry(i)
<1>1. /\ Cached(i) # {} \/ \E x \in Slots : ref[x] = 0
      /\ inum' = [inum EXCEPT ![e] = i] /\ ref' = [ref EXCEPT ![e] = @ + 1]
  BY DEF iget
<1>2. /\ e \in Slots
      /\ Cached(i) # {} => e \in Cached(i)
      /\ Cached(i) = {} => ref[e] = 0
  BY <1>1, EntryIs
<1> HIDE DEF e
<1>3. ref \in [Slots -> Nat] /\ DOMAIN inum = Slots
  BY DEF RefType
<1>4. ref' \in [Slots -> Nat] /\ \A x \in Slots : ref'[x] = ref[x] + One(x = e)
  BY <1>1, <1>2, <1>3 DEF One
<1>5. DOMAIN inum' = Slots /\ \A x \in Slots : inum'[x] = IF x = e THEN i ELSE inum[x]
  BY <1>1, <1>3
<1>6. \A x \in Slots : ref[x] > 0 /\ inum[x] = i => x = e
  <2>1. SUFFICES ASSUME NEW x \in Slots, ref[x] > 0, inum[x] = i PROVE x = e
    OBVIOUS
  <2>2. x \in Cached(i)
    BY <2>1 DEF Cached
  <2>3. e \in Cached(i)
    BY <1>2, <2>2
  <2> QED
    BY <2>1, <2>3 DEF Cached, Unique
<1>7. \A x \in Slots : x # e => ref'[x] = ref[x]
  BY <1>3, <1>4 DEF One
<1>8. Unique'
  <2>1. SUFFICES ASSUME NEW x \in Slots, NEW y \in Slots,
                        ref'[x] > 0, ref'[y] > 0, inum'[x] = inum'[y]
                 PROVE  x = y
    BY DEF Unique
  <2> QED
    BY <1>5, <1>6, <1>7, <2>1 DEF Unique
<1> QED
  BY <1>2, <1>4, <1>5, <1>8 DEF Taken, e

\* So does idup().
LEMMA IdupTakes ==
  ASSUME RefType, Unique, Counted, IsFiniteSet(Procs), NEW p \in Procs, idup(cwd[p])
  PROVE  Taken(cwd[p])
<1> DEFINE y == cwd[p]
<1>1. ref' = [ref EXCEPT ![y] = ref[y] + 1] /\ inum' = inum
  BY DEF idup
<1>2. ref \in [Slots -> Nat] /\ DOMAIN inum = Slots
  BY DEF RefType
<1> HIDE DEF y
<1>3. ref' \in [Slots -> Nat] /\ \A x \in Slots : ref'[x] = ref[x] + One(x = y)
  <2>1. CASE y \in Slots
    BY <1>1, <1>2, <2>1 DEF One
  <2>2. CASE y \notin Slots
    <3>1. ref' = ref
      BY <1>1, <1>2, <2>2
    <3> QED
      BY <1>2, <2>2, <3>1 DEF One
  <2> QED
    BY <2>1, <2>2
<1>4. \A x \in Slots : ref'[x] > 0 => ref[x] > 0
  <2>1. SUFFICES ASSUME NEW x \in Slots, x = y PROVE ref[x] > 0
    BY <1>2, <1>3 DEF One
  <2>2. /\ Cardinality(Rest(cwd, file, st, p, x)) \in Nat
        /\ Cardinality(Holders(x)) =
              Cardinality(Rest(cwd, file, st, p, x)) + Has(cwd, file, st, p, x)
    BY HoldersIs, HoldersNow
  <2>3. Has(cwd, file, st, p, x) \in Nat /\ Has(cwd, file, st, p, x) > 0
    BY <2>1 DEF Has, One, y
  <2> QED
    BY <2>2, <2>3 DEF Counted
<1> QED
  BY <1>1, <1>2, <1>3, <1>4 DEF Taken, Unique, y

\* p goes on with t at l: its variables afterwards.
Goes(p, t, l, put, ret) ==
    /\ st' \in [Procs -> CallState] /\ \A q \in Procs : q # p => st'[q] = st[q]
    /\ st'[p].pc = l /\ st'[p].call = t.call /\ st'[p].path = t.path
    /\ st'[p].dp = t.dp /\ st'[p].ip = t.ip /\ st'[p].put = put /\ st'[p].ret = ret

\* Goto moves the call of p to l and keeps its registers.
LEMMA GotoMoves ==
  ASSUME st \in [Procs -> CallState], NEW p \in Procs, NEW t \in CallState, NEW l \in Labels,
         Goto(p, t, l)
  PROVE  Goes(p, t, l, t.put, t.ret)
BY DEF Goto, CallState, Goes

\* Put makes p call iput() on the entry y and return to l.
LEMMA PutMoves ==
  ASSUME st \in [Procs -> CallState], NEW p \in Procs, NEW t \in CallState, NEW y \in Regs,
         NEW l \in Returns, Put(p, t, y, l)
  PROVE  Goes(p, t, "iput", y, l)
<1> DEFINE u == [t EXCEPT !.put = y, !.ret = l]
<1>1. u \in CallState
  BY DEF CallState
<1>2. /\ u.call = t.call /\ u.path = t.path /\ u.dp = t.dp /\ u.ip = t.ip
      /\ u.put = y /\ u.ret = l
  BY DEF CallState
<1>3. Goto(p, u, "iput")
  BY DEF Put
<1> HIDE DEF u
<1>4. Goes(p, u, "iput", u.put, u.ret)
  <2>1. "iput" \in Labels
    BY DEF Labels, IputLabels
  <2> QED
    BY <1>1, <1>3, <2>1, GotoMoves
<1> QED
  BY <1>2, <1>4 DEF Goes

\* The references in the variables of a call.
InCall(t, x) == One(t.dp = x) + One(t.ip = x) + One(t.put = x)

\* What must be shown of a step.
LEMMA Conclude ==
  ASSUME RefInv, IsFiniteSet(Procs), NEW p \in Procs, RefType', Unique', OthersKeep(p),
         Balanced(p), Tidy(st'[p])
  PROVE  RefInv'
<1>1. Counted'
  BY StepCounted DEF RefInv, RefType
<1>2. \A q \in Procs : Tidy(st'[q])
  BY DEF RefInv, OthersKeep
<1> QED
  BY <1>1, <1>2 DEF RefInv

\* A step that moves references between the variables of its call.
LEMMA Shift ==
  ASSUME RefInv, IsFiniteSet(Procs), NEW p \in Procs, NEW t, NEW l, NEW put, NEW ret,
         Goes(p, t, l, put, ret), UNCHANGED <<ref, inum, cwd, file>>, Tidy(st'[p]),
         \A x \in Slots : InCall(st'[p], x) = InCall(st[p], x)
  PROVE  RefInv'
<1>1. RefType' /\ OthersKeep(p)
  BY DEF RefInv, RefType, Goes, OthersKeep
<1>2. Unique'
  BY DEF RefInv, Unique
<1>3. Balanced(p)
  <2>1. SUFFICES ASSUME NEW x \in Slots
                 PROVE  ref'[x] + Has(cwd, file, st, p, x) = ref[x] + Has(cwd', file', st', p, x)
    BY DEF Balanced
  <2>2. InCall(st'[p], x) = InCall(st[p], x) /\ ref[x] \in Nat
    BY DEF RefInv, RefType
  <2>3. /\ InCall(st'[p], x) \in Nat /\ InCall(st[p], x) \in Nat
        /\ Has(cwd, file, st, p, x) = One(cwd[p] = x) + One(file[p] = x) + InCall(st[p], x)
        /\ Has(cwd', file', st', p, x) = One(cwd[p] = x) + One(file[p] = x) + InCall(st'[p], x)
    BY DEF Has, InCall, One
  <2> QED
    BY <2>2, <2>3
<1> QED
  BY <1>1, <1>2, <1>3, Conclude

\* A step that takes a reference to entry y.
LEMMA Take ==
  ASSUME RefInv, IsFiniteSet(Procs), NEW p \in Procs, NEW t, NEW l, NEW put, NEW ret,
         Goes(p, t, l, put, ret), NEW y, Taken(y), UNCHANGED <<cwd, file>>, Tidy(st'[p]),
         \A x \in Slots : InCall(st'[p], x) = InCall(st[p], x) + One(x = y)
  PROVE  RefInv'
<1>1. RefType' /\ OthersKeep(p) /\ Unique'
  BY DEF RefInv, RefType, Goes, OthersKeep, Taken
<1>2. Balanced(p)
  <2>1. SUFFICES ASSUME NEW x \in Slots
                 PROVE  ref'[x] + Has(cwd, file, st, p, x) = ref[x] + Has(cwd', file', st', p, x)
    BY DEF Balanced
  <2>2. /\ InCall(st'[p], x) = InCall(st[p], x) + One(x = y) /\ ref[x] \in Nat
        /\ ref'[x] = ref[x] + One(x = y)
    BY DEF RefInv, RefType, Taken
  <2>3. /\ InCall(st'[p], x) \in Nat /\ InCall(st[p], x) \in Nat
        /\ Has(cwd, file, st, p, x) = One(cwd[p] = x) + One(file[p] = x) + InCall(st[p], x)
        /\ Has(cwd', file', st', p, x) = One(cwd[p] = x) + One(file[p] = x) + InCall(st'[p], x)
    BY DEF Has, InCall, One
  <2>4. One(cwd[p] = x) \in Nat /\ One(file[p] = x) \in Nat /\ One(x = y) \in Nat
    BY DEF One
  <2> QED
    BY <2>2, <2>3, <2>4
<1> QED
  BY <1>1, <1>2, Conclude

-----------------------------------------------------------------------------
(* The steps                                                               *)

\* The states of calls, and the constants.
LEMMA Typing ==
  ASSUME RefInv, NEW p \in Procs
  PROVE  /\ st \in [Procs -> CallState] /\ st[p] \in CallState /\ Tidy(st[p])
         /\ cwd[p] \in Regs /\ file[p] \in Regs
BY DEF RefInv, RefType

\* An entry of the cache can be the value of a register.
LEMMA EntryReg ==
  ASSUME NEW y \in Slots, NINODE \in Nat
  PROVE  y \in Regs /\ y # 0 /\ 0 \in Regs
BY DEF Slots, Regs

\* A call that assigns to dp or to ip stays a call, and keeps the rest.
LEMMA SetReg ==
  ASSUME NEW t \in CallState, NEW y \in Regs
  PROVE  LET d == [t EXCEPT !.dp = y]
             i == [t EXCEPT !.ip = y]
         IN /\ d \in CallState /\ d.pc = t.pc /\ d.call = t.call /\ d.path = t.path
            /\ d.dp = y /\ d.ip = t.ip /\ d.put = t.put /\ d.ret = t.ret
            /\ i \in CallState /\ i.pc = t.pc /\ i.call = t.call /\ i.path = t.path
            /\ i.dp = t.dp /\ i.ip = y /\ i.put = t.put /\ i.ret = t.ret
BY DEF CallState

\* ilock()
LEMMA LockStep ==
  ASSUME RefInv, IsFiniteSet(Procs), NEW p \in Procs, LockInode(p) \/ NamexLock(p)
  PROVE  RefInv'
<1>1. PICK y, l : /\ Lock(p, y, l)
                  /\ \/ st[p].pc \in DOMAIN LockAt /\ l = LockAt[st[p].pc]
                     \/ st[p].pc = "namex" /\ st[p].path # <<>> /\ l = "walk"
  BY DEF LockInode, NamexLock, At
<1>2. PICK m \in {"panic", l} : Goto(p, st[p], m)
  BY <1>1 DEF Lock
<1>3. UNCHANGED <<ref, inum, cwd, file>>
  BY <1>1 DEF Lock, ilock, held
<1>4. st \in [Procs -> CallState] /\ st[p] \in CallState /\ Tidy(st[p])
  BY Typing
<1>5. m \in Labels /\ Tidy([st[p] EXCEPT !.pc = m])
  <2> DEFINE t == st[p]
             u == [t EXCEPT !.pc = m]
  <2>1. u.pc = m /\ u.call = t.call /\ u.path = t.path /\ u.dp = t.dp /\ u.ip = t.ip
        /\ u.put = t.put /\ u.ret = t.ret
    BY <1>4 DEF CallState
  <2> HIDE DEF u
  <2>2. CASE m = "panic"
    BY <1>1, <1>4, <2>1, <2>2 DEF Tidy, Where, IputLabels, NoDp, NoIp, Labels, LockAt
  <2>3. CASE m = l
    BY <1>1, <1>4, <2>1, <2>3 DEF Tidy, Where, IputLabels, NoDp, NoIp, Labels, LockAt
  <2> QED
    BY <1>2, <2>2, <2>3 DEF u
<1>6. Goes(p, st[p], m, st[p].put, st[p].ret)
  BY <1>2, <1>4, <1>5, GotoMoves
<1>7. Tidy(st'[p])
  BY <1>2, <1>4, <1>5 DEF Goto
<1>8. \A x \in Slots : InCall(st'[p], x) = InCall(st[p], x)
  BY <1>6 DEF Goes, InCall
<1> QED
  BY <1>3, <1>6, <1>7, <1>8, Shift

\* iput() of the inode in a variable, which is cleared.
LEMMA PutStep ==
  ASSUME RefInv, IsFiniteSet(Procs), NEW p \in Procs, st[p].pc \notin IputLabels,
         NEW t \in CallState, NEW y \in Regs, NEW l \in Returns \ {"namex"}, Put(p, t, y, l),
         UNCHANGED <<ref, inum, cwd, file>>,
         l \in NoDp => t.dp = 0, l \in NoIp => t.ip = 0,
         \A x \in Slots : One(t.dp = x) + One(t.ip = x) + One(y = x)
                            = One(st[p].dp = x) + One(st[p].ip = x),
         NINODE \in Nat
  PROVE  RefInv'
<1>1. st \in [Procs -> CallState] /\ st[p] \in CallState /\ Tidy(st[p])
  BY Typing
<1>2. Goes(p, t, "iput", y, l)
  BY <1>1, PutMoves
<1>3. st[p].put = 0
  BY <1>1 DEF Tidy
<1>4. Tidy(st'[p])
  BY <1>2 DEF Goes, Tidy, Where, IputLabels, Returns
<1>5. \A x \in Slots : InCall(st'[p], x) = InCall(st[p], x)
  <2>1. SUFFICES ASSUME NEW x \in Slots PROVE InCall(st'[p], x) = InCall(st[p], x)
    OBVIOUS
  <2>2. One(st[p].put = x) = 0
    BY <1>3, EntryReg DEF One
  <2>3. InCall(st'[p], x) = One(t.dp = x) + One(t.ip = x) + One(y = x)
    BY <1>2 DEF Goes, InCall
  <2>4. One(st[p].dp = x) \in Nat /\ One(st[p].ip = x) \in Nat
    BY DEF One
  <2> QED
    BY <2>2, <2>3, <2>4 DEF InCall
<1> QED
  BY <1>2, <1>4, <1>5, Shift

\* iput() of ip.
LEMMA PutIp ==
  ASSUME RefInv, IsFiniteSet(Procs), NINODE \in Nat, NEW p \in Procs,
         st[p].pc \notin IputLabels, NEW l \in {"idle", "unlinkbad"},
         Put(p, [st[p] EXCEPT !.ip = 0], st[p].ip, l), UNCHANGED <<ref, inum, cwd, file>>,
         l = "idle" => st[p].dp = 0
  PROVE  RefInv'
<1> DEFINE t == [st[p] EXCEPT !.ip = 0]
           y == st[p].ip
<1>1. st[p] \in CallState /\ y \in Regs /\ 0 \in Regs
  BY Typing DEF CallState, Regs
<1>2. t \in CallState /\ t.dp = st[p].dp /\ t.ip = 0
  BY <1>1, SetReg
<1>3. Put(p, t, y, l)
  OBVIOUS
<1> HIDE DEF t
<1>4. \A x \in Slots : One(t.dp = x) + One(t.ip = x) + One(y = x)
                         = One(st[p].dp = x) + One(st[p].ip = x)
  BY <1>2, EntryReg DEF One
<1> HIDE DEF y
<1>5. l \in Returns \ {"namex"} /\ (l \in NoDp => t.dp = 0) /\ (l \in NoIp => t.ip = 0)
  BY <1>2 DEF Returns, NoDp
<1> QED
  BY <1>1, <1>2, <1>3, <1>4, <1>5, PutStep

\* iput() of dp, with or without a change of the name.
LEMMA PutDp ==
  ASSUME RefInv, IsFiniteSet(Procs), NINODE \in Nat, NEW p \in Procs,
         st[p].pc \notin IputLabels, NEW l \in {"idle", "linked", "unlinked", "linkend", "linkbad"},
         \/ Put(p, [st[p] EXCEPT !.dp = 0], st[p].dp, l)
         \/ Put(p, [st[p] EXCEPT !.dp = 0, !.name = "."], st[p].dp, l),
         UNCHANGED <<ref, inum, cwd, file>>,
         l = "idle" => st[p].ip = 0
  PROVE  RefInv'
<1> DEFINE y == st[p].dp
<1>1. st[p] \in CallState /\ y \in Regs /\ 0 \in Regs /\ "." \in Entries
  BY Typing DEF CallState, Regs, Entries
<1>2. PICK t \in CallState : Put(p, t, y, l) /\ t.dp = 0 /\ t.ip = st[p].ip
  <2>1. CASE Put(p, [st[p] EXCEPT !.dp = 0], st[p].dp, l)
    BY <1>1, <2>1, SetReg
  <2>2. CASE Put(p, [st[p] EXCEPT !.dp = 0, !.name = "."], st[p].dp, l)
    <3> DEFINE u == [st[p] EXCEPT !.dp = 0, !.name = "."]
    <3>1. u \in CallState /\ u.dp = 0 /\ u.ip = st[p].ip
      BY <1>1 DEF CallState
    <3> HIDE DEF u
    <3> QED
      BY <2>2, <3>1 DEF u
  <2> QED
    BY <2>1, <2>2
<1>3. \A x \in Slots : One(t.dp = x) + One(t.ip = x) + One(y = x)
                         = One(st[p].dp = x) + One(st[p].ip = x)
  BY <1>2, EntryReg DEF One
<1> HIDE DEF y
<1>4. l \in Returns \ {"namex"} /\ (l \in NoDp => t.dp = 0) /\ (l \in NoIp => t.ip = 0)
  BY <1>2 DEF Returns, NoIp
<1> QED
  BY <1>1, <1>2, <1>3, <1>4, PutStep

\* The call goes on at l with its variables as they are.
LEMMA GoStep ==
  ASSUME RefInv, IsFiniteSet(Procs), NEW p \in Procs, NEW l \in Labels, Goto(p, st[p], l),
         UNCHANGED <<ref, inum, cwd, file>>, Tidy(st'[p])
  PROVE  RefInv'
<1>1. st \in [Procs -> CallState] /\ st[p] \in CallState
  BY Typing
<1>2. Goes(p, st[p], l, st[p].put, st[p].ret)
  BY <1>1, GotoMoves
<1>3. \A x \in Slots : InCall(st'[p], x) = InCall(st[p], x)
  BY <1>2 DEF Goes, InCall
<1> QED
  BY <1>2, <1>3, Shift

\* Only pc has changed.
LEMMA PcIs ==
  ASSUME RefInv, NEW p \in Procs, NEW l, Goto(p, st[p], l)
  PROVE  /\ st'[p].pc = l /\ st'[p].call = st[p].call /\ st'[p].path = st[p].path
         /\ st'[p].dp = st[p].dp /\ st'[p].ip = st[p].ip /\ st'[p].put = st[p].put
         /\ st'[p].ret = st[p].ret
BY Typing DEF Goto, CallState

\* iput() up to the release of the reference.
LEMMA IputStep ==
  ASSUME RefInv, IsFiniteSet(Procs), NEW p \in Procs,
         IputLock(p) \/ IputFree(p) \/ IputUnlock(p)
  PROVE  RefInv'
<1>1. /\ st[p].pc \in IputLabels /\ UNCHANGED <<ref, inum, cwd, file>>
      /\ \E l \in IputLabels : Goto(p, st[p], l)
  BY DEF IputLock, IputFree, IputUnlock, IputLabels, At, icache, held
<1>2. PICK l \in IputLabels : Goto(p, st[p], l)
  BY <1>1
<1>3. Tidy(st[p])
  BY Typing
<1>4. Tidy(st'[p])
  BY <1>1, <1>2, <1>3, PcIs DEF Tidy, Where, IputLabels
<1>5. l \in Labels
  BY DEF Labels
<1> QED
  BY <1>1, <1>2, <1>4, <1>5, GoStep

\* Idle has no references.
LEMMA IdleIs ==
  ASSUME NINODE \in Nat
  PROVE  /\ Idle \in CallState /\ Tidy(Idle)
         /\ Idle.dp = 0 /\ Idle.ip = 0 /\ Idle.put = 0
<1>1. Idle \in CallState
  BY DEF Idle, CallState, Labels, Callings, Returns, Regs, Entries
<1>2. /\ Idle.dp = 0 /\ Idle.ip = 0 /\ Idle.put = 0 /\ Idle.pc = "idle"
      /\ Idle.ret = "idle"
  BY DEF Idle
<1>3. Tidy(Idle)
  BY <1>2 DEF Tidy, Where, IputLabels
<1> QED
  BY <1>1, <1>2, <1>3

\* iput() gives its reference back.
LEMMA IputDecStep ==
  ASSUME RefInv, IsFiniteSet(Procs), NINODE \in Nat, NEW p \in Procs, IputDec(p)
  PROVE  RefInv'
<1> DEFINE y == st[p].put
           t == st[p]
<1>1. /\ st[p].pc = "idec" /\ UNCHANGED <<cwd, file>>
      /\ ref' = [ref EXCEPT ![y] = ref[y] - 1]
      /\ inum' = [inum EXCEPT ![y] = IF ref[y] = 1 THEN 0 ELSE inum[y]]
      /\ IF st[p].ret = "idle"
         THEN st' = [st EXCEPT ![p] = Idle]
         ELSE Goto(p, [st[p] EXCEPT !.put = 0, !.ret = "idle"], st[p].ret)
  BY DEF IputDec, At, held
<1>2. /\ st \in [Procs -> CallState] /\ t \in CallState /\ Tidy(t)
      /\ ref \in [Slots -> Nat] /\ DOMAIN inum = Slots /\ Unique /\ Counted
  BY Typing DEF RefInv, RefType
<1>3. y \in Slots => ref[y] \in Nat /\ ref[y] > 0
  <2>1. SUFFICES ASSUME y \in Slots PROVE ref[y] > 0
    BY <1>2
  <2>2. /\ Cardinality(Rest(cwd, file, st, p, y)) \in Nat
        /\ Cardinality(Holders(y)) =
              Cardinality(Rest(cwd, file, st, p, y)) + Has(cwd, file, st, p, y)
    BY HoldersIs, HoldersNow
  <2>3. Has(cwd, file, st, p, y) \in Nat /\ Has(cwd, file, st, p, y) > 0
    BY DEF Has, One
  <2> QED
    BY <1>2, <2>1, <2>2, <2>3 DEF Counted
<1>4. /\ st' \in [Procs -> CallState] /\ Tidy(st'[p]) /\ \A q \in Procs : q # p => st'[q] = st[q]
      /\ st'[p].dp = t.dp /\ st'[p].ip = t.ip /\ st'[p].put = 0
  <2>1. CASE t.ret = "idle"
    <3>2. st' \in [Procs -> CallState] /\ st'[p] = Idle /\ \A q \in Procs : q # p => st'[q] = st[q]
      BY <1>1, <1>2, <2>1, IdleIs
    <3>3. t.dp = 0 /\ t.ip = 0
      BY <1>1, <1>2, <2>1 DEF Tidy, Where, IputLabels, NoDp, NoIp
    <3> QED
      BY <3>2, <3>3, IdleIs
  <2>2. CASE t.ret # "idle"
    <3> DEFINE u == [t EXCEPT !.put = 0, !.ret = "idle"]
               l == t.ret
    <3>1. /\ u \in CallState /\ u.call = t.call /\ u.path = t.path /\ u.dp = t.dp
          /\ u.ip = t.ip /\ u.put = 0 /\ u.ret = "idle" /\ l \in Returns
      <4>1. 0 \in Regs /\ "idle" \in Returns
        BY DEF Regs, Returns
      <4> QED
        BY <1>2, <4>1 DEF CallState
    <3>2. Goto(p, u, l)
      BY <1>1, <2>2
    <3>3. l \in Labels
      BY <3>1 DEF Labels
    <3> HIDE DEF u
    <3>4. Goes(p, u, l, u.put, u.ret)
      BY <1>2, <3>1, <3>2, <3>3, GotoMoves
    <3>5. Tidy(st'[p])
      BY <1>1, <1>2, <3>1, <3>4 DEF Goes, Tidy, Where, IputLabels, Returns
    <3> QED
      BY <3>1, <3>4, <3>5 DEF Goes
  <2> QED
    BY <2>1, <2>2
<1> HIDE DEF y
<1>5. /\ ref' \in [Slots -> Nat]
      /\ \A x \in Slots : ref[x] \in Nat /\ ref'[x] = IF x = y THEN ref[x] - 1 ELSE ref[x]
  <2>1. CASE y \in Slots
    BY <1>1, <1>2, <1>3, <2>1
  <2>2. CASE y \notin Slots
    <3>1. ref' = ref
      BY <1>1, <1>2, <2>2
    <3> QED
      BY <1>2, <2>2, <3>1
  <2> QED
    BY <2>1, <2>2
<1>6. DOMAIN inum' = Slots /\ \A x \in Slots : ref'[x] > 0 => inum'[x] = inum[x] /\ ref[x] > 0
  BY <1>1, <1>2, <1>5
<1>7. Unique'
  BY <1>2, <1>6 DEF Unique
<1>8. RefType' /\ OthersKeep(p)
  BY <1>1, <1>4, <1>5, <1>6 DEF RefInv, RefType, OthersKeep
<1>9. Balanced(p)
  <2>1. SUFFICES ASSUME NEW x \in Slots
                 PROVE  ref'[x] + Has(cwd, file, st, p, x) = ref[x] + Has(cwd', file', st', p, x)
    BY DEF Balanced
  <2> DEFINE o == One(cwd[p] = x) + One(file[p] = x) + One(t.dp = x) + One(t.ip = x)
  <2>2. Has(cwd, file, st, p, x) = o + One(y = x) /\ o \in Nat
    BY DEF Has, One, y
  <2>3. Has(cwd', file', st', p, x) = o
    BY <1>1, <1>4, EntryReg DEF Has, One
  <2> HIDE DEF o
  <2> QED
    BY <1>5, <2>2, <2>3 DEF One
<1> QED
  BY <1>4, <1>7, <1>8, <1>9, Conclude

\* namex() at the end of the path.
LEMMA NamexEndStep ==
  ASSUME RefInv, IsFiniteSet(Procs), NINODE \in Nat, NEW p \in Procs, NamexEnd(p)
  PROVE  RefInv'
<1>1. /\ st[p].pc = "namex" /\ UNCHANGED <<ref, inum, cwd, file>>
      /\ IF Parent(p) THEN Put(p, Walk(p, 0), Walker(p), Failed(p))
                        ELSE Goto(p, st[p], st[p].call)
  BY DEF NamexEnd, At, icache, held
<1>2. st[p] \in CallState /\ Tidy(st[p])
  BY Typing
<1>3. CASE Parent(p)
  <2>1. CASE st[p].call = "link2"
    <3>1. Put(p, [st[p] EXCEPT !.dp = 0], st[p].dp, "linkbad")
      BY <1>1, <1>3, <2>1 DEF Walk, Walker, Failed
    <3> QED
      BY <1>1, <3>1, PutDp DEF IputLabels
  <2>2. CASE st[p].call # "link2"
    <3>1. Put(p, [st[p] EXCEPT !.ip = 0], st[p].ip, "idle")
      BY <1>1, <1>3, <2>2 DEF Walk, Walker, Failed
    <3>2. st[p].dp = 0
      BY <1>1, <1>2, <2>2 DEF Tidy, Where, IputLabels
    <3> QED
      BY <1>1, <3>1, <3>2, PutIp DEF IputLabels
  <2> QED
    BY <2>1, <2>2
<1>4. CASE ~Parent(p)
  <2> DEFINE l == st[p].call
  <2>1. Goto(p, st[p], l) /\ l \in {"", "open", "link", "chdir"}
    BY <1>1, <1>2, <1>4 DEF Parent, CallState, Callings
  <2>2. Tidy(st'[p])
    <3> HIDE DEF l
    <3>1. st[p].call = l
      BY DEF l
    <3> QED
      BY <1>1, <1>2, <2>1, <3>1, PcIs DEF Tidy, Where, IputLabels, NoIp
  <2>3. l \in Labels
    BY <2>1 DEF Labels, Callings
  <2> HIDE DEF l
  <2> QED
    BY <1>1, <2>1, <2>2, <2>3, GoStep
<1> QED
  BY <1>3, <1>4

\* namex() in a directory: it fails, it is at the parent, or it goes on.
LEMMA NamexStepStep ==
  ASSUME RefInv, IsFiniteSet(Procs), NINODE \in Nat, NEW p \in Procs, NamexStep(p)
  PROVE  RefInv'
<1> DEFINE t == st[p]
           y == Walker(p)
           n == Head(t.path)
           r == Tail(t.path)
           i == Lookup(y, n)
           u == [t EXCEPT !.path = <<>>, !.name = n]
           v == [Walk(p, Entry(i)) EXCEPT !.path = r]
<1>1. /\ t.pc = "walk" /\ UNCHANGED <<cwd, file>>
      /\ \/ Put(p, Walk(p, 0), y, Failed(p)) /\ UNCHANGED <<ref, inum>>
         \/ /\ Parent(p) /\ UNCHANGED <<ref, inum>>
            /\ Goto(p, IF t.call = "link2" THEN u ELSE [u EXCEPT !.dp = y, !.ip = 0], t.call)
         \/ iget(i) /\ Put(p, v, y, "namex")
  BY DEF NamexStep, At, icache, held, Iunlockput
<1>2. st \in [Procs -> CallState] /\ t \in CallState /\ Tidy(t)
  BY Typing
<1>3. t.path # <<>> /\ t.put = 0 /\ t.ret = "idle" /\ (t.call # "link2" => t.dp = 0)
  BY <1>1, <1>2 DEF Tidy, Where, IputLabels
<1>4. n \in Entries /\ r \in Seq(Entries) /\ y \in Regs /\ 0 \in Regs
  BY <1>2, <1>3 DEF CallState, Walker, Regs
<1>5. CASE Put(p, Walk(p, 0), y, Failed(p)) /\ UNCHANGED <<ref, inum>>
  <2>1. CASE t.call = "link2"
    <3>1. Put(p, [t EXCEPT !.dp = 0], t.dp, "linkbad")
      BY <1>5, <2>1 DEF Walk, Walker, Failed
    <3> QED
      BY <1>1, <1>5, <3>1, PutDp DEF IputLabels
  <2>2. CASE t.call # "link2"
    <3>1. Put(p, [t EXCEPT !.ip = 0], t.ip, "idle")
      BY <1>5, <2>2 DEF Walk, Walker, Failed
    <3> QED
      BY <1>1, <1>3, <1>5, <2>2, <3>1, PutIp DEF IputLabels
  <2> QED
    BY <2>1, <2>2
<1>6. CASE /\ Parent(p) /\ UNCHANGED <<ref, inum>>
           /\ Goto(p, IF t.call = "link2" THEN u ELSE [u EXCEPT !.dp = y, !.ip = 0], t.call)
  <2> DEFINE l == t.call
  <2>1. /\ u \in CallState /\ u.call = l /\ u.dp = t.dp /\ u.ip = t.ip /\ u.put = 0
        /\ u.ret = "idle"
    <3>1. <<>> \in Seq(Entries)
      OBVIOUS
    <3> HIDE DEF n
    <3> QED
      BY <1>2, <1>3, <1>4, <3>1 DEF CallState
  <2>2. l \in {"create", "mkdir", "mknod", "unlink", "link2"}
    BY <1>6 DEF Parent
  <2>3. l \in Labels
    BY <2>2 DEF Labels, Callings
  <2>4. PICK w \in CallState : /\ Goto(p, w, l) /\ w.put = 0 /\ w.ret = "idle"
                               /\ l = "link2" => w.dp = t.dp /\ w.ip = t.ip
                               /\ l # "link2" => w.dp = t.ip /\ w.ip = 0
    <3> HIDE DEF u
    <3>1. CASE l = "link2"
      BY <1>6, <2>1, <3>1
    <3>2. CASE l # "link2"
      <4> DEFINE w == [u EXCEPT !.dp = y, !.ip = 0]
      <4>1. w \in CallState /\ w.put = 0 /\ w.ret = "idle" /\ w.dp = y /\ w.ip = 0
        BY <1>4, <2>1 DEF CallState
      <4>2. Goto(p, w, l)
        BY <1>6, <3>2
      <4>3. y = t.ip
        BY <3>2 DEF Walker
      <4> HIDE DEF w, y
      <4> QED
        BY <3>2, <4>1, <4>2, <4>3
    <3> QED
      BY <3>1, <3>2
  <2> HIDE DEF l
  <2>5. Goes(p, w, l, w.put, w.ret)
    BY <1>2, <2>3, <2>4, GotoMoves
  <2>6. Tidy(st'[p])
    BY <2>2, <2>4, <2>5 DEF Goes, Tidy, Where, IputLabels, NoDp, NoIp
  <2>7. \A x \in Slots : InCall(st'[p], x) = InCall(t, x)
    <3>1. l # "link2" => t.dp = 0
      BY <1>3 DEF l
    <3> QED
      BY <1>3, <2>4, <2>5, <3>1, EntryReg DEF Goes, InCall, One
  <2> QED
    BY <1>1, <1>6, <2>5, <2>6, <2>7, Shift
<1>7. CASE iget(i) /\ Put(p, v, y, "namex")
  <2> DEFINE e == Entry(i)
  <2>1. e \in Slots /\ Taken(e)
    BY <1>7, IgetTakes DEF RefInv
  <2> HIDE DEF e, i, y
  <2>2. e \in Regs
    BY <2>1, EntryReg
  <2>3. /\ v \in CallState /\ v.call = t.call
        /\ t.call = "link2" => v.dp = e /\ v.ip = t.ip
        /\ t.call # "link2" => v.dp = t.dp /\ v.ip = e
    <3>1. CASE t.call = "link2"
      <4>1. v = [[t EXCEPT !.dp = e] EXCEPT !.path = r]
        BY <3>1 DEF Walk, e
      <4> QED
        BY <1>2, <1>4, <2>2, <3>1, <4>1 DEF CallState
    <3>2. CASE t.call # "link2"
      <4>1. v = [[t EXCEPT !.ip = e] EXCEPT !.path = r]
        BY <3>2 DEF Walk, e
      <4> QED
        BY <1>2, <1>4, <2>2, <3>2, <4>1 DEF CallState
    <3> QED
      BY <3>1, <3>2
  <2>4. Put(p, v, y, "namex") /\ "namex" \in Returns
    BY <1>7 DEF Returns
  <2>5. y = IF t.call = "link2" THEN t.dp ELSE t.ip
    BY DEF Walker, y
  <2> HIDE DEF v
  <2>6. Goes(p, v, "iput", y, "namex")
    BY <1>2, <1>4, <2>3, <2>4, PutMoves
  <2>7. Tidy(st'[p])
    BY <1>3, <2>3, <2>6 DEF Goes, Tidy, Where, IputLabels, NoDp, NoIp
  <2>8. \A x \in Slots : InCall(st'[p], x) = InCall(t, x) + One(x = e)
    BY <1>3, <2>3, <2>5, <2>6, EntryReg DEF Goes, InCall, One
  <2> QED
    BY <1>1, <2>1, <2>6, <2>7, <2>8, Take
<1> QED
  BY <1>1, <1>5, <1>6, <1>7

\* A call begins.
LEMMA StartStep ==
  ASSUME RefInv, NEW p \in Procs, NEW c \in Calls[p], Start(p, c)
  PROVE  RefInv'
<1> DEFINE t == st[p]
           y == IF c.abs THEN Entry(ROOTINO) ELSE cwd[p]
           u == [t EXCEPT !.call = c.call, !.path = c.path, !.new = c.new, !.ip = y]
<1>1. /\ t.pc = "idle" /\ UNCHANGED <<cwd, file>> /\ Goto(p, u, "namex")
      /\ IF c.abs THEN iget(ROOTINO) ELSE idup(y)
  BY DEF Start, At, held
<1>2. /\ NINODE \in Nat /\ IsFiniteSet(Procs)
      /\ c.call \in Callings /\ c.path \in Seq(Entries) /\ c.new \in Seq(Entries)
      /\ c.call # "link2"
  <2>1. NINODE \in Nat /\ IsFiniteSet(Procs) /\ Calls \in [Procs -> SUBSET CallType]
    BY Constants
  <2>2. c \in CallType
    BY <2>1
  <2>3. /\ c.call \in {"open", "create", "mkdir", "mknod", "unlink", "link", "chdir"}
        /\ c.path \in Seq(Entries) /\ c.new \in Seq(Entries)
    BY <2>2 DEF CallType
  <2>4. c.call \in Callings /\ c.call # "link2"
    BY <2>3 DEF Callings
  <2> QED
    BY <2>1, <2>3, <2>4
<1>3. st \in [Procs -> CallState] /\ t \in CallState /\ Tidy(t) /\ cwd[p] \in Regs
  BY Typing
<1>4. t.dp = 0 /\ t.ip = 0 /\ t.put = 0 /\ t.ret = "idle"
  BY <1>1, <1>3 DEF Tidy, Where, IputLabels, NoDp, NoIp
<1>5. Taken(y) /\ y \in Regs
  <2>1. CASE c.abs
    BY <1>1, <1>2, <2>1, IgetTakes, EntryReg DEF RefInv
  <2>2. CASE ~c.abs
    BY <1>1, <1>2, <1>3, <2>2, IdupTakes DEF RefInv
  <2> QED
    BY <2>1, <2>2
<1> HIDE DEF y
<1>6. /\ u \in CallState /\ u.call # "link2" /\ u.dp = 0 /\ u.ip = y /\ u.put = 0
      /\ u.ret = "idle"
  <2>1. u \in CallState
    BY <1>2, <1>3, <1>5 DEF CallState
  <2> QED
    BY <1>2, <1>3, <1>4, <2>1 DEF CallState
<1>7. "namex" \in Labels
  BY DEF Labels, Returns
<1> HIDE DEF u
<1>8. Goes(p, u, "namex", u.put, u.ret)
  BY <1>1, <1>3, <1>6, <1>7, GotoMoves
<1>9. Tidy(st'[p])
  BY <1>6, <1>8 DEF Goes, Tidy, Where, IputLabels, NoDp, NoIp
<1>10. \A x \in Slots : InCall(st'[p], x) = InCall(t, x) + One(x = y)
  BY <1>2, <1>4, <1>6, <1>8, EntryReg DEF Goes, InCall, One
<1> QED
  BY <1>1, <1>2, <1>5, <1>8, <1>9, <1>10, Take

\* The file takes the reference of sys_open(), or it is given back.
LEMMA OpenFileStep ==
  ASSUME RefInv, IsFiniteSet(Procs), NINODE \in Nat, NEW p \in Procs, OpenEnd(p)
  PROVE  RefInv'
<1> DEFINE t == st[p]
<1>1. /\ t.pc = "openfile" /\ UNCHANGED <<ref, inum, cwd>>
      /\ \/ /\ file[p] = 0 /\ file' = [file EXCEPT ![p] = t.ip]
            /\ st' = [st EXCEPT ![p] = Idle]
         \/ Put(p, [t EXCEPT !.ip = 0], t.ip, "idle") /\ UNCHANGED file
  BY DEF OpenEnd, At, icache, Iunlockput
<1>2. /\ st \in [Procs -> CallState] /\ t \in CallState /\ Tidy(t) /\ t.ip \in Regs
      /\ file \in [Procs -> Regs]
  BY Typing DEF RefInv, RefType, CallState
<1>3. t.dp = 0 /\ t.put = 0
  BY <1>1, <1>2 DEF Tidy, Where, IputLabels, NoDp
<1>4. CASE Put(p, [t EXCEPT !.ip = 0], t.ip, "idle") /\ UNCHANGED file
  BY <1>1, <1>3, <1>4, PutIp DEF IputLabels
<1>5. CASE /\ file[p] = 0 /\ file' = [file EXCEPT ![p] = t.ip]
           /\ st' = [st EXCEPT ![p] = Idle]
  <2>1. /\ st' \in [Procs -> CallState] /\ file' \in [Procs -> Regs]
        /\ st'[p] = Idle /\ file'[p] = t.ip
        /\ \A q \in Procs : q # p => st'[q] = st[q] /\ file'[q] = file[q]
    BY <1>2, <1>5, IdleIs
  <2>2. RefType' /\ OthersKeep(p) /\ Unique'
    BY <1>1, <2>1 DEF RefInv, RefType, OthersKeep, Unique
  <2>3. Balanced(p)
    <3>1. SUFFICES ASSUME NEW x \in Slots
                   PROVE  Has(cwd, file, st, p, x) = Has(cwd', file', st', p, x)
      BY <1>1 DEF Balanced, Has, One
    <3>2. x # 0
      BY EntryReg
    <3> QED
      BY <1>1, <1>3, <1>5, <2>1, <3>2, IdleIs DEF Has, One
  <2> QED
    BY <2>1, <2>2, <2>3, IdleIs, Conclude
<1> QED
  BY <1>1, <1>4, <1>5

\* sys_close(): the reference of the file goes to iput().
LEMMA CloseStep ==
  ASSUME RefInv, IsFiniteSet(Procs), NINODE \in Nat, NEW p \in Procs, CloseFile(p)
  PROVE  RefInv'
<1> DEFINE t == st[p]
           y == file[p]
<1>1. /\ t.pc = "idle" /\ UNCHANGED <<ref, inum, cwd>>
      /\ Put(p, t, y, "idle") /\ file' = [file EXCEPT ![p] = 0]
  BY DEF CloseFile, At, icache
<1>2. /\ st \in [Procs -> CallState] /\ t \in CallState /\ Tidy(t) /\ y \in Regs /\ 0 \in Regs
      /\ file \in [Procs -> Regs]
  BY Typing DEF RefInv, RefType, Regs
<1>3. t.dp = 0 /\ t.ip = 0 /\ t.put = 0
  BY <1>1, <1>2 DEF Tidy, Where, IputLabels, NoDp, NoIp
<1> HIDE DEF y
<1>4. Goes(p, t, "iput", y, "idle")
  <2>1. "idle" \in Returns
    BY DEF Returns
  <2> QED
    BY <1>1, <1>2, <2>1, PutMoves
<1>5. Tidy(st'[p])
  BY <1>3, <1>4 DEF Goes, Tidy, Where, IputLabels
<1>6. /\ file' \in [Procs -> Regs] /\ file'[p] = 0
      /\ \A q \in Procs : q # p => file'[q] = file[q]
  BY <1>1, <1>2
<1>7. RefType' /\ OthersKeep(p) /\ Unique'
  BY <1>1, <1>4, <1>6 DEF RefInv, RefType, OthersKeep, Unique, Goes
<1>8. Balanced(p)
  <2>1. SUFFICES ASSUME NEW x \in Slots
                 PROVE  Has(cwd, file, st, p, x) = Has(cwd', file', st', p, x)
    BY <1>1 DEF Balanced, Has, One
  <2>2. x # 0
    BY EntryReg
  <2> QED
    BY <1>1, <1>3, <1>4, <1>6, <2>2 DEF Has, One, Goes, y
<1> QED
  BY <1>5, <1>7, <1>8, Conclude

\* sys_chdir(): the new directory takes the reference, that of the old one
\* goes to iput().
LEMMA ChdirStep ==
  ASSUME RefInv, IsFiniteSet(Procs), NINODE \in Nat, NEW p \in Procs, Chdir(p)
  PROVE  RefInv'
<1> DEFINE t == st[p]
           y == cwd[p]
           u == [t EXCEPT !.ip = 0]
<1>1. /\ t.pc = "chdired" /\ UNCHANGED <<ref, inum, file>>
      /\ \/ cwd' = [cwd EXCEPT ![p] = t.ip] /\ Put(p, u, y, "idle")
         \/ Put(p, u, t.ip, "idle") /\ UNCHANGED cwd
  BY DEF Chdir, At, icache, Iunlockput
<1>2. /\ st \in [Procs -> CallState] /\ t \in CallState /\ Tidy(t) /\ y \in Regs /\ 0 \in Regs
      /\ cwd \in [Procs -> Regs] /\ t.ip \in Regs
  <2>1. st \in [Procs -> CallState] /\ t \in CallState /\ Tidy(t) /\ y \in Regs
    BY Typing
  <2>2. t.ip \in Regs
    BY <2>1 DEF CallState
  <2> QED
    BY <2>1, <2>2 DEF RefInv, RefType, Regs
<1>3. t.dp = 0 /\ t.put = 0
  BY <1>1, <1>2 DEF Tidy, Where, IputLabels, NoDp
<1>4. CASE Put(p, u, t.ip, "idle") /\ UNCHANGED cwd
  BY <1>1, <1>3, <1>4, PutIp DEF IputLabels
<1>5. CASE cwd' = [cwd EXCEPT ![p] = t.ip] /\ Put(p, u, y, "idle")
  <2>1. u \in CallState /\ u.dp = 0 /\ u.ip = 0
    BY <1>2, <1>3, SetReg
  <2> HIDE DEF y, u
  <2>2. Goes(p, u, "iput", y, "idle")
    <3>1. "idle" \in Returns
      BY DEF Returns
    <3> QED
      BY <1>2, <1>5, <2>1, <3>1, PutMoves
  <2>3. Tidy(st'[p])
    BY <2>1, <2>2 DEF Goes, Tidy, Where, IputLabels
  <2>4. /\ cwd' \in [Procs -> Regs] /\ cwd'[p] = t.ip
        /\ \A q \in Procs : q # p => cwd'[q] = cwd[q]
    BY <1>2, <1>5
  <2>5. RefType' /\ OthersKeep(p) /\ Unique'
    BY <1>1, <2>2, <2>4 DEF RefInv, RefType, OthersKeep, Unique, Goes
  <2>6. Balanced(p)
    <3>1. SUFFICES ASSUME NEW x \in Slots
                   PROVE  Has(cwd, file, st, p, x) = Has(cwd', file', st', p, x)
      BY <1>1 DEF Balanced, Has, One
    <3>2. x # 0
      BY EntryReg
    <3> QED
      BY <1>1, <1>3, <2>1, <2>2, <2>4, <3>2 DEF Has, One, Goes, y
  <2> QED
    BY <2>3, <2>5, <2>6, Conclude
<1> QED
  BY <1>1, <1>4, <1>5

\* The steps of open and create on a locked inode: on to the file, or back
\* with the reference.
LEMMA OpenStep ==
  ASSUME RefInv, IsFiniteSet(Procs), NINODE \in Nat, NEW p \in Procs,
         OpenCheck(p) \/ CreateExists(p) \/ CreateEnd(p)
  PROVE  RefInv'
<1> DEFINE t == st[p]
<1>1. /\ t.pc \in {"opened", "exists1", "linked"} /\ UNCHANGED <<ref, inum, cwd, file>>
      /\ Goto(p, t, "openfile") \/ Put(p, [t EXCEPT !.ip = 0], t.ip, "idle")
  BY DEF OpenCheck, CreateExists, CreateEnd, At, icache, held, Iunlockput
<1>2. t \in CallState /\ Tidy(t)
  BY Typing
<1>3. t.dp = 0 /\ t.put = 0 /\ t.ret = "idle"
  BY <1>1, <1>2 DEF Tidy, Where, IputLabels, NoDp
<1>4. CASE Put(p, [t EXCEPT !.ip = 0], t.ip, "idle")
  BY <1>1, <1>3, <1>4, PutIp DEF IputLabels
<1>5. CASE Goto(p, t, "openfile")
  <2>1. Tidy(st'[p])
    <3>1. /\ st'[p].pc = "openfile" /\ st'[p].dp = 0 /\ st'[p].put = 0 /\ st'[p].ret = "idle"
      BY <1>3, <1>5, PcIs
    <3> QED
      BY <3>1 DEF Tidy, Where, IputLabels, NoIp
  <2>2. "openfile" \in Labels
    BY DEF Labels, NoDp
  <2> QED
    BY <1>1, <1>5, <2>1, <2>2, GoStep
<1> QED
  BY <1>1, <1>4, <1>5

\* A step that takes a reference to y into ip, or into put.
LEMMA TakeIp ==
  ASSUME RefInv, IsFiniteSet(Procs), NINODE \in Nat, NEW p \in Procs,
         st[p].pc \notin IputLabels, NEW y \in Slots, Taken(y), UNCHANGED <<cwd, file>>,
         st[p].ip = 0, NEW l \in {"created", "victim"},
         Goto(p, [st[p] EXCEPT !.ip = y], l)
  PROVE  RefInv'
<1> DEFINE t == st[p]
           u == [t EXCEPT !.ip = y]
<1>1. st \in [Procs -> CallState] /\ t \in CallState /\ Tidy(t) /\ y \in Regs
  BY Typing, EntryReg
<1>2. t.put = 0 /\ t.ret = "idle"
  BY <1>1 DEF Tidy
<1>3. u \in CallState /\ u.dp = t.dp /\ u.ip = y /\ u.put = 0 /\ u.ret = "idle"
  <2>1. u \in CallState /\ u.dp = t.dp /\ u.ip = y /\ u.put = t.put /\ u.ret = t.ret
    BY <1>1 DEF CallState
  <2> QED
    BY <1>2, <2>1
<1>4. Goto(p, u, l) /\ l \in Labels
  BY DEF Labels
<1> HIDE DEF u
<1>5. Goes(p, u, l, u.put, u.ret)
  BY <1>1, <1>3, <1>4, GotoMoves
<1>6. Tidy(st'[p])
  BY <1>3, <1>5 DEF Goes, Tidy, Where, IputLabels, NoDp, NoIp
<1>7. \A x \in Slots : InCall(st'[p], x) = InCall(t, x) + One(x = y)
  BY <1>2, <1>3, <1>5, EntryReg DEF Goes, InCall, One
<1> QED
  BY <1>5, <1>6, <1>7, Take

\* create(): the name exists, and dp goes to iput(), or there is a new inode.
LEMMA CreateLookupStep ==
  ASSUME RefInv, IsFiniteSet(Procs), NINODE \in Nat, NEW p \in Procs, CreateLookup(p)
  PROVE  RefInv'
<1> DEFINE t == st[p]
           d == t.dp
<1>1. /\ t.pc = "create1" /\ UNCHANGED <<cwd, file>>
      /\ \/ \E i : /\ iget(i)
                   /\ Put(p, [t EXCEPT !.dp = 0, !.ip = Entry(i), !.name = "."], d, "exists")
         \/ \E i : iget(i) /\ Goto(p, [t EXCEPT !.ip = Entry(i)], "created")
  BY DEF CreateLookup, At, held, Iunlockput
<1>2. st \in [Procs -> CallState] /\ t \in CallState /\ Tidy(t) /\ d \in Regs
  BY Typing DEF CallState
<1>3. t.ip = 0 /\ t.put = 0 /\ t.ret = "idle"
  BY <1>1, <1>2 DEF Tidy, Where, IputLabels, NoIp
<1>4. ASSUME NEW i, iget(i), Goto(p, [t EXCEPT !.ip = Entry(i)], "created")
      PROVE  RefInv'
  <2> DEFINE y == Entry(i)
  <2>1. y \in Slots /\ Taken(y)
    BY <1>4, IgetTakes DEF RefInv
  <2>2. Goto(p, [t EXCEPT !.ip = y], "created")
    BY <1>4
  <2> HIDE DEF y
  <2> QED
    BY <1>1, <1>3, <2>1, <2>2, TakeIp DEF IputLabels
<1>5. ASSUME NEW i, iget(i),
             Put(p, [t EXCEPT !.dp = 0, !.ip = Entry(i), !.name = "."], d, "exists")
      PROVE  RefInv'
  <2> DEFINE y == Entry(i)
             u == [t EXCEPT !.dp = 0, !.ip = y, !.name = "."]
  <2>1. y \in Slots /\ Taken(y)
    BY <1>5, IgetTakes DEF RefInv
  <2>2. y \in Regs /\ 0 \in Regs /\ "." \in Entries /\ "exists" \in Returns
    BY <2>1, EntryReg DEF Entries, Returns
  <2> HIDE DEF y
  <2>3. u \in CallState /\ u.dp = 0 /\ u.ip = y
    BY <1>2, <2>2 DEF CallState
  <2>4. Put(p, u, d, "exists")
    BY <1>5 DEF y
  <2> HIDE DEF u, d
  <2>5. Goes(p, u, "iput", d, "exists")
    BY <1>2, <2>2, <2>3, <2>4, PutMoves
  <2>6. Tidy(st'[p])
    BY <2>3, <2>5 DEF Goes, Tidy, Where, IputLabels, NoDp, NoIp
  <2>7. \A x \in Slots : InCall(st'[p], x) = InCall(t, x) + One(x = y)
    BY <1>3, <2>3, <2>5, EntryReg DEF Goes, InCall, One, d
  <2> QED
    BY <1>1, <2>1, <2>5, <2>6, <2>7, Take
<1> QED
  BY <1>1, <1>4, <1>5

\* The last steps of unlink() and the refusals of link(): ip goes to iput().
LEMMA PutIpStep ==
  ASSUME RefInv, IsFiniteSet(Procs), NINODE \in Nat, NEW p \in Procs,
         UnlinkEnd(p) \/ LinkEnd(p) \/ LinkUndo(p)
  PROVE  RefInv'
<1>1. /\ st[p].pc \in {"unlinked", "linkend", "linkbad1"} /\ UNCHANGED <<ref, inum, cwd, file>>
      /\ Put(p, [st[p] EXCEPT !.ip = 0], st[p].ip, "idle")
  BY DEF UnlinkEnd, LinkEnd, LinkUndo, At, icache, held, Iunlockput, SetNlink
<1>2. Tidy(st[p])
  BY Typing
<1>3. st[p].dp = 0 /\ st[p].pc \notin IputLabels
  BY <1>1, <1>2 DEF Tidy, Where, IputLabels, NoDp
<1> QED
  BY <1>1, <1>3, PutIp

\* The steps that are done with the directory: dp goes to iput().
LEMMA PutDpStep ==
  ASSUME RefInv, IsFiniteSet(Procs), NINODE \in Nat, NEW p \in Procs,
         CreateLink(p) \/ UnlinkBad(p) \/ LinkExists(p)
  PROVE  RefInv'
<1>1. UNCHANGED <<ref, inum, cwd, file>>
  BY DEF CreateLink, UnlinkBad, LinkExists, icache, held, SetNlink
<1>2. CASE CreateLink(p)
  BY <1>1, <1>2, PutDp DEF CreateLink, At, Iunlockput, IputLabels
<1>3. CASE LinkExists(p)
  BY <1>1, <1>3, PutDp DEF LinkExists, At, Iunlockput, IputLabels
<1>4. CASE UnlinkBad(p)
  <2>1. st[p].pc = "unlinkbad" /\ Put(p, [st[p] EXCEPT !.dp = 0], st[p].dp, "idle")
    BY <1>4 DEF UnlinkBad, At, Iunlockput
  <2>2. Tidy(st[p])
    BY Typing
  <2>3. st[p].ip = 0 /\ st[p].pc \notin IputLabels
    BY <2>1, <2>2 DEF Tidy, Where, IputLabels, NoIp
  <2> QED
    BY <1>1, <2>1, <2>3, PutDp
<1> QED
  BY <1>2, <1>3, <1>4

\* sys_unlink(): the name is not there, or the inode to remove is found.
LEMMA UnlinkLookupStep ==
  ASSUME RefInv, IsFiniteSet(Procs), NINODE \in Nat, NEW p \in Procs, UnlinkLookup(p)
  PROVE  RefInv'
<1> DEFINE t == st[p]
<1>1. /\ t.pc = "unlink1" /\ UNCHANGED <<cwd, file>>
      /\ \/ Put(p, [t EXCEPT !.dp = 0], t.dp, "idle") /\ UNCHANGED <<ref, inum>>
         \/ \E i : iget(i) /\ Goto(p, [t EXCEPT !.ip = Entry(i)], "victim")
  BY DEF UnlinkLookup, At, icache, held, Iunlockput
<1>2. Tidy(t)
  BY Typing
<1>3. t.ip = 0 /\ t.pc \notin IputLabels
  BY <1>1, <1>2 DEF Tidy, Where, IputLabels, NoIp
<1>4. CASE Put(p, [t EXCEPT !.dp = 0], t.dp, "idle") /\ UNCHANGED <<ref, inum>>
  BY <1>1, <1>3, <1>4, PutDp
<1>5. ASSUME NEW i, iget(i), Goto(p, [t EXCEPT !.ip = Entry(i)], "victim")
      PROVE  RefInv'
  <2> DEFINE y == Entry(i)
  <2>1. y \in Slots /\ Taken(y)
    BY <1>5, IgetTakes DEF RefInv
  <2>2. Goto(p, [t EXCEPT !.ip = y], "victim")
    BY <1>5
  <2> HIDE DEF y
  <2> QED
    BY <1>1, <1>3, <2>1, <2>2, TakeIp
<1> QED
  BY <1>1, <1>4, <1>5

\* sys_unlink(): the directory is not empty, or the entry is removed.
LEMMA UnlinkEntryStep ==
  ASSUME RefInv, IsFiniteSet(Procs), NINODE \in Nat, NEW p \in Procs, UnlinkEntry(p)
  PROVE  RefInv'
<1>1. /\ st[p].pc = "victim1" /\ UNCHANGED <<ref, inum, cwd, file>>
      /\ \/ Put(p, [st[p] EXCEPT !.ip = 0], st[p].ip, "unlinkbad")
         \/ Put(p, [st[p] EXCEPT !.dp = 0, !.name = "."], st[p].dp, "unlinked")
  BY DEF UnlinkEntry, At, icache, held, Iunlockput, SetNlink
<1>2. st[p].pc \notin IputLabels
  BY <1>1 DEF IputLabels
<1>3. CASE Put(p, [st[p] EXCEPT !.ip = 0], st[p].ip, "unlinkbad")
  BY <1>1, <1>2, <1>3, PutIp
<1>4. CASE Put(p, [st[p] EXCEPT !.dp = 0, !.name = "."], st[p].dp, "unlinked")
  BY <1>1, <1>2, <1>4, PutDp
<1> QED
  BY <1>1, <1>3, <1>4

\* sys_link(): a directory is refused, a file keeps its reference in ip.
LEMMA LinkOldStep ==
  ASSUME RefInv, IsFiniteSet(Procs), NINODE \in Nat, NEW p \in Procs, LinkOld(p)
  PROVE  RefInv'
<1> DEFINE t == st[p]
           u == [t EXCEPT !.call = "link2"]
<1>1. /\ t.pc = "link1" /\ UNCHANGED <<ref, inum, cwd, file>>
      /\ Put(p, [t EXCEPT !.ip = 0], t.ip, "idle") \/ Goto(p, u, "link2start")
  BY DEF LinkOld, At, icache, held, Iunlockput, SetNlink
<1>2. st \in [Procs -> CallState] /\ t \in CallState /\ Tidy(t)
  BY Typing
<1>3. t.dp = 0 /\ t.put = 0 /\ t.ret = "idle" /\ t.pc \notin IputLabels
  BY <1>1, <1>2 DEF Tidy, Where, IputLabels, NoDp
<1>4. CASE Put(p, [t EXCEPT !.ip = 0], t.ip, "idle")
  BY <1>1, <1>3, <1>4, PutIp
<1>5. CASE Goto(p, u, "link2start")
  <2>1. "link2" \in Callings /\ "link2start" \in Labels
    BY DEF Callings, Labels, NoDp
  <2>2. /\ u \in CallState /\ u.call = "link2" /\ u.dp = 0 /\ u.ip = t.ip /\ u.put = 0
        /\ u.ret = "idle"
    BY <1>2, <1>3, <2>1 DEF CallState
  <2> HIDE DEF u
  <2>3. Goes(p, u, "link2start", u.put, u.ret)
    BY <1>2, <1>5, <2>1, <2>2, GotoMoves
  <2>4. Tidy(st'[p])
    BY <2>2, <2>3 DEF Goes, Tidy, Where, IputLabels, NoIp
  <2>5. \A x \in Slots : InCall(st'[p], x) = InCall(t, x)
    BY <1>3, <2>2, <2>3 DEF Goes, InCall
  <2> QED
    BY <1>1, <2>3, <2>4, <2>5, Shift
<1> QED
  BY <1>1, <1>4, <1>5

\* sys_link(): the lookup of the new name starts, in dp, at the root or in the
\* current directory.
LEMMA LinkNewFrom ==
  ASSUME NEW p, LinkNew(p)
  PROVE  \E y : /\ \/ iget(ROOTINO) /\ y = Entry(ROOTINO)
                   \/ idup(y) /\ y = cwd[p]
                /\ Goto(p, [st[p] EXCEPT !.path = st[p].new, !.new = <<>>, !.dp = y], "namex")
<1>1. CASE iget(ROOTINO) /\ Goto(p, [st[p] EXCEPT !.path = st[p].new, !.new = <<>>,
                                                 !.dp = Entry(ROOTINO)], "namex")
  BY <1>1
<1>2. CASE idup(cwd[p]) /\ Goto(p, [st[p] EXCEPT !.path = st[p].new, !.new = <<>>,
                                               !.dp = cwd[p]], "namex")
  BY <1>2
<1> QED
  BY <1>1, <1>2 DEF LinkNew

LEMMA LinkNewStep ==
  ASSUME RefInv, IsFiniteSet(Procs), NINODE \in Nat, NEW p \in Procs, LinkNew(p)
  PROVE  RefInv'
<1>1. PICK y : /\ \/ iget(ROOTINO) /\ y = Entry(ROOTINO)
                  \/ idup(y) /\ y = cwd[p]
               /\ Goto(p, [st[p] EXCEPT !.path = st[p].new, !.new = <<>>, !.dp = y], "namex")
  BY LinkNewFrom
<1> DEFINE t == st[p]
           u == [t EXCEPT !.path = t.new, !.new = <<>>, !.dp = y]
<1>2. t.pc = "link2start" /\ UNCHANGED <<cwd, file>> /\ Goto(p, u, "namex")
  BY <1>1 DEF LinkNew, At, held
<1>3. st \in [Procs -> CallState] /\ t \in CallState /\ Tidy(t) /\ cwd[p] \in Regs
  BY Typing
<1>4. t.dp = 0 /\ t.put = 0 /\ t.ret = "idle" /\ t.call = "link2"
  BY <1>2, <1>3 DEF Tidy, Where, IputLabels, NoDp
<1>5. Taken(y) /\ y \in Regs
  <2>1. CASE iget(ROOTINO) /\ y = Entry(ROOTINO)
    BY <2>1, IgetTakes, EntryReg DEF RefInv
  <2>2. CASE idup(y) /\ y = cwd[p]
    BY <1>3, <2>2, IdupTakes DEF RefInv
  <2> QED
    BY <1>1, <2>1, <2>2
<1>6. "namex" \in Labels /\ <<>> \in Seq(Entries)
  BY DEF Labels, Returns
<1>7. /\ u \in CallState /\ u.call = "link2" /\ u.dp = y /\ u.ip = t.ip /\ u.put = 0
      /\ u.ret = "idle"
  BY <1>3, <1>4, <1>5, <1>6 DEF CallState
<1> HIDE DEF u
<1>8. Goes(p, u, "namex", u.put, u.ret)
  BY <1>2, <1>3, <1>6, <1>7, GotoMoves
<1>9. Tidy(st'[p])
  BY <1>7, <1>8 DEF Goes, Tidy, Where, IputLabels, NoDp, NoIp
<1>10. \A x \in Slots : InCall(st'[p], x) = InCall(t, x) + One(x = y)
  BY <1>4, <1>7, <1>8, EntryReg DEF Goes, InCall, One
<1> QED
  BY <1>2, <1>5, <1>8, <1>9, <1>10, Take

\* dirlink() of sys_link(): the name exists, and its inode goes to iput(), or
\* the entry is made.
LEMMA LinkEntryStep ==
  ASSUME RefInv, IsFiniteSet(Procs), NINODE \in Nat, NEW p \in Procs, LinkEntry(p)
  PROVE  RefInv'
<1> DEFINE t == st[p]
<1>1. /\ t.pc = "link21" /\ UNCHANGED <<cwd, file>>
      /\ \/ \E i : iget(i) /\ Put(p, t, Entry(i), "linkexists")
         \/ Put(p, [t EXCEPT !.dp = 0], t.dp, "linkend") /\ UNCHANGED <<ref, inum>>
  BY DEF LinkEntry, At, icache, held, Iunlockput
<1>2. st \in [Procs -> CallState] /\ t \in CallState /\ Tidy(t)
  BY Typing
<1>3. t.put = 0 /\ t.pc \notin IputLabels
  BY <1>1, <1>2 DEF Tidy, IputLabels
<1>4. CASE Put(p, [t EXCEPT !.dp = 0], t.dp, "linkend") /\ UNCHANGED <<ref, inum>>
  BY <1>1, <1>3, <1>4, PutDp
<1>5. ASSUME NEW i, iget(i), Put(p, t, Entry(i), "linkexists")
      PROVE  RefInv'
  <2> DEFINE y == Entry(i)
  <2>1. y \in Slots /\ Taken(y)
    BY <1>5, IgetTakes DEF RefInv
  <2>2. Put(p, t, y, "linkexists")
    BY <1>5
  <2> HIDE DEF y
  <2>3. y \in Regs /\ "linkexists" \in Returns
    BY <2>1, EntryReg DEF Returns
  <2>4. Goes(p, t, "iput", y, "linkexists")
    BY <1>2, <2>2, <2>3, PutMoves
  <2>5. Tidy(st'[p])
    BY <2>4 DEF Goes, Tidy, Where, IputLabels, NoDp, NoIp
  <2>6. \A x \in Slots : InCall(st'[p], x) = InCall(t, x) + One(x = y)
    BY <1>3, <2>4, EntryReg DEF Goes, InCall, One
  <2> QED
    BY <1>1, <2>1, <2>4, <2>5, <2>6, Take
<1> QED
  BY <1>1, <1>4, <1>5

-----------------------------------------------------------------------------

\* The references at the start: every process has the root directory.
LEMMA RefInit ==
  ASSUME SysFileInit
  PROVE  RefInv
<1>1. NINODE \in Nat \ {0} /\ IsFiniteSet(Procs)
  BY Constants
<1>2. /\ inum = [x \in Slots |-> IF x = 1 THEN ROOTINO ELSE 0]
      /\ ref = [x \in Slots |-> IF x = 1 THEN Cardinality(Procs) ELSE 0]
      /\ cwd = [p \in Procs |-> 1] /\ file = [p \in Procs |-> 0] /\ st = [p \in Procs |-> Idle]
  BY DEF SysFileInit
<1>3. Cardinality(Procs) \in Nat /\ 0 \in Regs /\ 1 \in Regs /\ 0 \notin Slots
  BY <1>1, FS_CardinalityType DEF Regs, Slots
<1>4. RefType
  BY <1>1, <1>2, <1>3, IdleIs DEF RefType
<1>5. \A p \in Procs : Tidy(st[p])
  BY <1>1, <1>2, IdleIs
<1>6. Unique
  BY <1>2 DEF Unique
<1>7. Counted
  <2>1. SUFFICES ASSUME NEW x \in Slots PROVE ref[x] = Cardinality(Holders(x))
    BY DEF Counted
  <2>2. \A p \in Procs, v \in Variables : Reg(p, v) = IF v = "cwd" THEN 1 ELSE 0
    BY <1>1, <1>2, IdleIs DEF Reg, Variables
  <2>3. Holders(x) = IF x = 1 THEN Procs \X {"cwd"} ELSE {}
    <3>1. Holders(x) = {h \in Procs \X Variables : Reg(h[1], h[2]) = x}
      BY DEF Holders, Variables
    <3>2. x # 0
      BY <1>3
    <3>3. "cwd" \in Variables
      BY DEF Variables
    <3> QED
      BY <2>2, <3>1, <3>2, <3>3
  <2>4. Cardinality(Procs \X {"cwd"}) = Cardinality(Procs)
    <3>1. IsFiniteSet({"cwd"}) /\ Cardinality({"cwd"}) = 1
      BY FS_Singleton
    <3>2. Cardinality(Procs \X {"cwd"}) = Cardinality(Procs) * Cardinality({"cwd"})
      BY <1>1, <3>1, FS_Product
    <3> QED
      BY <1>3, <3>1, <3>2
  <2> QED
    BY <1>2, <2>3, <2>4, FS_EmptySet
<1> QED
  BY <1>4, <1>5, <1>6, <1>7 DEF RefInv

\* Every step of every system call keeps the invariant.
LEMMA RefNext ==
  ASSUME RefInv, [SysFileNext]_sysfileVars
  PROVE  RefInv'
<1>1. NINODE \in Nat /\ IsFiniteSet(Procs)
  BY Constants
<1>2. CASE UNCHANGED sysfileVars
  <2>1. UNCHANGED <<ref, inum, cwd, file, st>>
    BY <1>2 DEF sysfileVars, ondisk, icache, held
  <2>2. \A x : Holders(x)' = Holders(x)
    BY <2>1 DEF Holders, Reg
  <2> QED
    BY <2>1, <2>2 DEF RefInv, RefType, Unique, Counted
<1>3. ASSUME NEW p \in Procs, NEW c \in Calls[p], Start(p, c) PROVE RefInv'
  BY <1>3, StartStep
<1>4. ASSUME NEW p \in Procs, SysFileStep(p) PROVE RefInv'
  <2>1. CASE CloseFile(p)
    BY <1>1, <2>1, CloseStep
  <2>2. CASE LockInode(p) \/ NamexLock(p)
    BY <1>1, <2>2, LockStep
  <2>3. CASE NamexEnd(p)
    BY <1>1, <2>3, NamexEndStep
  <2>4. CASE NamexStep(p)
    BY <1>1, <2>4, NamexStepStep
  <2>5. CASE IputLock(p) \/ IputFree(p) \/ IputUnlock(p)
    BY <1>1, <2>5, IputStep
  <2>6. CASE IputDec(p)
    BY <1>1, <2>6, IputDecStep
  <2>7. CASE OpenEnd(p)
    BY <1>1, <2>7, OpenFileStep
  <2>8. CASE OpenCheck(p) \/ CreateExists(p) \/ CreateEnd(p)
    BY <1>1, <2>8, OpenStep
  <2>9. CASE Chdir(p)
    BY <1>1, <2>9, ChdirStep
  <2>10. CASE CreateLookup(p)
    BY <1>1, <2>10, CreateLookupStep
  <2>11. CASE UnlinkEnd(p) \/ LinkEnd(p) \/ LinkUndo(p)
    BY <1>1, <2>11, PutIpStep
  <2>12. CASE CreateLink(p) \/ UnlinkBad(p) \/ LinkExists(p)
    BY <1>1, <2>12, PutDpStep
  <2>13. CASE UnlinkLookup(p)
    BY <1>1, <2>13, UnlinkLookupStep
  <2>14. CASE UnlinkEntry(p)
    BY <1>1, <2>14, UnlinkEntryStep
  <2>15. CASE LinkOld(p)
    BY <1>1, <2>15, LinkOldStep
  <2>16. CASE LinkNew(p)
    BY <1>1, <2>16, LinkNewStep
  <2>17. CASE LinkEntry(p)
    BY <1>1, <2>17, LinkEntryStep
  <2> QED
    BY <1>4, <2>1, <2>2, <2>3, <2>4, <2>5, <2>6, <2>7, <2>8, <2>9, <2>10, <2>11, <2>12,
       <2>13, <2>14, <2>15, <2>16, <2>17 DEF SysFileStep
<1> QED
  BY <1>2, <1>3, <1>4 DEF SysFileNext

\* One entry for each inode.
LEMMA RefInvExact ==
  ASSUME RefInv
  PROVE  RefExact
<1>1. \A x \in Slots : ref[x] = Cardinality(Holders(x))
  BY DEF RefInv, Counted
<1>2. \A i : Cardinality(Cached(i)) <= 1
  <2>1. SUFFICES ASSUME NEW i PROVE Cardinality(Cached(i)) <= 1
    OBVIOUS
  <2>2. CASE Cached(i) = {}
    BY <2>2, FS_EmptySet
  <2>3. CASE Cached(i) # {}
    <3>1. PICK x : x \in Cached(i)
      BY <2>3
    <3>2. Cached(i) = {x}
      BY <3>1 DEF Cached, RefInv, Unique
    <3>3. Cardinality({x}) = 1
      BY FS_Singleton
    <3> QED
      BY <3>2, <3>3
  <2> QED
    BY <2>2, <2>3
<1> QED
  BY <1>1, <1>2 DEF RefExact

\* RefInv is an invariant of the system calls, for any number of processes
\* and inodes, any size of the cache and any calls.
THEOREM SysFileInvariant ==
  SysFileSpec => []RefInv
<1>1. SysFileInit => RefInv
  BY RefInit
<1>2. RefInv /\ [SysFileNext]_sysfileVars => RefInv'
  BY RefNext
<1> QED
  BY <1>1, <1>2, PTL DEF SysFileSpec

\* No call loses a reference to an inode or drops one twice, on whatever path
\* it fails, and iget() never makes a second entry for an inode.
THEOREM SysFileRefExact ==
  SysFileSpec => []RefExact
<1>1. RefInv => RefExact
  BY RefInvExact
<1> QED
  BY <1>1, SysFileInvariant, PTL

-----------------------------------------------------------------------------
(* The locks of the inodes and the copies under them: CacheCoherent        *)

\* Where a call has an inode in dp and in ip, which of the two it has locked,
\* and where iput() has its own.
HasDp(t) ==
    \/ Where(t) \in {"create", "mkdir", "mknod", "unlink", "link2", "create1", "unlink1", "link21",
                     "unlinkbad", "created", "created1", "victim", "victim1", "linkexists"}
    \/ Where(t) \in {"namex", "walk"} /\ t.call = "link2"
HasIp(t) ==
    Where(t) \in {"namex", "walk", "open", "chdir", "link", "opened", "openfile", "chdired",
                  "link1", "exists", "exists1", "linked", "unlinked", "link2start", "linkend",
                  "linkbad", "linkbad1", "created", "created1", "victim", "victim1", "link2",
                  "link21", "linkexists"}
IpLocked(t) ==
    \/ Where(t) \in {"opened", "openfile", "chdired", "link1", "exists1", "created1", "victim1",
                     "linkbad1", "linked", "unlinked"}
    \/ Where(t) = "walk" /\ t.call # "link2"
DpLocked(t) ==
    \/ Where(t) \in {"create1", "unlink1", "link21", "created", "created1", "victim", "victim1",
                     "unlinkbad", "linkexists"}
    \/ Where(t) = "walk" /\ t.call = "link2"
PutLocked(t) == t.pc \in {"ifree", "ifreed"}

Holds(p, x) == x \in Slots /\ owner[x] = p /\ valid[x]

\* The variables that a call uses are set.
Given(p) ==
    /\ HasDp(st[p]) => st[p].dp \in Slots
    /\ HasIp(st[p]) => st[p].ip \in Slots
    /\ st[p].pc \in IputLabels => st[p].put \in Slots
    /\ cwd[p] \in Slots

\* The locks that p has, on entries that are valid and differ.
Locks(p) ==
    /\ IpLocked(st[p]) => Holds(p, st[p].ip)
    /\ DpLocked(st[p]) => Holds(p, st[p].dp)
    /\ PutLocked(st[p]) => Holds(p, st[p].put)
    /\ IpLocked(st[p]) /\ DpLocked(st[p]) => st[p].ip # st[p].dp
    /\ IpLocked(st[p]) /\ PutLocked(st[p]) => st[p].ip # st[p].put
    /\ DpLocked(st[p]) /\ PutLocked(st[p]) => st[p].dp # st[p].put

\* iput() frees no inode that someone has open or stands in.
Spared(p, q) == PutLocked(st[q]) => st[q].put # cwd[p] /\ st[q].put # file[p]

Record(r) == r = [type |-> r.type, nlink |-> r.nlink]

Shapes ==
    /\ DOMAIN dinode = Inumbers /\ \A i \in Inumbers : Record(dinode[i])
    /\ DOMAIN inode = Slots /\ \A x \in Slots : Record(inode[x])
    /\ dir \in [Inumbers -> [Entries -> Inumbers \cup {0}]]
    /\ valid \in [Slots -> BOOLEAN] /\ DOMAIN owner = Slots

Numbered == \A x \in Slots : ref[x] > 0 => inum[x] \in Inumbers

CohInv ==
    /\ Shapes /\ Numbered /\ CacheCoherent
    /\ \A p \in Procs : Given(p) /\ Locks(p)
    /\ \A p, q \in Procs : Spared(p, q)

\* A holder of a reference is counted.
LEMMA SomeHolder ==
  ASSUME IsFiniteSet(Procs), NEW c, NEW f, NEW t, NEW p \in Procs, NEW x,
         x \in {c[p], f[p], t[p].dp, t[p].ip, t[p].put}
  PROVE  Cardinality(HoldersIn(c, f, t, x)) \in Nat /\ Cardinality(HoldersIn(c, f, t, x)) > 0
<1>1. Has(c, f, t, p, x) \in Nat /\ Has(c, f, t, p, x) > 0
  BY DEF Has, One
<1> QED
  BY <1>1, HoldersIs

\* What a variable refers to is in the cache, before a step.
LEMMA Referred ==
  ASSUME RefInv, NEW p \in Procs, NEW x \in Slots,
         x \in {cwd[p], file[p], st[p].dp, st[p].ip, st[p].put}
  PROVE  ref[x] > 0
<1>1. IsFiniteSet(Procs)
  BY Constants
<1>2. ref[x] = Cardinality(HoldersIn(cwd, file, st, x))
  BY HoldersNow DEF RefInv, Counted
<1> QED
  BY <1>1, <1>2, SomeHolder

\* And after it.
LEMMA ReferredAfter ==
  ASSUME RefInv', NEW p \in Procs, NEW x \in Slots,
         x \in {cwd'[p], file'[p], st'[p].dp, st'[p].ip, st'[p].put}
  PROVE  ref'[x] > 0
<1>1. IsFiniteSet(Procs)
  BY Constants
<1>2. ref'[x] = Cardinality(HoldersIn(cwd', file', st', x))
  BY HoldersNow DEF RefInv, Counted
<1> QED
  BY <1>1, <1>2, SomeHolder

\* With one reference, that of iput(), the inode is nobody's file or directory.
LEMMA LastReference ==
  ASSUME RefInv, NEW p \in Procs, NEW q \in Procs, st[p].put \in Slots, ref[st[p].put] = 1
  PROVE  cwd[q] # st[p].put /\ file[q] # st[p].put
<1> DEFINE x == st[p].put
           H == Holders(x)
<1>1. Cardinality(H) = 1 /\ IsFiniteSet(H)
  <2>1. IsFiniteSet(Procs)
    BY Constants
  <2>2. IsFiniteSet({"cwd", "file", "dp", "ip", "put"})
    <3> DEFINE A == {"cwd"} \cup {"file"}
               B == {"dp"} \cup {"ip"}
               C == B \cup {"put"}
    <3>1. IsFiniteSet(A) /\ IsFiniteSet(B) /\ IsFiniteSet({"put"})
      BY FS_Singleton, FS_Union
    <3>2. IsFiniteSet(A \cup C)
      BY <3>1, FS_Union
    <3>3. {"cwd", "file", "dp", "ip", "put"} = A \cup C
      OBVIOUS
    <3> QED
      BY <3>2, <3>3
  <2>3. IsFiniteSet(Procs \X {"cwd", "file", "dp", "ip", "put"})
    BY <2>1, <2>2, FS_Product
  <2>4. H \subseteq Procs \X {"cwd", "file", "dp", "ip", "put"}
    BY DEF Holders
  <2> QED
    BY <2>3, <2>4, FS_Subset DEF RefInv, Counted
<1>2. PICK h : H = {h}
  BY <1>1, FS_Singleton
<1>3. <<p, "put">> \in H
  BY DEF Holders, Reg
<1>4. cwd[q] = x => <<q, "cwd">> \in H
  BY DEF Holders, Reg
<1>5. file[q] = x => <<q, "file">> \in H
  BY DEF Holders, Reg
<1> QED
  BY <1>2, <1>3, <1>4, <1>5

\* The locks of the others stay.
OwnerKept(p) == \A x \in Slots : owner[x] \notin {p, NULL} => owner'[x] = owner[x]

\* An entry that p has locked is not being freed, and agrees with the disk.
LEMMA LockedCopy ==
  ASSUME RefInv, CohInv, NEW p \in Procs, NEW x, Holds(p, x), ref[x] > 0,
         st[p].pc \notin {"ifreed", "panic"}
  PROVE  /\ ~Dying(x) /\ inode[x] = dinode[inum[x]] /\ inode[x].type # "free"
         /\ inum[x] \in Inumbers /\ Record(inode[x])
<1>1. ~Dying(x)
  <2>1. SUFFICES ASSUME NEW q \in Procs, \/ st[q].pc = "ifreed" /\ st[q].put = x
                                         \/ st[q].pc = "panic" /\ owner[x] = q
                 PROVE  FALSE
    BY DEF Dying, At
  <2>2. owner[x] = p /\ q # p
    BY <2>1 DEF Holds
  <2>3. st[q].pc = "ifreed" /\ st[q].put = x
    BY <2>1, <2>2
  <2>4. owner[x] = q
    BY <2>3 DEF CohInv, Locks, PutLocked, Holds
  <2> QED
    BY <2>2, <2>4
<1> QED
  BY <1>1 DEF CohInv, CacheCoherent, Holds, Numbered, Shapes

\* No entry stops being freed because of another process.
LEMMA DyingKept ==
  ASSUME NEW p \in Procs, OthersKeep(p), OwnerKept(p), NEW x \in Slots, Dying(x),
         st[p].pc # "panic", At(p, "ifreed") => st[p].put # x
  PROVE  Dying(x)'
<1>1. PICK q \in Procs : \/ st[q].pc = "ifreed" /\ st[q].put = x
                         \/ st[q].pc = "panic" /\ owner[x] = q
  BY DEF Dying, At
<1>2. q # p
  BY <1>1 DEF At
<1>3. st'[q] = st[q] /\ NULL \notin Procs
  BY <1>2, SysFileAssumption DEF OthersKeep
<1> QED
  BY <1>1, <1>2, <1>3 DEF OwnerKept, Dying, At

\* What must be shown of a step of p.
LEMMA CohConclude ==
  ASSUME RefInv, RefInv', CohInv, NEW p \in Procs, OthersKeep(p), OwnerKept(p),
         Shapes', Numbered', CacheCoherent', Given(p)', Locks(p)',
         \A x \in Slots : ref[x] > 0 /\ ref'[x] > 0 /\ valid[x] /\ owner[x] # p => valid'[x],
         \A q \in Procs : Spared(p, q)' /\ Spared(q, p)'
  PROVE  CohInv'
<1>1. ASSUME NEW q \in Procs, q # p PROVE Given(q)' /\ Locks(q)'
  <2>1. st'[q] = st[q] /\ cwd'[q] = cwd[q] /\ Given(q) /\ Locks(q)
    BY <1>1 DEF OthersKeep, CohInv
  <2>2. ASSUME NEW x, Holds(q, x), x \in {st[q].dp, st[q].ip, st[q].put}
        PROVE  Holds(q, x)'
    <3>1. x \in Slots /\ owner[x] = q /\ valid[x] /\ NULL \notin Procs
      BY <2>2, SysFileAssumption DEF Holds
    <3>2. ref[x] > 0 /\ ref'[x] > 0
      BY <2>1, <2>2, <3>1, Referred, ReferredAfter
    <3> QED
      BY <1>1, <3>1, <3>2 DEF OwnerKept, Holds
  <2> QED
    BY <2>1, <2>2 DEF Given, Locks
<1>2. ASSUME NEW q \in Procs, NEW r \in Procs, q # p, r # p PROVE Spared(q, r)'
  BY <1>2 DEF CohInv, Spared, OthersKeep
<1> QED
  BY <1>1, <1>2 DEF CohInv

\* The inodes on the disk that are in use stay as they are.
DiskKept ==
    /\ DOMAIN dinode' = Inumbers
    /\ \A i \in Inumbers : Record(dinode'[i]) /\ (dinode[i].type # "free" => dinode'[i] = dinode[i])

\* The entries of the cache stay, but for those that p has emptied or filled.
Fetched(p) ==
    \A x \in Slots : ref'[x] > 0 =>
       /\ IF ref[x] > 0 THEN inum'[x] = inum[x] ELSE inum'[x] \in Inumbers
       /\ \/ ref[x] > 0 /\ valid'[x] = valid[x] /\ inode'[x] = inode[x]
          \/ ~valid'[x] /\ (ref[x] > 0 => owner[x] = p)

\* The file and the directory of p are what they were, or an inode that it
\* has locked.
Opened(p) ==
    \A x \in {cwd'[p], file'[p]} :
       \/ x = 0 \/ x \in {cwd[p], file[p]}
       \/ x = st[p].ip /\ Holds(p, x) /\ st[p].pc # "ifreed"

\* iput() of p frees nobody's file or directory.
PutSpares(p) ==
    PutLocked(st'[p]) => \A q \in Procs : st'[p].put # cwd'[q] /\ st'[p].put # file'[q]

\* So no iput() under way frees one.
LEMMA SparedStep ==
  ASSUME CohInv, NINODE \in Nat, NEW p \in Procs, OthersKeep(p), Opened(p), PutSpares(p)
  PROVE  \A q \in Procs : Spared(p, q)' /\ Spared(q, p)'
<1>1. SUFFICES ASSUME NEW q \in Procs PROVE Spared(p, q)' /\ Spared(q, p)'
  OBVIOUS
<1>2. Spared(q, p)'
  BY DEF PutSpares, Spared
<1>3. ASSUME q # p PROVE Spared(p, q)'
  <2>1. SUFFICES ASSUME PutLocked(st[q]), NEW x \in {cwd'[p], file'[p]}, st[q].put = x
                 PROVE  FALSE
    BY <1>3 DEF Spared, OthersKeep
  <2>2. Holds(q, x) /\ x # 0
    BY <2>1, EntryReg DEF CohInv, Locks, Holds
  <2>3. ~Holds(p, x)
    BY <1>3, <2>2 DEF Holds
  <2>4. x \in {cwd[p], file[p]}
    BY <2>1, <2>2, <2>3 DEF Opened
  <2> QED
    BY <2>1, <2>4 DEF CohInv, Spared
<1> QED
  BY <1>2, <1>3

\* A step that changes no inode: it takes and drops references and releases
\* locks, and at most allocates an inode that is free.
LEMMA FetchStep ==
  ASSUME RefInv, RefInv', CohInv, NINODE \in Nat, NEW p \in Procs, OthersKeep(p), OwnerKept(p),
         DiskKept, Shapes', Fetched(p), Opened(p), PutSpares(p), Given(p)', Locks(p)',
         st[p].pc # "panic", st[p].pc = "ifreed" => ~valid'[st[p].put]
  PROVE  CohInv'
<1>1. \A x \in Slots : ref[x] \in Nat /\ ref'[x] \in Nat
  BY DEF RefInv, RefType
<1>2. Numbered'
  BY DEF Numbered, Fetched, CohInv
<1>3. ASSUME NEW x \in Slots, ref'[x] > 0, valid'[x], ~Dying(x)'
      PROVE  inode'[x] = dinode'[inum'[x]] /\ inode'[x].type # "free"
  <2>1. /\ ref[x] > 0 /\ valid[x] /\ inode'[x] = inode[x] /\ inum'[x] = inum[x]
        /\ inum[x] \in Inumbers
    BY <1>3 DEF Fetched, CohInv, Numbered
  <2>2. ~Dying(x)
    BY <1>3, DyingKept DEF At
  <2>3. inode[x] = dinode[inum[x]] /\ inode[x].type # "free"
    BY <2>1, <2>2 DEF CohInv, CacheCoherent
  <2> QED
    BY <2>1, <2>3 DEF DiskKept
<1>4. ASSUME NEW q \in Procs, NEW x \in {cwd'[q], file'[q]} \ {0}
      PROVE  dinode'[inum'[x]].type # "free"
  <2>1. x \in Slots
    <3>1. cwd'[q] \in Regs /\ file'[q] \in Regs
      BY DEF RefInv, RefType
    <3> QED
      BY <1>4, <3>1 DEF Regs, Slots
  <2>2. ref'[x] > 0
    BY <1>4, <2>1, ReferredAfter
  <2>3. CASE x \in {cwd[q], file[q]}
    <3>1. ref[x] > 0
      BY <2>1, <2>3, Referred
    <3>2. inum'[x] = inum[x] /\ inum[x] \in Inumbers /\ dinode[inum[x]].type # "free"
      BY <1>4, <2>1, <2>2, <2>3, <3>1 DEF Fetched, CohInv, Numbered, CacheCoherent
    <3> QED
      BY <3>2 DEF DiskKept
  <2>4. CASE x \notin {cwd[q], file[q]}
    <3>1. q = p /\ x = st[p].ip /\ Holds(p, x) /\ st[p].pc # "ifreed"
      BY <1>4, <2>4 DEF Opened, OthersKeep
    <3>2. ref[x] > 0
      BY <2>1, <3>1, Referred
    <3>3. inode[x] = dinode[inum[x]] /\ inode[x].type # "free" /\ inum[x] \in Inumbers
      BY <3>1, <3>2, LockedCopy
    <3>4. inum'[x] = inum[x]
      BY <2>1, <2>2, <3>2 DEF Fetched
    <3> QED
      BY <3>3, <3>4 DEF DiskKept
  <2> QED
    BY <2>3, <2>4
<1>5. CacheCoherent'
  BY <1>3, <1>4 DEF CacheCoherent
<1>6. \A x \in Slots : ref[x] > 0 /\ ref'[x] > 0 /\ valid[x] /\ owner[x] # p => valid'[x]
  BY DEF Fetched
<1> QED
  BY <1>2, <1>5, <1>6, SparedStep, CohConclude

\* ilock() gets the lock and a copy of the inode, or panics.
LEMMA LockCoherent ==
  ASSUME RefInv, RefInv', CohInv, NINODE \in Nat, NEW p \in Procs, OthersKeep(p),
         NEW x \in Slots, ilock(p, x), ref[x] > 0, UNCHANGED <<ondisk, held>>,
         st[p].pc \notin {"ifreed", "panic"}, ~PutLocked(st'[p]),
         inode'[x].type = "free" => st'[p].pc = "panic", Given(p)', Locks(p)'
  PROVE  CohInv'
<1>1. /\ owner[x] = NULL /\ owner' = [owner EXCEPT ![x] = p]
      /\ valid' = [valid EXCEPT ![x] = TRUE]
      /\ inode' = [inode EXCEPT ![x] = IF valid[x] THEN inode[x] ELSE dinode[inum[x]]]
      /\ UNCHANGED <<inum, ref, dinode, dir, cwd, file>>
  BY DEF ilock, ondisk, held
<1>2. Shapes /\ Numbered /\ CacheCoherent /\ inum[x] \in Inumbers /\ NULL \notin Procs
  BY SysFileAssumption DEF CohInv, Numbered
<1>3. Shapes' /\ Numbered'
  BY <1>1, <1>2 DEF Shapes, Numbered
<1>4. /\ owner'[x] = p /\ valid'[x]
      /\ inode'[x] = IF valid[x] THEN inode[x] ELSE dinode[inum[x]]
      /\ \A y \in Slots : y # x => /\ owner'[y] = owner[y] /\ valid'[y] = valid[y]
                                  /\ inode'[y] = inode[y]
  BY <1>1, <1>2 DEF Shapes
<1>5. OwnerKept(p)
  BY <1>1, <1>4 DEF OwnerKept
<1>6. ASSUME NEW y \in Slots, ref'[y] > 0, valid'[y], ~Dying(y)'
      PROVE  inode'[y] = dinode'[inum'[y]] /\ inode'[y].type # "free"
  <2>1. ~Dying(y)
    BY <1>5, <1>6, DyingKept DEF At
  <2>2. CASE y # x
    BY <1>1, <1>2, <1>4, <1>6, <2>1, <2>2 DEF CacheCoherent
  <2>3. CASE y = x
    <3>1. inode'[x].type # "free"
      BY <1>4, <1>6, <2>3 DEF Dying, At
    <3>2. inode'[x] = dinode[inum[x]]
      BY <1>1, <1>2, <1>4, <1>6, <2>1, <2>3 DEF CacheCoherent
    <3> QED
      BY <1>1, <2>3, <3>1, <3>2
  <2> QED
    BY <2>2, <2>3
<1>7. CacheCoherent'
  <2>1. \A q \in Procs : \A y \in {cwd'[q], file'[q]} \ {0} : dinode'[inum'[y]].type # "free"
    BY <1>1, <1>2 DEF CacheCoherent
  <2> QED
    BY <1>6, <2>1 DEF CacheCoherent
<1>8. Opened(p) /\ PutSpares(p)
  BY <1>1 DEF Opened, PutSpares
<1>9. \A y \in Slots : ref[y] > 0 /\ ref'[y] > 0 /\ valid[y] /\ owner[y] # p => valid'[y]
  BY <1>4
<1> QED
  BY <1>3, <1>5, <1>7, <1>8, <1>9, SparedStep, CohConclude

\* Another number of links.
LEMMA RecordNlink ==
  ASSUME NEW r, Record(r), NEW n
  PROVE  LET u == [r EXCEPT !.nlink = n]
         IN  Record(u) /\ u.type = r.type
<1> DEFINE t == r.type
           k == r.nlink
<1>1. r = [type |-> t, nlink |-> k]
  BY DEF Record
<1> HIDE DEF t, k
<1>2. [r EXCEPT !.nlink = n] = [type |-> t, nlink |-> n] /\ r.type = t
  BY <1>1
<1> QED
  BY <1>2 DEF Record

\* A change of the number of links of inodes that p has locked, in the cache
\* and on the disk.
LEMMA NlinkCoherent ==
  ASSUME RefInv, RefInv', CohInv, NINODE \in Nat, NEW p \in Procs, OthersKeep(p), OwnerKept(p),
         NEW f, SetNlink(f), \A x \in DOMAIN f : Holds(p, x) /\ ref[x] > 0,
         UNCHANGED held, dir' \in [Inumbers -> [Entries -> Inumbers \cup {0}]],
         DOMAIN owner' = Slots, st[p].pc \notin {"ifreed", "panic"}, ~PutLocked(st'[p]),
         Given(p)', Locks(p)'
  PROVE  CohInv'
<1> DEFINE D == DOMAIN f
           Of(i) == CHOOSE x \in D : inum[x] = i
<1>1. /\ inode' = [x \in Slots |-> IF x \in D THEN [inode[x] EXCEPT !.nlink = f[x]] ELSE inode[x]]
      /\ dinode' = [i \in Inumbers |-> IF \E x \in D : inum[x] = i THEN inode'[Of(i)] ELSE dinode[i]]
      /\ UNCHANGED <<inum, ref, valid, cwd, file>>
  BY DEF SetNlink, held
<1>2. Shapes /\ Numbered /\ CacheCoherent /\ Unique
  BY DEF CohInv, RefInv
<1>3. \A x \in D : /\ x \in Slots /\ ref[x] > 0 /\ inum[x] \in Inumbers /\ Record(inode[x])
                   /\ inode[x].type # "free"
  BY LockedCopy DEF Holds
<1> HIDE DEF D
<1>4. /\ \A x \in Slots : x \notin D => inode'[x] = inode[x]
      /\ \A x \in D : inode'[x].type = inode[x].type /\ Record(inode'[x])
      /\ DOMAIN inode' = Slots
  BY <1>1, <1>3, RecordNlink
<1>5. /\ \A x \in D : dinode'[inum[x]] = inode'[x]
      /\ \A i \in Inumbers : (\A x \in D : inum[x] # i) => dinode'[i] = dinode[i]
      /\ DOMAIN dinode' = Inumbers
  <2>1. ASSUME NEW x \in D PROVE Of(inum[x]) = x
    <3>1. Of(inum[x]) \in D /\ inum[Of(inum[x])] = inum[x]
      OBVIOUS
    <3> QED
      BY <1>2, <1>3, <3>1 DEF Unique
  <2> QED
    BY <1>1, <1>3, <2>1
<1>6. Shapes' /\ Numbered'
  <2>1. \A i \in Inumbers : Record(dinode'[i])
    BY <1>2, <1>4, <1>5 DEF Shapes
  <2>2. \A x \in Slots : Record(inode'[x])
    BY <1>2, <1>4 DEF Shapes
  <2> QED
    BY <1>1, <1>2, <1>4, <1>5, <2>1, <2>2 DEF Shapes, Numbered
<1>7. ASSUME NEW y \in Slots, ref'[y] > 0, valid'[y], ~Dying(y)'
      PROVE  inode'[y] = dinode'[inum'[y]] /\ inode'[y].type # "free"
  <2>1. ~Dying(y)
    BY <1>7, DyingKept DEF At
  <2>2. CASE y \in D
    <3>1. inum'[y] = inum[y]
      BY <1>1
    <3> QED
      BY <1>3, <1>4, <1>5, <2>2, <3>1
  <2>3. CASE y \notin D
    <3>1. \A x \in D : inum[x] # inum[y]
      BY <1>1, <1>2, <1>3, <1>7, <2>3 DEF Unique
    <3>2. inode[y] = dinode[inum[y]] /\ inode[y].type # "free" /\ inum[y] \in Inumbers
      BY <1>1, <1>2, <1>7, <2>1 DEF CacheCoherent, Numbered
    <3> QED
      BY <1>1, <1>4, <1>5, <2>3, <3>1, <3>2
  <2> QED
    BY <2>2, <2>3
<1>8. ASSUME NEW q \in Procs, NEW x \in {cwd'[q], file'[q]} \ {0}
      PROVE  dinode'[inum'[x]].type # "free"
  <2>1. x \in Slots /\ ref[x] > 0
    <3>1. cwd[q] \in Regs /\ file[q] \in Regs
      BY DEF RefInv, RefType
    <3>2. x \in Slots
      BY <1>1, <1>8, <3>1 DEF Regs, Slots
    <3> QED
      BY <1>1, <1>8, <3>2, Referred
  <2>2. inum[x] \in Inumbers /\ dinode[inum[x]].type # "free" /\ inum'[x] = inum[x]
    BY <1>1, <1>2, <1>8, <2>1 DEF Numbered, CacheCoherent
  <2> QED
    BY <1>3, <1>4, <1>5, <2>2
<1>9. CacheCoherent'
  BY <1>7, <1>8 DEF CacheCoherent
<1>10. Opened(p) /\ PutSpares(p)
  BY <1>1 DEF Opened, PutSpares
<1>11. \A y \in Slots : ref[y] > 0 /\ ref'[y] > 0 /\ valid[y] /\ owner[y] # p => valid'[y]
  BY <1>1
<1> QED
  BY <1>6, <1>9, <1>10, <1>11, SparedStep, CohConclude

\* p goes on at l, with these variables.
Now(p, l, c, d, i, y, r) ==
    /\ \A q \in Procs : q # p => st'[q] = st[q]
    /\ st'[p].pc = l /\ st'[p].call = c /\ st'[p].dp = d /\ st'[p].ip = i
    /\ st'[p].put = y /\ st'[p].ret = r

\* The state of a call after Goto.
LEMMA GotoNow ==
  ASSUME RefInv, NEW p \in Procs, NEW t \in CallState, NEW l, Goto(p, t, l)
  PROVE  Now(p, l, t.call, t.dp, t.ip, t.put, t.ret)
<1>1. st \in [Procs -> CallState]
  BY Typing
<1> QED
  BY <1>1 DEF Goto, CallState, Now

\* The state of a call that enters iput().
LEMMA PutNow ==
  ASSUME RefInv, NEW p \in Procs, NEW t \in CallState, NEW y \in Regs, NEW l \in Returns,
         Put(p, t, y, l)
  PROVE  Now(p, "iput", t.call, t.dp, t.ip, y, l)
<1>1. st \in [Procs -> CallState]
  BY Typing
<1>2. Goes(p, t, "iput", y, l)
  BY <1>1, PutMoves
<1> QED
  BY <1>2 DEF Goes, Now

\* iput() makes the inode free.
LEMMA FreeCoherent ==
  ASSUME RefInv, RefInv', CohInv, NINODE \in Nat, NEW p \in Procs, IputFree(p)
  PROVE  CohInv'
<1> DEFINE t == st[p]
           x == t.put
<1>1. /\ t.pc = "ifree" /\ Goto(p, t, "ifreed")
      /\ dir' = [dir EXCEPT ![inum[x]] = [n \in Entries |-> 0]]
      /\ inode' = [inode EXCEPT ![x] = Free]
      /\ dinode' = [dinode EXCEPT ![inum[x]] = Free]
      /\ UNCHANGED <<inum, ref, valid, owner, cwd, file>>
  BY DEF IputFree, At, held
<1>2. t \in CallState /\ Given(p) /\ Locks(p)
  BY Typing DEF CohInv
<1>3. Now(p, "ifreed", t.call, t.dp, t.ip, x, t.ret)
  BY <1>1, <1>2, GotoNow
<1>4. Holds(p, x) /\ x \in Slots
  BY <1>1, <1>2 DEF Locks, PutLocked, Holds
<1> HIDE DEF x
<1>5. ref[x] > 0
  BY <1>4, Referred DEF x
<1>6. Shapes /\ Numbered /\ CacheCoherent /\ Unique /\ inum[x] \in Inumbers
  BY <1>4, <1>5 DEF CohInv, RefInv, Numbered
<1>7. /\ OthersKeep(p) /\ OwnerKept(p)
      /\ \A y \in Slots : valid'[y] = valid[y]
  BY <1>1, <1>3 DEF OthersKeep, OwnerKept, Now
<1>8. Shapes' /\ Numbered'
  <2>1. Record(Free)
    BY DEF Record, Free
  <2> QED
    BY <1>1, <1>4, <1>6, <2>1 DEF Shapes, Numbered
<1>9. Given(p)' /\ Locks(p)'
  <2>1. \A y : Holds(p, y)' <=> Holds(p, y)
    BY <1>1 DEF Holds
  <2>2. Where(st'[p]) = Where(t)
    BY <1>1, <1>3 DEF Now, Where, IputLabels
  <2>3. /\ HasDp(st'[p]) <=> HasDp(t)
        /\ HasIp(st'[p]) <=> HasIp(t)
        /\ DpLocked(st'[p]) <=> DpLocked(t)
        /\ IpLocked(st'[p]) <=> IpLocked(t)
        /\ PutLocked(t)
    BY <1>1, <1>3, <2>2 DEF Now, HasDp, HasIp, DpLocked, IpLocked, PutLocked
  <2> QED
    BY <1>1, <1>2, <1>3, <1>4, <2>1, <2>3 DEF Now, Given, Locks, x
<1>10. ASSUME NEW y \in Slots, ref'[y] > 0, valid'[y], ~Dying(y)'
       PROVE  inode'[y] = dinode'[inum'[y]] /\ inode'[y].type # "free"
  <2>1. y # x
    BY <1>3, <1>10 DEF Dying, At, Now
  <2>2. ~Dying(y)
    BY <1>1, <1>7, <1>10, DyingKept DEF At
  <2>3. inum[y] # inum[x]
    BY <1>1, <1>4, <1>5, <1>6, <1>10, <2>1 DEF Unique
  <2> QED
    BY <1>1, <1>6, <1>10, <2>1, <2>2, <2>3 DEF CacheCoherent, Shapes, Numbered
<1>11. ASSUME NEW q \in Procs, NEW y \in {cwd'[q], file'[q]} \ {0}
       PROVE  dinode'[inum'[y]].type # "free"
  <2>1. y \in Slots /\ ref[y] > 0
    <3>1. cwd[q] \in Regs /\ file[q] \in Regs
      BY DEF RefInv, RefType
    <3>2. y \in Slots
      BY <1>1, <1>11, <3>1 DEF Regs, Slots
    <3> QED
      BY <1>1, <1>11, <3>2, Referred
  <2>2. y # x
    BY <1>1, <1>11 DEF CohInv, Spared, PutLocked, x
  <2>3. inum[y] # inum[x] /\ inum[y] \in Inumbers
    BY <1>4, <1>5, <1>6, <2>1, <2>2 DEF Unique, Numbered
  <2>4. dinode[inum[y]].type # "free"
    BY <1>1, <1>6, <1>11 DEF CacheCoherent
  <2> QED
    BY <1>1, <1>6, <2>3, <2>4 DEF Shapes
<1>12. CacheCoherent'
  BY <1>10, <1>11 DEF CacheCoherent
<1>13. Opened(p) /\ PutSpares(p)
  BY <1>1, <1>3 DEF Opened, PutSpares, Now, CohInv, Spared, PutLocked, x
<1>14. \A y \in Slots : ref[y] > 0 /\ ref'[y] > 0 /\ valid[y] /\ owner[y] # p => valid'[y]
  BY <1>7
<1> QED
  BY <1>7, <1>8, <1>9, <1>12, <1>13, <1>14, SparedStep, CohConclude

\* What the step makes of the call of p and its locks.
Settled(p) ==
    /\ \A q \in Procs : q # p => st'[q] = st[q]
    /\ OwnerKept(p) /\ DOMAIN owner' = Slots
    /\ Given(p)' /\ Locks(p)' /\ ~PutLocked(st'[p])

\* No lock of p but that of x changes.
LEMMA Unlocks ==
  ASSUME CohInv, NEW p \in Procs, NEW x, Holds(p, x), iunlock(x)
  PROVE  /\ OwnerKept(p) /\ DOMAIN owner' = Slots
         /\ \A y \in Slots : y # x => owner'[y] = owner[y]
BY DEF CohInv, Shapes, Holds, iunlock, OwnerKept

\* No lock changes.
LEMMA OwnerSame ==
  ASSUME CohInv, NEW p, UNCHANGED owner
  PROVE  OwnerKept(p) /\ DOMAIN owner' = Slots
BY DEF CohInv, Shapes, OwnerKept

\* iput() after ip, or dp, is cleared.
LEMMA PutNowIp ==
  ASSUME RefInv, NEW p \in Procs, NEW y \in Regs, NEW l \in Returns,
         Put(p, [st[p] EXCEPT !.ip = 0], y, l)
  PROVE  Now(p, "iput", st[p].call, st[p].dp, 0, y, l)
<1> DEFINE t == st[p]
           u == [t EXCEPT !.ip = 0]
<1>1. t \in CallState /\ 0 \in Regs
  BY Typing, Constants DEF Regs
<1>2. u \in CallState /\ u.call = t.call /\ u.dp = t.dp /\ u.ip = 0
  BY <1>1, SetReg
<1>3. Put(p, u, y, l)
  OBVIOUS
<1> HIDE DEF u
<1> QED
  BY <1>2, <1>3, PutNow

\* The same for dp, with or without a change of the name.
LEMMA PutNowDp ==
  ASSUME RefInv, NEW p \in Procs, NEW l \in Returns,
         \/ Put(p, [st[p] EXCEPT !.dp = 0], st[p].dp, l)
         \/ Put(p, [st[p] EXCEPT !.dp = 0, !.name = "."], st[p].dp, l)
  PROVE  Now(p, "iput", st[p].call, 0, st[p].ip, st[p].dp, l)
<1> DEFINE t == st[p]
           d == t.dp
<1>1. t \in CallState /\ 0 \in Regs /\ d \in Regs /\ "." \in Entries
  BY Typing, Constants DEF CallState, Regs, Entries
<1>2. PICK u \in CallState : Put(p, u, d, l) /\ u.call = t.call /\ u.dp = 0 /\ u.ip = t.ip
  <2>1. CASE Put(p, [t EXCEPT !.dp = 0], d, l)
    BY <1>1, <2>1, SetReg
  <2>2. CASE Put(p, [t EXCEPT !.dp = 0, !.name = "."], d, l)
    <3> DEFINE v == [t EXCEPT !.dp = 0, !.name = "."]
    <3>1. v \in CallState /\ v.call = t.call /\ v.dp = 0 /\ v.ip = t.ip
      BY <1>1 DEF CallState
    <3> HIDE DEF v
    <3> QED
      BY <2>2, <3>1 DEF v
  <2> QED
    BY <2>1, <2>2
<1> HIDE DEF d
<1>3. Now(p, "iput", t.call, 0, t.ip, d, l)
  BY <1>1, <1>2, PutNow
<1> QED
  BY <1>3 DEF d

\* ip is unlocked, and something goes to iput().
LEMMA ReleaseIp ==
  ASSUME RefInv, CohInv, NEW p \in Procs, IpLocked(st[p]), iunlock(st[p].ip),
         NEW y \in Slots, NEW l \in {"idle", "unlinkbad"}, l = "unlinkbad" => DpLocked(st[p]),
         Put(p, [st[p] EXCEPT !.ip = 0], y, l), UNCHANGED valid, cwd'[p] \in Slots
  PROVE  Settled(p)
<1> DEFINE t == st[p]
<1>3. Now(p, "iput", t.call, t.dp, 0, y, l)
  <2>1. y \in Regs /\ l \in Returns
    BY Constants DEF Regs, Slots, Returns
  <2> QED
    BY <2>1, PutNowIp
<1>4. Holds(p, t.ip) /\ (DpLocked(t) => Holds(p, t.dp) /\ t.dp # t.ip)
  BY DEF CohInv, Locks
<1>5. /\ OwnerKept(p) /\ DOMAIN owner' = Slots
      /\ \A x \in Slots : x # t.ip => owner'[x] = owner[x]
  BY <1>4, Unlocks
<1>6. DpLocked(t) => Holds(p, t.dp)'
  BY <1>3, <1>4, <1>5 DEF Holds, Now
<1>7. Where(st'[p]) = l /\ st'[p].pc = "iput"
  BY <1>3 DEF Now, Where, IputLabels
<1>8. Given(p)'
  BY <1>3, <1>4, <1>7 DEF Now, Given, HasDp, HasIp, Holds
<1>9. Locks(p)' /\ ~PutLocked(st'[p])
  BY <1>3, <1>6, <1>7 DEF Now, Locks, IpLocked, DpLocked, PutLocked
<1> QED
  BY <1>3, <1>5, <1>8, <1>9 DEF Now, Settled

\* dp is unlocked and goes to iput(); ip is kept, with its lock if it has one.
LEMMA ReleaseDp ==
  ASSUME RefInv, CohInv, NEW p \in Procs, DpLocked(st[p]), iunlock(st[p].dp),
         NEW l \in {"idle", "linked", "unlinked", "linkend", "linkbad"},
         l # "idle" => HasIp(st[p]), l \in {"linked", "unlinked"} => IpLocked(st[p]),
         \/ Put(p, [st[p] EXCEPT !.dp = 0], st[p].dp, l)
         \/ Put(p, [st[p] EXCEPT !.dp = 0, !.name = "."], st[p].dp, l),
         UNCHANGED valid, cwd'[p] \in Slots
  PROVE  Settled(p)
<1> DEFINE t == st[p]
           d == t.dp
<1>3. Now(p, "iput", t.call, 0, t.ip, d, l)
  BY PutNowDp DEF Returns
<1>4. /\ Holds(p, d) /\ (IpLocked(t) => Holds(p, t.ip) /\ t.ip # d)
      /\ HasIp(t) => t.ip \in Slots
  BY DEF CohInv, Locks, Given
<1> HIDE DEF d
<1>5. /\ OwnerKept(p) /\ DOMAIN owner' = Slots
      /\ \A x \in Slots : x # d => owner'[x] = owner[x]
  <2>1. iunlock(d)
    BY DEF d
  <2> QED
    BY <1>4, <2>1, Unlocks
<1>6. IpLocked(t) => Holds(p, t.ip)'
  BY <1>3, <1>4, <1>5 DEF Holds, Now
<1>7. Where(st'[p]) = l /\ st'[p].pc = "iput"
  BY <1>3 DEF Now, Where, IputLabels
<1>8. Given(p)'
  BY <1>3, <1>4, <1>7 DEF Now, Given, HasDp, HasIp, Holds
<1>9. Locks(p)' /\ ~PutLocked(st'[p])
  BY <1>3, <1>6, <1>7 DEF Now, Locks, IpLocked, DpLocked, PutLocked
<1> QED
  BY <1>3, <1>5, <1>8, <1>9 DEF Now, Settled

\* A step that leaves the inodes alone.
LEMMA QuietStep ==
  ASSUME RefInv, RefInv', CohInv, NEW p \in Procs, Settled(p), UNCHANGED <<dinode, icache>>,
         \A q \in Procs : q # p => cwd'[q] = cwd[q] /\ file'[q] = file[q],
         dir' \in [Inumbers -> [Entries -> Inumbers \cup {0}]], Opened(p),
         st[p].pc \notin {"ifreed", "panic"}
  PROVE  CohInv'
<1>1. NINODE \in Nat
  BY Constants
<1>2. UNCHANGED <<dinode, inum, ref, valid, inode>>
  BY DEF icache
<1>3. OthersKeep(p) /\ OwnerKept(p) /\ PutSpares(p) /\ Given(p)' /\ Locks(p)'
  BY DEF Settled, OthersKeep, PutSpares
<1>4. DiskKept /\ Shapes'
  BY <1>2 DEF DiskKept, Shapes, CohInv, Settled
<1>5. Fetched(p)
  BY <1>2 DEF Fetched
<1> QED
  BY <1>1, <1>3, <1>4, <1>5, FetchStep

\* iget() changes no entry that is in use, and fills one without a copy.
LEMMA IgetFetches ==
  ASSUME RefInv, CohInv, NEW p, NEW i \in Inumbers, iget(i)
  PROVE  /\ Entry(i) \in Slots /\ Fetched(p)
         /\ valid' \in [Slots -> BOOLEAN] /\ UNCHANGED inode
         /\ \A x \in Slots : ref[x] > 0 => valid'[x] = valid[x]
<1> DEFINE e == Entry(i)
<1>1. /\ Cached(i) # {} \/ \E x \in Slots : ref[x] = 0
      /\ inum' = [inum EXCEPT ![e] = i] /\ ref' = [ref EXCEPT ![e] = @ + 1]
      /\ valid' = [valid EXCEPT ![e] = @ /\ Cached(i) # {}] /\ inode' = inode
  BY DEF iget
<1>2. /\ e \in Slots
      /\ Cached(i) # {} => e \in Cached(i)
      /\ Cached(i) = {} => ref[e] = 0
  BY <1>1, EntryIs
<1> HIDE DEF e
<1>3. ref \in [Slots -> Nat] /\ DOMAIN inum = Slots /\ valid \in [Slots -> BOOLEAN]
  BY DEF RefInv, RefType, CohInv, Shapes
<1>4. /\ valid' \in [Slots -> BOOLEAN] /\ valid'[e] = (valid[e] /\ Cached(i) # {})
      /\ inum'[e] = i
      /\ \A x \in Slots : x # e => valid'[x] = valid[x] /\ ref'[x] = ref[x] /\ inum'[x] = inum[x]
  BY <1>1, <1>2, <1>3
<1>5. Cached(i) # {} => ref[e] > 0 /\ inum[e] = i
  BY <1>2 DEF Cached
<1>6. Fetched(p)
  <2>1. ASSUME NEW x \in Slots, ref'[x] > 0
        PROVE  /\ IF ref[x] > 0 THEN inum'[x] = inum[x] ELSE inum'[x] \in Inumbers
               /\ \/ ref[x] > 0 /\ valid'[x] = valid[x] /\ inode'[x] = inode[x]
                  \/ ~valid'[x] /\ (ref[x] > 0 => owner[x] = p)
    <3>1. CASE x # e
      BY <1>1, <1>4, <2>1, <3>1
    <3>2. CASE x = e /\ Cached(i) # {}
      <4>1. valid[e] \in BOOLEAN /\ inode'[x] = inode[x] /\ ref[x] > 0 /\ inum'[x] = inum[x]
        BY <1>1, <1>2, <1>3, <1>4, <1>5, <3>2
      <4>2. valid'[e] = valid[e]
        BY <1>4, <3>2, <4>1
      <4> QED
        BY <3>2, <4>1, <4>2
    <3>3. CASE x = e /\ Cached(i) = {}
      BY <1>2, <1>4, <3>3
    <3> QED
      BY <3>1, <3>2, <3>3
  <2> QED
    BY <2>1 DEF Fetched
<1> QED
  BY <1>1, <1>2, <1>3, <1>4, <1>5, <1>6 DEF e

\* The same, with the files and directories of p as they are.
LEMMA QuietHeld ==
  ASSUME RefInv, RefInv', CohInv, NEW p \in Procs, Settled(p), UNCHANGED <<ondisk, icache, held>>,
         st[p].pc \notin {"ifreed", "panic"}
  PROVE  CohInv'
<1>1. UNCHANGED <<dinode, dir, icache, cwd, file>>
  BY DEF ondisk, held
<1>2. dir' \in [Inumbers -> [Entries -> Inumbers \cup {0}]] /\ Opened(p)
  BY <1>1 DEF CohInv, Shapes, Opened
<1> QED
  BY <1>1, <1>2, QuietStep

\* A step that takes a reference.
LEMMA TakeCoherent ==
  ASSUME RefInv, RefInv', CohInv, NEW p \in Procs, Settled(p), NEW i \in Inumbers, iget(i),
         UNCHANGED <<ondisk, held>>, st[p].pc \notin {"ifreed", "panic"}
  PROVE  CohInv'
<1>1. NINODE \in Nat
  BY Constants
<1>2. UNCHANGED <<dinode, dir, cwd, file>>
  BY DEF ondisk, held
<1>3. Fetched(p) /\ valid' \in [Slots -> BOOLEAN] /\ UNCHANGED inode
  BY IgetFetches
<1>4. OthersKeep(p) /\ OwnerKept(p) /\ PutSpares(p) /\ Given(p)' /\ Locks(p)' /\ Opened(p)
  BY <1>2 DEF Settled, OthersKeep, PutSpares, Opened
<1>5. DiskKept /\ Shapes'
  BY <1>2, <1>3 DEF DiskKept, Shapes, CohInv, Settled
<1> QED
  BY <1>1, <1>3, <1>4, <1>5, FetchStep

\* What a directory in the cache has under a name.
LEMMA LookupIs ==
  ASSUME CohInv, NEW x \in Slots, ref[x] > 0, NEW n \in Entries, Lookup(x, n) # 0
  PROVE  Lookup(x, n) \in Inumbers
BY DEF Lookup, CohInv, Shapes, Numbered

\* ilock() in a call.
LEMMA LockSettles ==
  ASSUME RefInv, RefInv', CohInv, NEW p \in Procs, LockInode(p) \/ NamexLock(p)
  PROVE  CohInv'
<1> DEFINE t == st[p]
<1>1. PICK y, l : /\ Lock(p, y, l)
                  /\ \/ t.pc \in DOMAIN LockAt /\ l = LockAt[t.pc] /\ y = LockArg(p)
                     \/ t.pc = "namex" /\ l = "walk" /\ y = Walker(p)
  BY DEF LockInode, NamexLock, At
<1>2. PICK m : Goto(p, t, m) /\ m = IF inode'[y].type = "free" THEN "panic" ELSE l
  BY <1>1 DEF Lock
<1>3. t \in CallState /\ Given(p) /\ Locks(p) /\ NINODE \in Nat /\ NULL \notin Procs
  BY Typing, Constants, SysFileAssumption DEF CohInv
<1>4. Now(p, m, t.call, t.dp, t.ip, t.put, t.ret)
  BY <1>2, <1>3, GotoNow
<1>5. /\ t.pc \in DOMAIN LockAt \cup {"namex"} /\ Where(t) = t.pc /\ t.pc \notin IputLabels
      /\ m \in {"panic", l}
  BY <1>1, <1>2 DEF LockAt, Where, IputLabels
<1>6. ilock(p, y) /\ UNCHANGED <<ondisk, held>>
  BY <1>1 DEF Lock
<1>7. y = IF t.pc \in OfDp \/ (t.pc = "namex" /\ t.call = "link2") THEN t.dp ELSE t.ip
  BY <1>1 DEF LockArg, Walker, OfDp, LockAt
<1>8. y \in Slots
  BY <1>3, <1>5, <1>7 DEF Given, HasDp, HasIp, OfDp, LockAt
<1>9. ref[y] > 0
  BY <1>7, <1>8, Referred
<1>10. /\ Holds(p, y)' /\ owner[y] = NULL
       /\ \A x : Holds(p, x) => x # y /\ x \in Slots /\ owner'[x] = p /\ valid'[x]
  BY <1>3, <1>6, <1>8 DEF ilock, Holds, CohInv, Shapes
<1>11. OthersKeep(p) /\ cwd' = cwd
  BY <1>4, <1>6 DEF OthersKeep, Now, held
<1>12. Where(st'[p]) = m /\ m \notin IputLabels
  BY <1>1, <1>4, <1>5 DEF Now, Where, IputLabels, LockAt
<1>13. CASE m = "panic"
  <2>1. Given(p)' /\ Locks(p)' /\ ~PutLocked(st'[p])
    BY <1>3, <1>4, <1>11, <1>12, <1>13
       DEF Now, Given, Locks, HasDp, HasIp, IpLocked, DpLocked, PutLocked, IputLabels
  <2> QED
    BY <1>3, <1>4, <1>5, <1>6, <1>8, <1>9, <1>11, <1>13, <2>1, LockCoherent
       DEF Now, LockAt
<1>14. CASE m = l
  <2>1. Given(p)' /\ ~PutLocked(st'[p])
    BY <1>1, <1>3, <1>4, <1>5, <1>11, <1>12, <1>14
       DEF Now, Given, HasDp, HasIp, PutLocked, IputLabels, LockAt
  <2>2. DpLocked(st'[p]) => st'[p].dp = y \/ Holds(p, st[p].dp)
    BY <1>1, <1>3, <1>4, <1>5, <1>7, <1>12, <1>14 DEF Now, Locks, DpLocked, OfDp, LockAt
  <2>3. IpLocked(st'[p]) => st'[p].ip = y
    BY <1>1, <1>3, <1>4, <1>5, <1>7, <1>12, <1>14 DEF Now, Locks, IpLocked, OfDp, LockAt
  <2>4. IpLocked(st'[p]) /\ DpLocked(st'[p]) => Holds(p, st[p].dp)
    BY <1>1, <1>3, <1>4, <1>5, <1>7, <1>12, <1>14
       DEF Now, Locks, IpLocked, DpLocked, OfDp, LockAt
  <2>5. Locks(p)'
    BY <1>4, <1>8, <1>10, <2>1, <2>2, <2>3, <2>4 DEF Now, Locks, Holds
  <2> QED
    BY <1>2, <1>3, <1>4, <1>5, <1>6, <1>8, <1>9, <1>11, <1>14, <2>1, <2>5, LockCoherent
       DEF Now, LockAt
<1> QED
  BY <1>5, <1>13, <1>14

\* namex() at the end of the path.
LEMMA NamexEndSettles ==
  ASSUME RefInv, RefInv', CohInv, NEW p \in Procs, NamexEnd(p)
  PROVE  CohInv'
<1> DEFINE t == st[p]
<1>1. /\ t.pc = "namex" /\ UNCHANGED <<ondisk, icache, owner, held>> /\ UNCHANGED <<valid, cwd>>
      /\ IF Parent(p) THEN Put(p, Walk(p, 0), Walker(p), Failed(p)) ELSE Goto(p, t, t.call)
  BY DEF NamexEnd, At, icache, held
<1>2. t \in CallState /\ Given(p) /\ "linkbad" \in Returns /\ "idle" \in Returns /\ t.ip \in Regs
  BY Typing DEF CohInv, Returns, CallState
<1>3. Where(t) = "namex" /\ t.ip \in Slots /\ (t.call = "link2" => t.dp \in Slots)
  BY <1>1, <1>2 DEF Where, IputLabels, Given, HasIp, HasDp
<1>4. CASE Parent(p) /\ t.call = "link2"
  <2>1. Put(p, [t EXCEPT !.dp = 0], t.dp, "linkbad")
    BY <1>1, <1>4 DEF Walk, Walker, Failed
  <2>2. Now(p, "iput", t.call, 0, t.ip, t.dp, "linkbad")
    BY <1>2, <2>1, PutNowDp
  <2>3. Where(st'[p]) = "linkbad"
    BY <2>2 DEF Now, Where, IputLabels
  <2>4. Settled(p)
    BY <1>1, <1>2, <1>3, <1>4, <2>2, <2>3, OwnerSame
       DEF Now, Settled, Given, Locks, HasDp, HasIp, IpLocked, DpLocked, PutLocked
  <2> QED
    BY <1>1, <2>4, QuietHeld
<1>5. CASE Parent(p) /\ t.call # "link2"
  <2>1. Put(p, [t EXCEPT !.ip = 0], t.ip, "idle")
    BY <1>1, <1>5 DEF Walk, Walker, Failed
  <2>2. Now(p, "iput", t.call, t.dp, 0, t.ip, "idle")
    BY <1>2, <2>1, PutNowIp
  <2>3. Where(st'[p]) = "idle"
    BY <2>2 DEF Now, Where, IputLabels
  <2>4. Settled(p)
    BY <1>1, <1>2, <1>3, <1>5, <2>2, <2>3, OwnerSame
       DEF Now, Settled, Given, Locks, HasDp, HasIp, IpLocked, DpLocked, PutLocked
  <2> QED
    BY <1>1, <2>4, QuietHeld
<1>6. CASE ~Parent(p)
  <2> DEFINE l == t.call
  <2>1. Goto(p, t, l) /\ l \in {"", "open", "link", "chdir"}
    BY <1>1, <1>2, <1>6 DEF Parent, CallState, Callings
  <2> HIDE DEF l
  <2>2. Now(p, l, t.call, t.dp, t.ip, t.put, t.ret)
    BY <1>2, <2>1, GotoNow
  <2>3. Where(st'[p]) = l /\ l \notin IputLabels
    BY <2>1, <2>2 DEF Now, Where, IputLabels
  <2>4. Settled(p)
    BY <1>1, <1>2, <1>3, <2>1, <2>2, <2>3, OwnerSame
       DEF Now, Settled, Given, Locks, HasDp, HasIp, IpLocked, DpLocked, PutLocked
  <2> QED
    BY <1>1, <2>4, QuietHeld
<1> QED
  BY <1>4, <1>5, <1>6

\* iput() tests the inode: it keeps the lock of one that nobody else can reach.
LEMMA IputLockSettles ==
  ASSUME RefInv, RefInv', CohInv, NEW p \in Procs, IputLock(p)
  PROVE  CohInv'
<1> DEFINE t == st[p]
           x == t.put
<1>1. /\ t.pc = "iput" /\ owner[x] = NULL /\ UNCHANGED <<ondisk, icache, held>>
      /\ \/ Unlinked(x) /\ owner' = [owner EXCEPT ![x] = p] /\ Goto(p, t, "ifree")
         \/ UNCHANGED owner /\ Goto(p, t, "idec")
  BY DEF IputLock, At
<1>2. t \in CallState /\ Given(p) /\ Locks(p) /\ x \in Slots /\ NINODE \in Nat /\ NULL \notin Procs
  BY <1>1, Typing, Constants, SysFileAssumption DEF CohInv, Given, IputLabels
<1>3. UNCHANGED <<dinode, dir, inum, ref, valid, inode, cwd, file>>
  BY <1>1 DEF ondisk, icache, held
<1>4. ASSUME NEW l \in {"ifree", "idec"}, Now(p, l, t.call, t.dp, t.ip, x, t.ret)
      PROVE  /\ HasDp(st'[p]) <=> HasDp(t)
             /\ HasIp(st'[p]) <=> HasIp(t)
             /\ DpLocked(st'[p]) <=> DpLocked(t)
             /\ IpLocked(st'[p]) <=> IpLocked(t)
             /\ PutLocked(st'[p]) <=> l = "ifree"
  <2>1. Where(st'[p]) = Where(t)
    BY <1>1, <1>4 DEF Now, Where, IputLabels
  <2> QED
    BY <1>4, <2>1 DEF Now, HasDp, HasIp, DpLocked, IpLocked, PutLocked
<1>5. CASE UNCHANGED owner /\ Goto(p, t, "idec")
  <2>1. Now(p, "idec", t.call, t.dp, t.ip, x, t.ret)
    BY <1>2, <1>5, GotoNow
  <2>2. \A y : Holds(p, y)' <=> Holds(p, y)
    BY <1>3, <1>5 DEF Holds
  <2>3. Given(p)' /\ Locks(p)' /\ ~PutLocked(st'[p])
    BY <1>2, <1>3, <1>4, <2>1, <2>2 DEF Now, Given, Locks, IputLabels
  <2>4. Settled(p)
    BY <1>5, <2>1, <2>3, OwnerSame DEF Settled, Now
  <2> QED
    BY <1>1, <2>4, QuietHeld
<1>6. CASE Unlinked(x) /\ owner' = [owner EXCEPT ![x] = p] /\ Goto(p, t, "ifree")
  <2>1. Now(p, "ifree", t.call, t.dp, t.ip, x, t.ret)
    BY <1>2, <1>6, GotoNow
  <2>2. ref[x] = 1 /\ valid[x]
    BY <1>6 DEF Unlinked
  <2>3. /\ owner'[x] = p /\ DOMAIN owner' = Slots
        /\ \A y \in Slots : y # x => owner'[y] = owner[y]
    BY <1>2, <1>6 DEF CohInv, Shapes
  <2>4. /\ \A y : Holds(p, y) => y # x /\ y \in Slots /\ owner'[y] = p /\ valid'[y]
        /\ x \in Slots /\ valid'[x]
    BY <1>1, <1>2, <1>3, <2>2, <2>3 DEF Holds
  <2>5. Given(p)' /\ Locks(p)'
    <3>1. st'[p].put = x /\ st'[p].dp = t.dp /\ st'[p].ip = t.ip /\ st'[p].pc = "ifree"
      BY <2>1 DEF Now
    <3> HIDE DEF x
    <3> QED
      BY <1>2, <1>3, <1>4, <2>1, <2>3, <2>4, <3>1 DEF Given, Locks, IputLabels, Holds
  <2>6. OthersKeep(p) /\ OwnerKept(p)
    BY <1>1, <1>3, <2>1, <2>3 DEF Now, OthersKeep, OwnerKept
  <2>7. DiskKept /\ Shapes' /\ Fetched(p) /\ Opened(p)
    BY <1>3, <2>3 DEF DiskKept, Shapes, CohInv, Fetched, Opened
  <2>8. PutSpares(p)
    BY <1>2, <1>3, <2>1, <2>2, LastReference DEF Now, PutSpares
  <2> QED
    BY <1>1, <1>2, <2>5, <2>6, <2>7, <2>8, FetchStep
<1> QED
  BY <1>1, <1>5, <1>6

\* iput() of an inode that is free now: the entry has no copy any more.
LEMMA IputUnlockSettles ==
  ASSUME RefInv, RefInv', CohInv, NEW p \in Procs, IputUnlock(p)
  PROVE  CohInv'
<1> DEFINE t == st[p]
           x == t.put
<1>1. /\ t.pc = "ifreed" /\ valid' = [valid EXCEPT ![x] = FALSE] /\ iunlock(x)
      /\ Goto(p, t, "idec") /\ UNCHANGED <<dinode, dir, inum, ref, inode, cwd, file>>
  BY DEF IputUnlock, At, Invalid, ondisk, held
<1>2. t \in CallState /\ Given(p) /\ Locks(p) /\ Holds(p, x) /\ NINODE \in Nat
  BY <1>1, Typing, Constants DEF CohInv, Locks, PutLocked
<1>3. Now(p, "idec", t.call, t.dp, t.ip, x, t.ret)
  BY <1>1, <1>2, GotoNow
<1>4. /\ OwnerKept(p) /\ DOMAIN owner' = Slots
      /\ \A y \in Slots : y # x => owner'[y] = owner[y]
  BY <1>1, <1>2, Unlocks
<1> HIDE DEF x
<1>5. /\ valid' \in [Slots -> BOOLEAN] /\ ~valid'[x] /\ x \in Slots /\ owner[x] = p
      /\ \A y \in Slots : y # x => valid'[y] = valid[y]
  BY <1>1, <1>2 DEF Holds, CohInv, Shapes
<1>6. /\ HasDp(st'[p]) <=> HasDp(t)
      /\ HasIp(st'[p]) <=> HasIp(t)
      /\ DpLocked(st'[p]) <=> DpLocked(t)
      /\ IpLocked(st'[p]) <=> IpLocked(t)
      /\ ~PutLocked(st'[p]) /\ PutLocked(t)
  <2>1. Where(st'[p]) = Where(t)
    BY <1>1, <1>3 DEF Now, Where, IputLabels
  <2> QED
    BY <1>1, <1>3, <2>1 DEF Now, HasDp, HasIp, DpLocked, IpLocked, PutLocked
<1>7. \A y : Holds(p, y) /\ y # x => y \in Slots /\ owner'[y] = p /\ valid'[y]
  BY <1>4, <1>5 DEF Holds
<1>8. Given(p)' /\ Locks(p)'
  BY <1>1, <1>2, <1>3, <1>5, <1>6, <1>7 DEF Now, Given, Locks, IputLabels, Holds, x
<1>9. OthersKeep(p) /\ Opened(p) /\ PutSpares(p)
  BY <1>1, <1>3, <1>6 DEF Now, OthersKeep, Opened, PutSpares
<1>10. DiskKept /\ Shapes'
  BY <1>1, <1>4, <1>5 DEF DiskKept, Shapes, CohInv
<1>11. Fetched(p)
  <2>1. \A y \in Slots : y # x => valid'[y] = valid[y] /\ inode'[y] = inode[y]
    BY <1>1, <1>5
  <2>2. \A y \in Slots : ref'[y] = ref[y] /\ inum'[y] = inum[y]
    BY <1>1
  <2> QED
    BY <1>5, <2>1, <2>2 DEF Fetched
<1>12. t.pc # "panic" /\ ~valid'[t.put]
  BY <1>1, <1>5 DEF x
<1> QED
  BY <1>2, <1>4, <1>8, <1>9, <1>10, <1>11, <1>12, FetchStep

\* iput() gives its reference back and returns.
LEMMA IputDecSettles ==
  ASSUME RefInv, RefInv', CohInv, NEW p \in Procs, IputDec(p)
  PROVE  CohInv'
<1> DEFINE t == st[p]
           x == t.put
<1>1. /\ t.pc = "idec" /\ UNCHANGED <<dinode, dir, valid, owner, cwd, file>>
      /\ ref' = [ref EXCEPT ![x] = ref[x] - 1]
      /\ inum' = [inum EXCEPT ![x] = IF ref[x] = 1 THEN 0 ELSE inum[x]]
      /\ inode' = [inode EXCEPT ![x] = IF ref[x] = 1 THEN Free ELSE inode[x]]
      /\ IF t.ret = "idle" THEN st' = [st EXCEPT ![p] = Idle]
                           ELSE Goto(p, [t EXCEPT !.put = 0, !.ret = "idle"], t.ret)
  BY DEF IputDec, At, ondisk, held
<1>2. /\ t \in CallState /\ Given(p) /\ Locks(p) /\ x \in Slots /\ NINODE \in Nat
      /\ st \in [Procs -> CallState]
  BY <1>1, Typing, Constants DEF CohInv, Given, IputLabels
<1>3. /\ \A q \in Procs : q # p => st'[q] = st[q]
      /\ st'[p].pc = t.ret /\ st'[p].put = 0
      /\ t.ret # "idle" => st'[p].call = t.call /\ st'[p].dp = t.dp /\ st'[p].ip = t.ip
  <2>1. CASE t.ret = "idle"
    <3>1. st'[p] = Idle /\ \A q \in Procs : q # p => st'[q] = st[q]
      BY <1>1, <1>2, <2>1
    <3>2. Idle.pc = "idle" /\ Idle.put = 0
      BY DEF Idle
    <3> QED
      BY <2>1, <3>1, <3>2
  <2>2. CASE t.ret # "idle"
    <3> DEFINE u == [t EXCEPT !.put = 0, !.ret = "idle"]
    <3>1. u \in CallState /\ u.call = t.call /\ u.dp = t.dp /\ u.ip = t.ip /\ u.put = 0
      <4>1. 0 \in Regs /\ "idle" \in Returns
        BY <1>2 DEF Regs, Returns
      <4> QED
        BY <1>2, <4>1 DEF CallState
    <3>2. Goto(p, u, t.ret)
      BY <1>1, <2>2
    <3> HIDE DEF u
    <3>3. Now(p, t.ret, u.call, u.dp, u.ip, u.put, u.ret)
      BY <3>1, <3>2, GotoNow
    <3> QED
      BY <3>1, <3>3 DEF Now
  <2> QED
    BY <2>1, <2>2
<1>4. t.ret \in Returns /\ Where(t) = t.ret /\ Where(st'[p]) = t.ret /\ t.ret \notin IputLabels
  BY <1>1, <1>2, <1>3 DEF CallState, Where, IputLabels, Returns
<1>5. \A y : Holds(p, y)' <=> Holds(p, y)
  BY <1>1 DEF Holds
<1>6. Given(p)' /\ Locks(p)' /\ ~PutLocked(st'[p])
  <2>1. CASE t.ret = "idle"
    BY <1>1, <1>2, <1>3, <1>4, <2>1
       DEF Given, Locks, HasDp, HasIp, IpLocked, DpLocked, PutLocked, IputLabels
  <2>2. CASE t.ret # "idle"
    <3>1. /\ HasDp(st'[p]) <=> HasDp(t)
          /\ HasIp(st'[p]) <=> HasIp(t)
          /\ DpLocked(st'[p]) <=> DpLocked(t)
          /\ IpLocked(st'[p]) <=> IpLocked(t)
          /\ ~PutLocked(st'[p])
      BY <1>3, <1>4, <2>2 DEF HasDp, HasIp, DpLocked, IpLocked, PutLocked, IputLabels
    <3> QED
      BY <1>1, <1>2, <1>3, <1>4, <1>5, <2>2, <3>1 DEF Given, Locks
  <2> QED
    BY <2>1, <2>2
<1> HIDE DEF x
<1>7. OthersKeep(p) /\ OwnerKept(p) /\ Opened(p) /\ PutSpares(p)
  BY <1>1, <1>3, <1>6 DEF OthersKeep, OwnerKept, Opened, PutSpares
<1>8. ref \in [Slots -> Nat] /\ DOMAIN inum = Slots /\ DOMAIN inode = Slots
  BY DEF RefInv, RefType, CohInv, Shapes
<1>9. DiskKept /\ Shapes'
  <2>1. Record(Free)
    BY DEF Record, Free
  <2> QED
    BY <1>1, <1>8, <2>1 DEF DiskKept, Shapes, CohInv
<1>10. Fetched(p)
  <2>1. ASSUME NEW y \in Slots, ref'[y] > 0
        PROVE  ref[y] > 0 /\ inum'[y] = inum[y] /\ inode'[y] = inode[y]
    BY <1>1, <1>2, <1>8, <2>1
  <2> QED
    BY <1>1, <2>1 DEF Fetched
<1> QED
  BY <1>1, <1>2, <1>6, <1>7, <1>9, <1>10, FetchStep

\* The steps of open and create on a locked inode: on to the file, or back
\* with the reference.
LEMMA OpenSettles ==
  ASSUME RefInv, RefInv', CohInv, NEW p \in Procs, OpenCheck(p) \/ CreateExists(p) \/ CreateEnd(p)
  PROVE  CohInv'
<1> DEFINE t == st[p]
<1>1. /\ t.pc \in {"opened", "exists1", "linked"} /\ UNCHANGED <<ondisk, icache, held>>
      /\ \/ Goto(p, t, "openfile") /\ UNCHANGED owner
         \/ Iunlockput(p, [t EXCEPT !.ip = 0], t.ip, "idle")
  BY DEF OpenCheck, CreateExists, CreateEnd, At
<1>2. t \in CallState /\ Given(p) /\ Locks(p) /\ UNCHANGED <<valid, cwd>>
  BY <1>1, Typing DEF CohInv, icache, held
<1>3. Where(t) = t.pc /\ t.pc \notin IputLabels /\ IpLocked(t)
  BY <1>1 DEF Where, IputLabels, IpLocked
<1>4. Holds(p, t.ip) /\ t.ip \in Slots /\ cwd[p] \in Slots
  BY <1>2, <1>3 DEF Locks, Holds, Given
<1>5. CASE Iunlockput(p, [t EXCEPT !.ip = 0], t.ip, "idle")
  <2>1. Settled(p)
    BY <1>2, <1>3, <1>4, <1>5, ReleaseIp DEF Iunlockput
  <2> QED
    BY <1>1, <2>1, QuietHeld
<1>6. CASE Goto(p, t, "openfile") /\ UNCHANGED owner
  <2>1. Now(p, "openfile", t.call, t.dp, t.ip, t.put, t.ret)
    BY <1>2, <1>6, GotoNow
  <2>2. Where(st'[p]) = "openfile"
    BY <2>1 DEF Now, Where, IputLabels
  <2>3. \A y : Holds(p, y)' <=> Holds(p, y)
    BY <1>2, <1>6 DEF Holds
  <2>4. Settled(p)
    BY <1>2, <1>4, <1>6, <2>1, <2>2, <2>3, OwnerSame
       DEF Now, Settled, Given, Locks, HasDp, HasIp, IpLocked, DpLocked, PutLocked, IputLabels
  <2> QED
    BY <1>1, <2>4, QuietHeld
<1> QED
  BY <1>1, <1>5, <1>6

\* sys_close(): the reference of the file goes to iput().
LEMMA CloseSettles ==
  ASSUME RefInv, RefInv', CohInv, NEW p \in Procs, CloseFile(p)
  PROVE  CohInv'
<1> DEFINE t == st[p]
           y == file[p]
<1>1. /\ t.pc = "idle" /\ y # 0 /\ Put(p, t, y, "idle") /\ file' = [file EXCEPT ![p] = 0]
      /\ UNCHANGED <<dinode, dir, icache, owner, cwd>>
  BY DEF CloseFile, At, ondisk
<1>2. /\ t \in CallState /\ Given(p) /\ Locks(p) /\ y \in Regs /\ "idle" \in Returns
      /\ file \in [Procs -> Regs]
  BY Typing DEF CohInv, Returns, RefInv, RefType
<1>3. y \in Slots
  BY <1>1, <1>2 DEF Regs, Slots
<1> HIDE DEF y
<1>4. Now(p, "iput", t.call, t.dp, t.ip, y, "idle")
  BY <1>1, <1>2, PutNow
<1>5. Where(st'[p]) = "idle"
  BY <1>4 DEF Now, Where, IputLabels
<1>6. Settled(p)
  BY <1>1, <1>2, <1>3, <1>4, <1>5, OwnerSame
     DEF Now, Settled, Given, Locks, HasDp, HasIp, IpLocked, DpLocked, PutLocked
<1>7. \A q \in Procs : q # p => cwd'[q] = cwd[q] /\ file'[q] = file[q]
  BY <1>1, <1>2
<1>8. dir' \in [Inumbers -> [Entries -> Inumbers \cup {0}]] /\ Opened(p)
  BY <1>1, <1>2 DEF CohInv, Shapes, Opened
<1> QED
  BY <1>1, <1>6, <1>7, <1>8, QuietStep

\* sys_open(): the file takes the reference, or it is given back.
LEMMA OpenEndSettles ==
  ASSUME RefInv, RefInv', CohInv, NEW p \in Procs, OpenEnd(p)
  PROVE  CohInv'
<1> DEFINE t == st[p]
<1>1. /\ t.pc = "openfile" /\ UNCHANGED <<dinode, dir, icache, cwd>> /\ UNCHANGED <<ondisk, valid>>
      /\ \/ /\ file' = [file EXCEPT ![p] = t.ip] /\ iunlock(t.ip)
            /\ st' = [st EXCEPT ![p] = Idle]
         \/ Iunlockput(p, [t EXCEPT !.ip = 0], t.ip, "idle") /\ UNCHANGED file
  BY DEF OpenEnd, At, ondisk, icache
<1>2. /\ t \in CallState /\ Given(p) /\ Locks(p) /\ file \in [Procs -> Regs]
      /\ st \in [Procs -> CallState]
  BY <1>1, Typing DEF CohInv, RefInv, RefType
<1>3. Where(t) = t.pc /\ IpLocked(t)
  BY <1>1 DEF Where, IputLabels, IpLocked
<1>4. Holds(p, t.ip) /\ t.ip \in Slots /\ cwd[p] \in Slots
  BY <1>2, <1>3 DEF Locks, Holds, Given
<1>5. CASE Iunlockput(p, [t EXCEPT !.ip = 0], t.ip, "idle") /\ UNCHANGED file
  <2>1. Settled(p)
    BY <1>1, <1>3, <1>4, <1>5, ReleaseIp DEF Iunlockput
  <2>2. UNCHANGED held
    BY <1>1, <1>5 DEF held
  <2> QED
    BY <1>1, <2>1, <2>2, QuietHeld
<1>6. CASE /\ file' = [file EXCEPT ![p] = t.ip] /\ iunlock(t.ip)
           /\ st' = [st EXCEPT ![p] = Idle]
  <2>1. /\ st'[p] = Idle /\ file'[p] = t.ip
        /\ \A q \in Procs : q # p => st'[q] = st[q] /\ file'[q] = file[q]
    BY <1>2, <1>6
  <2>2. st'[p].pc = "idle" /\ Where(st'[p]) = "idle"
    <3>1. Idle.pc = "idle"
      BY DEF Idle
    <3> QED
      BY <2>1, <3>1 DEF Where, IputLabels
  <2>3. Given(p)' /\ Locks(p)' /\ ~PutLocked(st'[p])
    BY <1>1, <1>4, <2>2
       DEF Given, Locks, HasDp, HasIp, IpLocked, DpLocked, PutLocked, IputLabels
  <2>4. Settled(p)
    BY <1>4, <1>6, <2>1, <2>3, Unlocks DEF Settled
  <2>5. dir' \in [Inumbers -> [Entries -> Inumbers \cup {0}]] /\ Opened(p)
    BY <1>1, <1>4, <2>1 DEF CohInv, Shapes, Opened
  <2> QED
    BY <1>1, <2>1, <2>4, <2>5, QuietStep
<1> QED
  BY <1>1, <1>5, <1>6

\* sys_chdir(): the new directory is unlocked, the old one goes to iput().
LEMMA ChdirSettles ==
  ASSUME RefInv, RefInv', CohInv, NEW p \in Procs, Chdir(p)
  PROVE  CohInv'
<1> DEFINE t == st[p]
<1>1. /\ t.pc = "chdired" /\ UNCHANGED <<dinode, dir, icache, file>> /\ UNCHANGED <<ondisk, valid>>
      /\ \/ /\ cwd' = [cwd EXCEPT ![p] = t.ip] /\ iunlock(t.ip)
            /\ Put(p, [t EXCEPT !.ip = 0], cwd[p], "idle")
         \/ Iunlockput(p, [t EXCEPT !.ip = 0], t.ip, "idle") /\ UNCHANGED cwd
  BY DEF Chdir, At, ondisk, icache
<1>2. Given(p) /\ Locks(p) /\ cwd \in [Procs -> Regs]
  BY DEF CohInv, RefInv, RefType
<1>3. Where(t) = t.pc /\ IpLocked(t)
  BY <1>1 DEF Where, IputLabels, IpLocked
<1>4. Holds(p, t.ip) /\ t.ip \in Slots /\ cwd[p] \in Slots
  BY <1>2, <1>3 DEF Locks, Holds, Given
<1>5. CASE Iunlockput(p, [t EXCEPT !.ip = 0], t.ip, "idle") /\ UNCHANGED cwd
  <2>1. Settled(p)
    BY <1>1, <1>3, <1>4, <1>5, ReleaseIp DEF Iunlockput
  <2>2. UNCHANGED held
    BY <1>1, <1>5 DEF held
  <2> QED
    BY <1>1, <2>1, <2>2, QuietHeld
<1>6. CASE /\ cwd' = [cwd EXCEPT ![p] = t.ip] /\ iunlock(t.ip)
           /\ Put(p, [t EXCEPT !.ip = 0], cwd[p], "idle")
  <2>1. cwd'[p] = t.ip /\ \A q \in Procs : q # p => cwd'[q] = cwd[q]
    BY <1>2, <1>6
  <2>2. Settled(p)
    BY <1>1, <1>3, <1>4, <1>6, <2>1, ReleaseIp
  <2>3. dir' \in [Inumbers -> [Entries -> Inumbers \cup {0}]] /\ Opened(p)
    BY <1>1, <1>4, <2>1 DEF CohInv, Shapes, Opened
  <2>4. \A q \in Procs : q # p => cwd'[q] = cwd[q] /\ file'[q] = file[q]
    BY <1>1, <2>1
  <2> QED
    BY <1>1, <2>2, <2>3, <2>4, QuietStep
<1> QED
  BY <1>1, <1>5, <1>6

\* The steps that only release an inode.
LEMMA ReleaseSettles ==
  ASSUME RefInv, RefInv', CohInv, NEW p \in Procs, UnlinkBad(p) \/ LinkExists(p) \/ LinkEnd(p)
  PROVE  CohInv'
<1> DEFINE t == st[p]
<1>1. /\ t.pc \in {"unlinkbad", "linkexists", "linkend"} /\ UNCHANGED <<ondisk, icache, held>>
  BY DEF UnlinkBad, LinkExists, LinkEnd, At
<1>2. Given(p) /\ Locks(p) /\ t.ip \in Regs /\ UNCHANGED <<valid, cwd>> /\ cwd[p] \in Slots
  BY <1>1, Typing DEF CohInv, CallState, icache, held, Given
<1>3. Where(t) = t.pc
  BY <1>1 DEF Where, IputLabels
<1>4. Settled(p)
  <2>1. CASE UnlinkBad(p)
    <3>1. /\ DpLocked(t) /\ iunlock(t.dp) /\ Put(p, [t EXCEPT !.dp = 0], t.dp, "idle")
      BY <1>3, <2>1 DEF UnlinkBad, At, Iunlockput, DpLocked
    <3> QED
      BY <1>2, <3>1, ReleaseDp
  <2>2. CASE LinkExists(p)
    <3>1. /\ DpLocked(t) /\ HasIp(t) /\ iunlock(t.dp)
          /\ Put(p, [t EXCEPT !.dp = 0], t.dp, "linkbad")
      BY <1>3, <2>2 DEF LinkExists, At, Iunlockput, DpLocked, HasIp
    <3> QED
      BY <1>2, <3>1, ReleaseDp
  <2>3. CASE LinkEnd(p)
    <3>1. Put(p, [t EXCEPT !.ip = 0], t.ip, "idle") /\ UNCHANGED owner /\ t.pc = "linkend"
      BY <2>3 DEF LinkEnd, At
    <3>2. Now(p, "iput", t.call, t.dp, 0, t.ip, "idle")
      BY <1>2, <3>1, PutNowIp DEF Returns
    <3>3. Where(st'[p]) = "idle"
      BY <3>2 DEF Now, Where, IputLabels
    <3>4. t.ip \in Slots
      BY <1>2, <1>3, <3>1 DEF Given, HasIp
    <3> QED
      BY <1>2, <3>1, <3>2, <3>3, <3>4, OwnerSame
         DEF Now, Settled, Given, Locks, HasDp, HasIp, IpLocked, DpLocked, PutLocked
  <2> QED
    BY <2>1, <2>2, <2>3
<1> QED
  BY <1>1, <1>4, QuietHeld

\* A call begins.
LEMMA StartSettles ==
  ASSUME RefInv, RefInv', CohInv, NEW p \in Procs, NEW c \in Calls[p], Start(p, c)
  PROVE  CohInv'
<1> DEFINE t == st[p]
           y == IF c.abs THEN Entry(ROOTINO) ELSE cwd[p]
           u == [t EXCEPT !.call = c.call, !.path = c.path, !.new = c.new, !.ip = y]
<1>1. /\ t.pc = "idle" /\ UNCHANGED <<ondisk, owner, held>> /\ Goto(p, u, "namex")
      /\ UNCHANGED <<dinode, dir, cwd, file>>
      /\ IF c.abs THEN iget(ROOTINO) ELSE idup(y)
  BY DEF Start, At, held, ondisk
<1>2. /\ NINODE \in Nat /\ c.call \in Callings /\ c.path \in Seq(Entries) /\ c.new \in Seq(Entries)
      /\ c.call # "link2" /\ ROOTINO \in Inumbers
  <2>1. NINODE \in Nat /\ Calls \in [Procs -> SUBSET CallType] /\ ROOTINO \in Inumbers
    BY SysFileAssumption
  <2>2. c \in CallType
    BY <2>1
  <2>3. /\ c.call \in {"open", "create", "mkdir", "mknod", "unlink", "link", "chdir"}
        /\ c.path \in Seq(Entries) /\ c.new \in Seq(Entries)
    BY <2>2 DEF CallType
  <2>4. c.call \in Callings /\ c.call # "link2"
    BY <2>3 DEF Callings
  <2> QED
    BY <2>1, <2>3, <2>4
<1>3. t \in CallState /\ Given(p) /\ Locks(p) /\ cwd[p] \in Slots
  BY Typing DEF CohInv, Given
<1>4. y \in Slots /\ y \in Regs
  <2>1. y \in Slots
    BY <1>1, <1>2, <1>3, IgetFetches
  <2> QED
    BY <1>2, <2>1, EntryReg
<1> HIDE DEF y
<1>5. u \in CallState /\ u.call # "link2" /\ u.ip = y
  <2>1. u \in CallState
    BY <1>2, <1>3, <1>4 DEF CallState
  <2> QED
    BY <1>2, <1>3, <2>1 DEF CallState
<1> HIDE DEF u
<1>6. Now(p, "namex", u.call, u.dp, u.ip, u.put, u.ret)
  BY <1>1, <1>5, GotoNow
<1>7. Where(st'[p]) = "namex"
  BY <1>6 DEF Now, Where, IputLabels
<1>8. Settled(p)
  BY <1>1, <1>3, <1>4, <1>5, <1>6, <1>7, OwnerSame
     DEF Now, Settled, Given, Locks, HasDp, HasIp, IpLocked, DpLocked, PutLocked, IputLabels
<1>9. CASE c.abs
  BY <1>1, <1>2, <1>8, <1>9, TakeCoherent
<1>10. CASE ~c.abs
  <2>1. ref' = [ref EXCEPT ![y] = @ + 1] /\ UNCHANGED <<inum, valid, inode>> /\ y = cwd[p]
    BY <1>1, <1>10 DEF idup, y
  <2>2. ref[y] > 0 /\ ref \in [Slots -> Nat]
    BY <1>4, <2>1, Referred DEF RefInv, RefType
  <2>3. Fetched(p)
    <3>1. \A x \in Slots : ref'[x] > 0 => ref[x] > 0
      BY <1>4, <2>1, <2>2
    <3> QED
      BY <2>1, <3>1 DEF Fetched
  <2>4. OthersKeep(p) /\ OwnerKept(p) /\ PutSpares(p) /\ Given(p)' /\ Locks(p)' /\ Opened(p)
    BY <1>1, <1>8 DEF Settled, OthersKeep, PutSpares, Opened
  <2>5. DiskKept /\ Shapes'
    BY <1>1, <2>1 DEF DiskKept, Shapes, CohInv
  <2> QED
    BY <1>1, <1>2, <2>3, <2>4, <2>5, FetchStep
<1> QED
  BY <1>9, <1>10

\* idup() of an inode that the process already has a reference to.
LEMMA IdupCoherent ==
  ASSUME RefInv, RefInv', CohInv, NEW p \in Procs, Settled(p), NEW y \in Slots, ref[y] > 0,
         idup(y), UNCHANGED <<ondisk, owner, held>>, st[p].pc \notin {"ifreed", "panic"}
  PROVE  CohInv'
<1>1. NINODE \in Nat /\ UNCHANGED <<dinode, dir, owner, cwd, file>>
  BY Constants DEF ondisk, held
<1>2. ref' = [ref EXCEPT ![y] = @ + 1] /\ UNCHANGED <<inum, valid, inode>>
  BY DEF idup
<1>3. Fetched(p)
  <2>1. \A x \in Slots : ref'[x] > 0 => ref[x] > 0
    BY <1>2 DEF RefInv, RefType
  <2> QED
    BY <1>2, <2>1 DEF Fetched
<1>4. OthersKeep(p) /\ OwnerKept(p) /\ PutSpares(p) /\ Given(p)' /\ Locks(p)' /\ Opened(p)
  BY <1>1 DEF Settled, OthersKeep, PutSpares, Opened
<1>5. DiskKept /\ Shapes'
  BY <1>1, <1>2 DEF DiskKept, Shapes, CohInv
<1> QED
  BY <1>1, <1>3, <1>4, <1>5, FetchStep

\* sys_link(): the lookup of the new name starts.
LEMMA LinkNewSettles ==
  ASSUME RefInv, RefInv', CohInv, NEW p \in Procs, LinkNew(p)
  PROVE  CohInv'
<1>1. PICK y : /\ \/ iget(ROOTINO) /\ y = Entry(ROOTINO)
                  \/ idup(y) /\ y = cwd[p]
               /\ Goto(p, [st[p] EXCEPT !.path = st[p].new, !.new = <<>>, !.dp = y], "namex")
  BY LinkNewFrom
<1> DEFINE t == st[p]
           u == [t EXCEPT !.path = t.new, !.new = <<>>, !.dp = y]
<1>2. /\ t.pc = "link2start" /\ UNCHANGED <<ondisk, owner, held>> /\ Goto(p, u, "namex")
      /\ UNCHANGED cwd
  BY <1>1 DEF LinkNew, At, held
<1>3. t \in CallState /\ Given(p) /\ ROOTINO \in Inumbers /\ NINODE \in Nat /\ cwd[p] \in Slots
  BY Typing, SysFileAssumption DEF CohInv, Given
<1>4. y \in Slots /\ y \in Regs
  <2>1. y \in Slots
    BY <1>1, <1>3, IgetFetches
  <2> QED
    BY <1>3, <2>1, EntryReg
<1>5. u \in CallState /\ u.dp = y /\ u.ip = t.ip
  <2>1. <<>> \in Seq(Entries)
    OBVIOUS
  <2> QED
    BY <1>3, <1>4, <2>1 DEF CallState
<1> HIDE DEF u
<1>6. Now(p, "namex", u.call, u.dp, u.ip, u.put, u.ret)
  BY <1>2, <1>5, GotoNow
<1>7. Where(st'[p]) = "namex" /\ t.ip \in Slots
  BY <1>2, <1>3, <1>6 DEF Now, Where, IputLabels, Given, HasIp
<1>8. Settled(p)
  BY <1>2, <1>3, <1>4, <1>5, <1>6, <1>7, OwnerSame
     DEF Now, Settled, Given, Locks, HasDp, HasIp, IpLocked, DpLocked, PutLocked, IputLabels
<1>9. CASE iget(ROOTINO)
  BY <1>2, <1>3, <1>8, <1>9, TakeCoherent
<1>10. CASE idup(y) /\ y = cwd[p]
  <2>1. ref[y] > 0
    BY <1>4, <1>10, Referred
  <2> QED
    BY <1>2, <1>4, <1>8, <1>10, <2>1, IdupCoherent
<1> QED
  BY <1>1, <1>9, <1>10

\* The last steps of unlink() and the undoing of link(): the count goes down.
LEMMA DropLink ==
  ASSUME RefInv, RefInv', CohInv, NEW p \in Procs, UnlinkEnd(p) \/ LinkUndo(p)
  PROVE  CohInv'
<1> DEFINE t == st[p]
           f == [x \in {t.ip} |-> inode[t.ip].nlink - 1]
<1>1. /\ t.pc \in {"unlinked", "linkbad1"} /\ SetNlink(f) /\ UNCHANGED <<dir, held>>
      /\ iunlock(t.ip) /\ Put(p, [t EXCEPT !.ip = 0], t.ip, "idle")
  BY DEF UnlinkEnd, LinkUndo, At, Iunlockput
<1>2. Given(p) /\ Locks(p) /\ UNCHANGED <<valid, cwd, file>>
  BY <1>1 DEF CohInv, SetNlink, held
<1>3. IpLocked(t)
  BY <1>1 DEF Where, IputLabels, IpLocked
<1>4. Holds(p, t.ip) /\ t.ip \in Slots /\ cwd[p] \in Slots
  BY <1>2, <1>3 DEF Locks, Holds, Given
<1>5. Settled(p)
  BY <1>1, <1>2, <1>3, <1>4, ReleaseIp
<1>6. ref[t.ip] > 0
  BY <1>4, Referred
<1>7. \A x \in DOMAIN f : Holds(p, x) /\ ref[x] > 0
  BY <1>4, <1>6
<1>8. OthersKeep(p) /\ dir' \in [Inumbers -> [Entries -> Inumbers \cup {0}]] /\ NINODE \in Nat
  BY <1>1, <1>2, <1>5, Constants DEF Settled, OthersKeep, CohInv, Shapes
<1> HIDE DEF f
<1> QED
  BY <1>1, <1>5, <1>7, <1>8, NlinkCoherent DEF Settled

\* sys_link(): a directory is refused, the count of a file goes up.
LEMMA LinkOldSettles ==
  ASSUME RefInv, RefInv', CohInv, NEW p \in Procs, LinkOld(p)
  PROVE  CohInv'
<1> DEFINE t == st[p]
           f == [x \in {t.ip} |-> LinkCount(t.ip)]
           u == [t EXCEPT !.call = "link2"]
<1>1. /\ t.pc = "link1" /\ UNCHANGED held
      /\ \/ Iunlockput(p, [t EXCEPT !.ip = 0], t.ip, "idle") /\ UNCHANGED <<ondisk, icache>>
         \/ SetNlink(f) /\ iunlock(t.ip) /\ Goto(p, u, "link2start") /\ UNCHANGED dir
  BY DEF LinkOld, At
<1>2. t \in CallState /\ Given(p) /\ Locks(p) /\ UNCHANGED <<valid, cwd, file>>
  BY <1>1, Typing DEF CohInv, SetNlink, held, icache
<1>3. IpLocked(t)
  BY <1>1 DEF Where, IputLabels, IpLocked
<1>4. Holds(p, t.ip) /\ t.ip \in Slots /\ cwd[p] \in Slots
  BY <1>2, <1>3 DEF Locks, Holds, Given
<1>5. CASE Iunlockput(p, [t EXCEPT !.ip = 0], t.ip, "idle") /\ UNCHANGED <<ondisk, icache>>
  <2>1. Settled(p)
    BY <1>2, <1>3, <1>4, <1>5, ReleaseIp DEF Iunlockput
  <2> QED
    BY <1>1, <1>5, <2>1, QuietHeld
<1>6. CASE SetNlink(f) /\ iunlock(t.ip) /\ Goto(p, u, "link2start") /\ UNCHANGED dir
  <2>1. u \in CallState /\ u.ip = t.ip
    <3>1. "link2" \in Callings
      BY DEF Callings
    <3> QED
      BY <1>2, <3>1 DEF CallState
  <2> HIDE DEF u
  <2>2. Now(p, "link2start", u.call, u.dp, u.ip, u.put, u.ret)
    BY <1>6, <2>1, GotoNow
  <2>3. Where(st'[p]) = "link2start"
    BY <2>2 DEF Now, Where, IputLabels
  <2>4. Settled(p)
    BY <1>2, <1>4, <1>6, <2>1, <2>2, <2>3, Unlocks
       DEF Now, Settled, Given, Locks, HasDp, HasIp, IpLocked, DpLocked, PutLocked, IputLabels
  <2>5. ref[t.ip] > 0
    BY <1>4, Referred
  <2>6. \A x \in DOMAIN f : Holds(p, x) /\ ref[x] > 0
    BY <1>4, <2>5
  <2>7. OthersKeep(p) /\ dir' \in [Inumbers -> [Entries -> Inumbers \cup {0}]] /\ NINODE \in Nat
    BY <1>2, <1>6, <2>4, Constants DEF Settled, OthersKeep, CohInv, Shapes
  <2> HIDE DEF f
  <2> QED
    BY <1>1, <1>6, <2>4, <2>6, <2>7, NlinkCoherent DEF Settled
<1> QED
  BY <1>1, <1>5, <1>6

\* namex() in a directory: it fails, it is at the parent, or it goes on.
LEMMA NamexStepSettles ==
  ASSUME RefInv, RefInv', CohInv, NEW p \in Procs, NamexStep(p)
  PROVE  CohInv'
<1> DEFINE t == st[p]
           y == Walker(p)
           n == Head(t.path)
           r == Tail(t.path)
           i == Lookup(y, n)
           u == [t EXCEPT !.path = <<>>, !.name = n]
           v == [Walk(p, Entry(i)) EXCEPT !.path = r]
<1>1. /\ t.pc = "walk" /\ UNCHANGED <<ondisk, held>> /\ iunlock(y)
      /\ \/ Put(p, Walk(p, 0), y, Failed(p)) /\ UNCHANGED icache
         \/ /\ Parent(p) /\ UNCHANGED icache
            /\ Goto(p, IF t.call = "link2" THEN u ELSE [u EXCEPT !.dp = y, !.ip = 0], t.call)
         \/ i # 0 /\ iget(i) /\ Put(p, v, y, "namex")
  BY DEF NamexStep, At, Iunlockput
<1>2. /\ t \in CallState /\ Tidy(t) /\ Given(p) /\ Locks(p) /\ NINODE \in Nat
      /\ cwd[p] \in Slots /\ cwd' = cwd
  BY <1>1, Typing, Constants DEF CohInv, Given, held
<1>3. /\ Where(t) = "walk" /\ t.path # <<>> /\ t.ip \in Slots
      /\ t.call = "link2" => DpLocked(t) /\ t.dp \in Slots
      /\ t.call # "link2" => IpLocked(t)
  BY <1>1, <1>2 DEF Tidy, Where, IputLabels, Given, HasIp, HasDp, DpLocked, IpLocked
<1>4. Holds(p, y) /\ y \in Slots /\ y = IF t.call = "link2" THEN t.dp ELSE t.ip
  BY <1>2, <1>3 DEF Walker, Locks, Holds
<1>5. n \in Entries /\ r \in Seq(Entries) /\ y \in Regs /\ 0 \in Regs
  BY <1>2, <1>3, <1>4, EntryReg DEF CallState
<1>6. CASE Put(p, Walk(p, 0), y, Failed(p)) /\ UNCHANGED icache
  <2>0. UNCHANGED valid
    BY <1>6 DEF icache
  <2>1. CASE t.call = "link2"
    <3>1. Put(p, [t EXCEPT !.dp = 0], t.dp, "linkbad") /\ iunlock(t.dp) /\ HasIp(t)
      BY <1>1, <1>3, <1>4, <1>6, <2>1 DEF Walk, Failed, HasIp
    <3>2. Settled(p)
      BY <1>2, <1>3, <2>0, <2>1, <3>1, ReleaseDp
    <3> QED
      BY <1>1, <1>6, <3>2, QuietHeld
  <2>2. CASE t.call # "link2"
    <3>1. Put(p, [t EXCEPT !.ip = 0], t.ip, "idle") /\ iunlock(t.ip)
      BY <1>1, <1>4, <1>6, <2>2 DEF Walk, Failed
    <3>2. Settled(p)
      BY <1>2, <1>3, <2>0, <2>2, <3>1, ReleaseIp
    <3> QED
      BY <1>1, <1>6, <3>2, QuietHeld
  <2> QED
    BY <2>1, <2>2
<1>7. CASE /\ Parent(p) /\ UNCHANGED icache
           /\ Goto(p, IF t.call = "link2" THEN u ELSE [u EXCEPT !.dp = y, !.ip = 0], t.call)
  <2> DEFINE l == t.call
  <2>1. u \in CallState /\ u.call = l /\ u.dp = t.dp /\ u.ip = t.ip
    <3>1. <<>> \in Seq(Entries)
      OBVIOUS
    <3> HIDE DEF n
    <3> QED
      BY <1>2, <1>5, <3>1 DEF CallState
  <2>2. l \in {"create", "mkdir", "mknod", "unlink", "link2"}
    BY <1>7 DEF Parent
  <2>3. PICK w \in CallState : /\ Goto(p, w, l)
                               /\ l = "link2" => w.dp = t.dp /\ w.ip = t.ip
                               /\ l # "link2" => w.dp = y
    <3> HIDE DEF u
    <3>1. CASE l = "link2"
      BY <1>7, <2>1, <3>1
    <3>2. CASE l # "link2"
      <4> DEFINE w == [u EXCEPT !.dp = y, !.ip = 0]
      <4>1. w \in CallState /\ w.dp = y
        BY <1>5, <2>1 DEF CallState
      <4>2. Goto(p, w, l)
        BY <1>7, <3>2
      <4> HIDE DEF w, y
      <4> QED
        BY <3>2, <4>1, <4>2
    <3> QED
      BY <3>1, <3>2
  <2> HIDE DEF l
  <2>4. Now(p, l, w.call, w.dp, w.ip, w.put, w.ret)
    BY <2>3, GotoNow
  <2>5. Where(st'[p]) = l /\ l \notin IputLabels
    BY <2>2, <2>4 DEF Now, Where, IputLabels
  <2>6. l = "link2" => w.dp \in Slots /\ w.ip \in Slots
    BY <1>3, <2>3 DEF l
  <2> HIDE DEF y
  <2>7. OwnerKept(p) /\ DOMAIN owner' = Slots
    BY <1>1, <1>4, Unlocks
  <2>8. Given(p)'
    BY <1>2, <1>4, <2>2, <2>3, <2>4, <2>5, <2>6 DEF Now, Given, HasDp, HasIp
  <2>9. Locks(p)' /\ ~PutLocked(st'[p])
    BY <2>2, <2>4, <2>5 DEF Now, Locks, IpLocked, DpLocked, PutLocked
  <2>10. Settled(p)
    BY <2>4, <2>7, <2>8, <2>9 DEF Now, Settled
  <2> QED
    BY <1>1, <1>7, <2>10, QuietHeld
<1>8. CASE i # 0 /\ iget(i) /\ Put(p, v, y, "namex")
  <2> DEFINE e == Entry(i)
  <2>1. ref[y] > 0
    BY <1>4, Referred
  <2>2. i \in Inumbers
    BY <1>4, <1>5, <1>8, <2>1, LookupIs
  <2> HIDE DEF i, y
  <2>3. e \in Slots
    BY <1>8, <2>2, IgetFetches
  <2> HIDE DEF e
  <2>4. e \in Regs
    BY <1>2, <2>3, EntryReg
  <2>5. /\ v \in CallState /\ v.call = t.call
        /\ t.call = "link2" => v.dp = e /\ v.ip = t.ip
        /\ t.call # "link2" => v.ip = e
    <3>1. CASE t.call = "link2"
      <4>1. v = [[t EXCEPT !.dp = e] EXCEPT !.path = r]
        BY <3>1 DEF Walk, e
      <4> QED
        BY <1>2, <1>5, <2>4, <3>1, <4>1 DEF CallState
    <3>2. CASE t.call # "link2"
      <4>1. v = [[t EXCEPT !.ip = e] EXCEPT !.path = r]
        BY <3>2 DEF Walk, e
      <4> QED
        BY <1>2, <1>5, <2>4, <3>2, <4>1 DEF CallState
    <3> QED
      BY <3>1, <3>2
  <2>6. Put(p, v, y, "namex") /\ "namex" \in Returns
    BY <1>8 DEF Returns
  <2> HIDE DEF v
  <2>7. Now(p, "iput", v.call, v.dp, v.ip, y, "namex")
    BY <1>5, <2>5, <2>6, PutNow
  <2>8. Where(st'[p]) = "namex"
    BY <2>7 DEF Now, Where, IputLabels
  <2>9. OwnerKept(p) /\ DOMAIN owner' = Slots
    BY <1>1, <1>4, Unlocks
  <2>10. Given(p)'
    BY <1>2, <1>3, <1>4, <2>3, <2>5, <2>7, <2>8 DEF Now, Given, HasDp, HasIp
  <2>11. Locks(p)' /\ ~PutLocked(st'[p])
    BY <2>7, <2>8 DEF Now, Locks, IpLocked, DpLocked, PutLocked
  <2>12. Settled(p)
    BY <2>7, <2>9, <2>10, <2>11 DEF Now, Settled
  <2> QED
    BY <1>1, <1>8, <2>2, <2>12, TakeCoherent
<1> QED
  BY <1>1, <1>6, <1>7, <1>8

\* A reference to y goes to ip, with dp locked.
LEMMA IpTaken ==
  ASSUME RefInv, CohInv, NEW p \in Procs, DpLocked(st[p]), NEW y \in Slots,
         NEW l \in {"created", "victim"}, Goto(p, [st[p] EXCEPT !.ip = y], l),
         UNCHANGED <<owner, cwd>>, \A x \in Slots : ref[x] > 0 => valid'[x] = valid[x]
  PROVE  Settled(p)
<1> DEFINE t == st[p]
           u == [t EXCEPT !.ip = y]
<1>1. t \in CallState /\ y \in Regs /\ Holds(p, t.dp) /\ t.dp \in Slots /\ cwd[p] \in Slots
  BY Typing, Constants, EntryReg DEF CohInv, Locks, Given, Holds
<1>2. u \in CallState /\ u.dp = t.dp /\ u.ip = y
  BY <1>1, SetReg
<1>3. Goto(p, u, l)
  OBVIOUS
<1> HIDE DEF u
<1>4. Now(p, l, u.call, u.dp, u.ip, u.put, u.ret)
  BY <1>2, <1>3, GotoNow
<1>5. Where(st'[p]) = l /\ l \notin IputLabels
  BY <1>4 DEF Now, Where, IputLabels
<1>6. ref[t.dp] > 0
  BY <1>1, Referred
<1>7. owner'[t.dp] = p /\ valid'[t.dp]
  BY <1>1, <1>6 DEF Holds
<1>8. Given(p)'
  BY <1>1, <1>2, <1>4, <1>5 DEF Now, Given, HasDp, HasIp
<1>9. Locks(p)' /\ ~PutLocked(st'[p])
  BY <1>1, <1>2, <1>4, <1>5, <1>7 DEF Now, Locks, Holds, IpLocked, DpLocked, PutLocked
<1> QED
  BY <1>4, <1>8, <1>9, OwnerSame DEF Now, Settled

\* sys_unlink(): the name is not there, or the inode to remove is found.
LEMMA UnlinkLookupSettles ==
  ASSUME RefInv, RefInv', CohInv, NEW p \in Procs, UnlinkLookup(p)
  PROVE  CohInv'
<1> DEFINE t == st[p]
           i == Lookup(t.dp, t.name)
<1>1. /\ t.pc = "unlink1" /\ UNCHANGED <<ondisk, held>> /\ UNCHANGED cwd
      /\ \/ Iunlockput(p, [t EXCEPT !.dp = 0], t.dp, "idle") /\ UNCHANGED icache
         \/ i # 0 /\ iget(i) /\ Goto(p, [t EXCEPT !.ip = Entry(i)], "victim") /\ UNCHANGED owner
  BY DEF UnlinkLookup, At, held
<1>2. t \in CallState /\ t.name \in Entries /\ Locks(p) /\ cwd[p] \in Slots
  BY Typing DEF CohInv, Given, CallState
<1>3. DpLocked(t)
  BY <1>1 DEF Where, IputLabels, DpLocked
<1>4. t.dp \in Slots
  BY <1>2, <1>3 DEF Locks, Holds
<1>5. ref[t.dp] > 0
  BY <1>4, Referred
<1>6. CASE Iunlockput(p, [t EXCEPT !.dp = 0], t.dp, "idle") /\ UNCHANGED icache
  <2>1. UNCHANGED valid
    BY <1>6 DEF icache
  <2>2. Settled(p)
    BY <1>1, <1>2, <1>3, <1>6, <2>1, ReleaseDp DEF Iunlockput
  <2> QED
    BY <1>1, <1>6, <2>2, QuietHeld
<1>7. CASE i # 0 /\ iget(i) /\ Goto(p, [t EXCEPT !.ip = Entry(i)], "victim") /\ UNCHANGED owner
  <2> DEFINE e == Entry(i)
  <2>1. i \in Inumbers
    BY <1>2, <1>4, <1>5, <1>7, LookupIs
  <2>2. Goto(p, [t EXCEPT !.ip = e], "victim")
    BY <1>7
  <2> HIDE DEF i
  <2>3. e \in Slots /\ \A x \in Slots : ref[x] > 0 => valid'[x] = valid[x]
    BY <1>7, <2>1, IgetFetches
  <2> HIDE DEF e
  <2>4. Settled(p)
    BY <1>1, <1>3, <1>7, <2>2, <2>3, IpTaken
  <2> QED
    BY <1>1, <1>7, <2>1, <2>4, TakeCoherent
<1> QED
  BY <1>1, <1>6, <1>7

\* create(): the name exists, and dp goes to iput(), or there is a new inode.
LEMMA CreateLookupSettles ==
  ASSUME RefInv, RefInv', CohInv, NEW p \in Procs, CreateLookup(p)
  PROVE  CohInv'
<1> DEFINE t == st[p]
           d == t.dp
           i == Lookup(d, t.name)
           F == {j \in Inumbers : dinode[j].type = "free"}
<1>1. /\ t.pc = "create1" /\ UNCHANGED <<dir, held>> /\ UNCHANGED <<cwd, file>>
      /\ \/ /\ i # 0 /\ iget(i) /\ UNCHANGED dinode
            /\ Iunlockput(p, [t EXCEPT !.dp = 0, !.ip = Entry(i), !.name = "."], d, "exists")
         \/ \E k \in {"dir", "dev", "file"} :
               /\ F # {} /\ dinode' = [dinode EXCEPT ![Min(F)] = [type |-> k, nlink |-> 0]]
               /\ iget(Min(F)) /\ Goto(p, [t EXCEPT !.ip = Entry(Min(F))], "created")
               /\ UNCHANGED owner
  BY DEF CreateLookup, At, held
<1>2. t \in CallState /\ t.name \in Entries /\ Locks(p) /\ cwd[p] \in Slots /\ NINODE \in Nat
  BY Typing, Constants DEF CohInv, Given, CallState
<1>3. DpLocked(t)
  BY <1>1 DEF Where, IputLabels, DpLocked
<1>4. Holds(p, d) /\ d \in Slots /\ d \in Regs /\ 0 \in Regs
  BY <1>2, <1>3, EntryReg DEF Locks, Holds
<1>5. ref[d] > 0
  BY <1>4, Referred
<1>6. CASE /\ i # 0 /\ iget(i) /\ UNCHANGED dinode
           /\ Iunlockput(p, [t EXCEPT !.dp = 0, !.ip = Entry(i), !.name = "."], d, "exists")
  <2> DEFINE e == Entry(i)
             u == [t EXCEPT !.dp = 0, !.ip = e, !.name = "."]
  <2>1. i \in Inumbers
    BY <1>2, <1>4, <1>5, <1>6, LookupIs
  <2>2. Put(p, u, d, "exists") /\ iunlock(d)
    BY <1>6 DEF Iunlockput
  <2> HIDE DEF i, d
  <2>3. e \in Slots
    BY <1>6, <2>1, IgetFetches
  <2> HIDE DEF e
  <2>4. e \in Regs /\ "." \in Entries /\ "exists" \in Returns
    BY <1>2, <2>3, EntryReg DEF Entries, Returns
  <2>5. u \in CallState /\ u.ip = e
    BY <1>2, <1>4, <2>4 DEF CallState
  <2> HIDE DEF u
  <2>6. Now(p, "iput", u.call, u.dp, u.ip, d, "exists")
    BY <1>4, <2>2, <2>4, <2>5, PutNow
  <2>7. Where(st'[p]) = "exists"
    BY <2>6 DEF Now, Where, IputLabels
  <2>8. OwnerKept(p) /\ DOMAIN owner' = Slots
    BY <1>4, <2>2, Unlocks
  <2>9. Given(p)'
    BY <1>1, <1>2, <1>4, <2>3, <2>5, <2>6, <2>7 DEF Now, Given, HasDp, HasIp
  <2>10. Locks(p)' /\ ~PutLocked(st'[p])
    BY <2>6, <2>7 DEF Now, Locks, IpLocked, DpLocked, PutLocked
  <2>11. Settled(p)
    BY <2>6, <2>8, <2>9, <2>10 DEF Now, Settled
  <2>12. UNCHANGED <<ondisk, held>>
    BY <1>1, <1>6 DEF ondisk
  <2> QED
    BY <1>1, <1>6, <2>1, <2>11, <2>12, TakeCoherent
<1>7. ASSUME NEW k \in {"dir", "dev", "file"},
             /\ F # {} /\ dinode' = [dinode EXCEPT ![Min(F)] = [type |-> k, nlink |-> 0]]
             /\ iget(Min(F)) /\ Goto(p, [t EXCEPT !.ip = Entry(Min(F))], "created")
             /\ UNCHANGED owner
      PROVE  CohInv'
  <2> DEFINE m == Min(F)
             e == Entry(m)
             new == [type |-> k, nlink |-> 0]
  <2>1. m \in F
    <3>1. F \subseteq Nat
      BY SysFileAssumption
    <3>2. \E a \in F : \A b \in F : a <= b
      BY <1>7, <3>1, LeastNumber
    <3> QED
      BY <3>2 DEF Min
  <2>2. m \in Inumbers /\ dinode[m].type = "free"
    BY <2>1
  <2>3. /\ dinode' = [dinode EXCEPT ![m] = new] /\ iget(m)
        /\ Goto(p, [t EXCEPT !.ip = e], "created")
    BY <1>7
  <2> HIDE DEF m, F
  <2>4. /\ e \in Slots /\ \A x \in Slots : ref[x] > 0 => valid'[x] = valid[x]
        /\ Fetched(p) /\ valid' \in [Slots -> BOOLEAN] /\ UNCHANGED inode
    BY <2>2, <2>3, IgetFetches
  <2> HIDE DEF e
  <2>5. Settled(p)
    BY <1>1, <1>3, <1>7, <2>3, <2>4, IpTaken
  <2>6. OthersKeep(p) /\ OwnerKept(p) /\ PutSpares(p) /\ Given(p)' /\ Locks(p)' /\ Opened(p)
    BY <1>1, <2>5 DEF Settled, OthersKeep, PutSpares, Opened
  <2>7. Record(new)
    BY DEF Record
  <2> HIDE DEF new
  <2>8. DiskKept /\ Shapes'
    BY <1>1, <2>2, <2>3, <2>4, <2>5, <2>7 DEF DiskKept, Shapes, CohInv, Settled
  <2> QED
    BY <1>1, <1>2, <2>4, <2>6, <2>8, FetchStep
<1> QED
  BY <1>1, <1>6, <1>7

\* sys_unlink(): the directory is not empty, or the entry is removed.
LEMMA UnlinkEntrySettles ==
  ASSUME RefInv, RefInv', CohInv, NEW p \in Procs, UnlinkEntry(p)
  PROVE  CohInv'
<1> DEFINE t == st[p]
           d == t.dp
           f == [x \in IF inode[t.ip].type = "dir" THEN {d} ELSE {} |-> inode[x].nlink - 1]
<1>1. /\ t.pc = "victim1" /\ UNCHANGED held
      /\ \/ Iunlockput(p, [t EXCEPT !.ip = 0], t.ip, "unlinkbad") /\ UNCHANGED <<ondisk, icache>>
         \/ /\ dir' = [dir EXCEPT ![inum[d]][t.name] = 0] /\ SetNlink(f)
            /\ Iunlockput(p, [t EXCEPT !.dp = 0, !.name = "."], d, "unlinked")
  BY DEF UnlinkEntry, At
<1>2. t.name \in Entries /\ Given(p) /\ Locks(p) /\ UNCHANGED <<valid, cwd, file>> /\ NINODE \in Nat
  BY <1>1, Typing, Constants DEF CohInv, SetNlink, held, icache, CallState
<1>3. IpLocked(t) /\ DpLocked(t) /\ HasIp(t)
  BY <1>1 DEF Where, IputLabels, IpLocked, DpLocked, HasIp
<1>4. Holds(p, d) /\ d \in Slots /\ t.ip \in Slots /\ cwd[p] \in Slots
  BY <1>2, <1>3 DEF Locks, Holds, Given
<1>5. CASE Iunlockput(p, [t EXCEPT !.ip = 0], t.ip, "unlinkbad") /\ UNCHANGED <<ondisk, icache>>
  <2>1. Settled(p)
    BY <1>2, <1>3, <1>4, <1>5, ReleaseIp DEF Iunlockput
  <2> QED
    BY <1>1, <1>5, <2>1, QuietHeld
<1>6. CASE /\ dir' = [dir EXCEPT ![inum[d]][t.name] = 0] /\ SetNlink(f)
           /\ Iunlockput(p, [t EXCEPT !.dp = 0, !.name = "."], d, "unlinked")
  <2>1. Settled(p)
    BY <1>2, <1>3, <1>4, <1>6, ReleaseDp DEF Iunlockput
  <2>2. ref[d] > 0
    BY <1>4, Referred
  <2>3. \A x \in DOMAIN f : Holds(p, x) /\ ref[x] > 0
    BY <1>4, <2>2
  <2>4. dir' \in [Inumbers -> [Entries -> Inumbers \cup {0}]]
    BY <1>2, <1>4, <1>6, <2>2 DEF CohInv, Shapes, Numbered
  <2>5. OthersKeep(p)
    BY <1>2, <2>1 DEF Settled, OthersKeep
  <2> HIDE DEF f
  <2> QED
    BY <1>1, <1>2, <1>6, <2>1, <2>3, <2>4, <2>5, NlinkCoherent DEF Settled
<1> QED
  BY <1>1, <1>5, <1>6

\* create(): the entries of the new inode, and its links.
LEMMA CreateLinkSettles ==
  ASSUME RefInv, RefInv', CohInv, NEW p \in Procs, CreateLink(p)
  PROVE  CohInv'
<1> DEFINE t == st[p]
           d == t.dp
           s == t.ip
           a == inum[s]
           b == inum[d]
           isdir == inode[s].type = "dir"
           entered == [dir EXCEPT ![b][t.name] = a]
           f == [x \in IF isdir THEN {s, d} ELSE {s} |-> IF x = s THEN 1 ELSE inode[x].nlink + 1]
<1>1. /\ t.pc = "created1" /\ UNCHANGED held /\ SetNlink(f)
      /\ dir' = IF isdir THEN [entered EXCEPT ![a] = [entered[a] EXCEPT !["."] = a, ![".."] = b]]
                         ELSE entered
      /\ Iunlockput(p, [t EXCEPT !.dp = 0, !.name = "."], d, "linked")
  BY DEF CreateLink, At
<1>2. t.name \in Entries /\ Given(p) /\ Locks(p) /\ UNCHANGED <<valid, cwd, file>> /\ NINODE \in Nat
  BY <1>1, Typing, Constants DEF CohInv, SetNlink, held, icache, CallState
<1>3. IpLocked(t) /\ DpLocked(t) /\ HasIp(t)
  BY <1>1 DEF Where, IputLabels, IpLocked, DpLocked, HasIp
<1>4. Holds(p, d) /\ Holds(p, s) /\ d \in Slots /\ s \in Slots /\ cwd[p] \in Slots
  BY <1>2, <1>3 DEF Locks, Holds, Given
<1>5. Settled(p)
  BY <1>1, <1>2, <1>3, <1>4, ReleaseDp DEF Iunlockput
<1>6. ref[d] > 0 /\ ref[s] > 0
  BY <1>4, Referred
<1>7. \A x \in DOMAIN f : Holds(p, x) /\ ref[x] > 0
  BY <1>4, <1>6
<1>8. a \in Inumbers /\ b \in Inumbers
  BY <1>4, <1>6 DEF CohInv, Numbered
<1> HIDE DEF a, b, isdir
<1>9. entered \in [Inumbers -> [Entries -> Inumbers \cup {0}]]
  BY <1>2, <1>8 DEF CohInv, Shapes
<1> HIDE DEF entered
<1>10. dir' \in [Inumbers -> [Entries -> Inumbers \cup {0}]]
  <2> DEFINE g == [entered[a] EXCEPT !["."] = a, ![".."] = b]
  <2>1. g \in [Entries -> Inumbers \cup {0}]
    BY <1>8, <1>9
  <2>2. dir' = IF isdir THEN [entered EXCEPT ![a] = g] ELSE entered
    BY <1>1
  <2> HIDE DEF g
  <2> QED
    BY <1>9, <2>1, <2>2
<1>11. OthersKeep(p)
  BY <1>2, <1>5 DEF Settled, OthersKeep
<1> HIDE DEF f
<1> QED
  BY <1>1, <1>2, <1>5, <1>7, <1>10, <1>11, NlinkCoherent DEF Settled

\* dirlink() of sys_link(): the name exists, and its inode goes to iput(), or
\* the entry is made.
LEMMA LinkEntrySettles ==
  ASSUME RefInv, RefInv', CohInv, NEW p \in Procs, LinkEntry(p)
  PROVE  CohInv'
<1> DEFINE t == st[p]
           d == t.dp
           i == Lookup(d, t.name)
<1>1. /\ t.pc = "link21" /\ UNCHANGED held /\ UNCHANGED <<cwd, file>>
      /\ \/ /\ i # 0 /\ iget(i) /\ Put(p, t, Entry(i), "linkexists")
            /\ UNCHANGED <<ondisk, owner>>
         \/ /\ dir' = [dir EXCEPT ![inum[d]][t.name] = inum[t.ip]]
            /\ Iunlockput(p, [t EXCEPT !.dp = 0], d, "linkend")
            /\ UNCHANGED <<dinode, icache>>
  BY DEF LinkEntry, At, held
<1>2. /\ t \in CallState /\ t.name \in Entries /\ Given(p) /\ Locks(p) /\ cwd[p] \in Slots
      /\ NINODE \in Nat
  BY Typing, Constants DEF CohInv, Given, CallState
<1>3. DpLocked(t) /\ HasIp(t)
  BY <1>1 DEF Where, IputLabels, DpLocked, HasIp
<1>4. Holds(p, d) /\ d \in Slots /\ t.ip \in Slots
  BY <1>2, <1>3 DEF Locks, Holds, Given
<1>5. ref[d] > 0 /\ ref[t.ip] > 0
  BY <1>4, Referred
<1>6. CASE /\ dir' = [dir EXCEPT ![inum[d]][t.name] = inum[t.ip]]
           /\ Iunlockput(p, [t EXCEPT !.dp = 0], d, "linkend")
           /\ UNCHANGED <<dinode, icache>>
  <2>1. UNCHANGED valid
    BY <1>6 DEF icache
  <2>2. Settled(p)
    BY <1>1, <1>2, <1>3, <1>6, <2>1, ReleaseDp DEF Iunlockput
  <2>3. inum[d] \in Inumbers /\ inum[t.ip] \in Inumbers
    BY <1>4, <1>5 DEF CohInv, Numbered
  <2>4. dir' \in [Inumbers -> [Entries -> Inumbers \cup {0}]]
    BY <1>2, <1>6, <2>3 DEF CohInv, Shapes
  <2>5. Opened(p)
    BY <1>1 DEF Opened
  <2> QED
    BY <1>1, <1>6, <2>2, <2>4, <2>5, QuietStep
<1>7. CASE /\ i # 0 /\ iget(i) /\ Put(p, t, Entry(i), "linkexists")
           /\ UNCHANGED <<ondisk, owner>>
  <2> DEFINE e == Entry(i)
  <2>1. i \in Inumbers
    BY <1>2, <1>4, <1>5, <1>7, LookupIs
  <2>2. Put(p, t, e, "linkexists")
    BY <1>7
  <2> HIDE DEF i
  <2>3. e \in Slots /\ \A x \in Slots : ref[x] > 0 => valid'[x] = valid[x]
    BY <1>7, <2>1, IgetFetches
  <2> HIDE DEF e
  <2>4. e \in Regs /\ "linkexists" \in Returns
    BY <1>2, <2>3, EntryReg DEF Returns
  <2>5. Now(p, "iput", t.call, t.dp, t.ip, e, "linkexists")
    BY <1>2, <2>2, <2>4, PutNow
  <2>6. Where(st'[p]) = "linkexists"
    BY <2>5 DEF Now, Where, IputLabels
  <2>7. owner'[d] = p /\ valid'[d]
    BY <1>4, <1>5, <1>7, <2>3 DEF Holds
  <2>8. Given(p)'
    BY <1>1, <1>2, <1>4, <2>3, <2>5, <2>6 DEF Now, Given, HasDp, HasIp
  <2>9. Locks(p)' /\ ~PutLocked(st'[p])
    BY <1>4, <2>5, <2>6, <2>7 DEF Now, Locks, Holds, IpLocked, DpLocked, PutLocked
  <2>10. Settled(p)
    BY <1>7, <2>5, <2>8, <2>9, OwnerSame DEF Now, Settled
  <2> QED
    BY <1>1, <1>7, <2>1, <2>10, TakeCoherent
<1> QED
  BY <1>1, <1>6, <1>7

\* At the start nothing is locked and no entry has a copy.
LEMMA CohInit ==
  ASSUME SysFileInit
  PROVE  CohInv
<1>1. NINODE \in Nat \ {0} /\ ROOTINO \in Inumbers /\ NULL \notin Procs /\ 0 \notin Slots
      /\ 1 \in Slots
  BY SysFileAssumption DEF Slots
<1>2. \A x \in Slots : x # 0
  BY <1>1
<1>3. /\ dinode = [i \in Inumbers |-> IF i = ROOTINO THEN [type |-> "dir", nlink |-> 1] ELSE Free]
      /\ dir = [i \in Inumbers |-> [n \in Entries |->
                 IF i = ROOTINO /\ n \notin Names THEN ROOTINO ELSE 0]]
      /\ inum = [x \in Slots |-> IF x = 1 THEN ROOTINO ELSE 0]
      /\ ref = [x \in Slots |-> IF x = 1 THEN Cardinality(Procs) ELSE 0]
      /\ valid = [x \in Slots |-> FALSE] /\ inode = [x \in Slots |-> Free]
      /\ owner = [x \in Slots |-> NULL]
      /\ cwd = [p \in Procs |-> 1] /\ file = [p \in Procs |-> 0] /\ st = [p \in Procs |-> Idle]
  BY DEF SysFileInit
<1>4. Shapes
  <2>1. Record(Free) /\ Record([type |-> "dir", nlink |-> 1])
    BY DEF Record, Free
  <2>2. dir \in [Inumbers -> [Entries -> Inumbers \cup {0}]]
    BY <1>1, <1>3
  <2> QED
    BY <1>3, <2>1, <2>2 DEF Shapes
<1>5. Numbered
  BY <1>1, <1>3 DEF Numbered
<1>6. CacheCoherent
  <2>1. dinode[inum[1]].type = "dir"
    BY <1>1, <1>3
  <2>2. \A p \in Procs : cwd[p] = 1 /\ file[p] = 0
    BY <1>3
  <2>3. \A x \in Slots : ~valid[x]
    BY <1>3
  <2> QED
    BY <2>1, <2>2, <2>3 DEF CacheCoherent
<1>7. ASSUME NEW p \in Procs
      PROVE  st[p].pc = "idle" /\ Where(st[p]) = "idle" /\ cwd[p] = 1
  <2>1. Idle.pc = "idle" /\ st[p] = Idle
    BY <1>3 DEF Idle
  <2> QED
    BY <1>3, <2>1 DEF Where, IputLabels
<1>8. \A p \in Procs : Given(p) /\ Locks(p)
  BY <1>1, <1>7 DEF Given, Locks, HasDp, HasIp, IpLocked, DpLocked, PutLocked, IputLabels
<1>9. \A p, q \in Procs : Spared(p, q)
  BY <1>7 DEF Spared, PutLocked
<1> QED
  BY <1>4, <1>5, <1>6, <1>8, <1>9 DEF CohInv

\* Every step of every system call keeps the locks and the copies in order.
LEMMA CohNext ==
  ASSUME RefInv, RefInv', CohInv, [SysFileNext]_sysfileVars
  PROVE  CohInv'
<1>1. CASE UNCHANGED sysfileVars
  <2>1. UNCHANGED <<dinode, dir, inum, ref, valid, inode, owner, cwd, file, st>>
    BY <1>1 DEF sysfileVars, ondisk, icache, held
  <2> QED
    BY <2>1 DEF CohInv, Shapes, Numbered, CacheCoherent, Dying, At, Given, Locks, Holds, Spared
<1>2. ASSUME NEW p \in Procs, NEW c \in Calls[p], Start(p, c) PROVE CohInv'
  BY <1>2, StartSettles
<1>3. ASSUME NEW p \in Procs, SysFileStep(p) PROVE CohInv'
  <2>0. NINODE \in Nat
    BY Constants
  <2>1. CASE CloseFile(p)
    BY <2>1, CloseSettles
  <2>2. CASE LockInode(p) \/ NamexLock(p)
    BY <2>2, LockSettles
  <2>3. CASE NamexEnd(p)
    BY <2>3, NamexEndSettles
  <2>4. CASE NamexStep(p)
    BY <2>4, NamexStepSettles
  <2>5. CASE IputLock(p)
    BY <2>5, IputLockSettles
  <2>6. CASE IputFree(p)
    BY <2>0, <2>6, FreeCoherent
  <2>7. CASE IputUnlock(p)
    BY <2>7, IputUnlockSettles
  <2>8. CASE IputDec(p)
    BY <2>8, IputDecSettles
  <2>9. CASE OpenEnd(p)
    BY <2>9, OpenEndSettles
  <2>10. CASE OpenCheck(p) \/ CreateExists(p) \/ CreateEnd(p)
    BY <2>10, OpenSettles
  <2>11. CASE Chdir(p)
    BY <2>11, ChdirSettles
  <2>12. CASE CreateLookup(p)
    BY <2>12, CreateLookupSettles
  <2>13. CASE CreateLink(p)
    BY <2>13, CreateLinkSettles
  <2>14. CASE UnlinkBad(p) \/ LinkExists(p) \/ LinkEnd(p)
    BY <2>14, ReleaseSettles
  <2>15. CASE UnlinkEnd(p) \/ LinkUndo(p)
    BY <2>15, DropLink
  <2>16. CASE UnlinkLookup(p)
    BY <2>16, UnlinkLookupSettles
  <2>17. CASE UnlinkEntry(p)
    BY <2>17, UnlinkEntrySettles
  <2>18. CASE LinkOld(p)
    BY <2>18, LinkOldSettles
  <2>19. CASE LinkNew(p)
    BY <2>19, LinkNewSettles
  <2>20. CASE LinkEntry(p)
    BY <2>20, LinkEntrySettles
  <2> QED
    BY <1>3, <2>1, <2>2, <2>3, <2>4, <2>5, <2>6, <2>7, <2>8, <2>9, <2>10, <2>11, <2>12,
       <2>13, <2>14, <2>15, <2>16, <2>17, <2>18, <2>19, <2>20 DEF SysFileStep
<1> QED
  BY <1>1, <1>2, <1>3 DEF SysFileNext

\* The variables that a call uses are set and its locks are its own, at each
\* of its steps, and what it has locked it may trust.
THEOREM SysFileLocking ==
  SysFileSpec => []CohInv
<1>1. SysFileInit => CohInv
  BY CohInit
<1>2. RefInv /\ RefInv' /\ CohInv /\ [SysFileNext]_sysfileVars => CohInv'
  BY CohNext
<1> QED
  BY <1>1, <1>2, SysFileInvariant, PTL DEF SysFileSpec

\* Whatever the system calls do, the copies of the inodes in the cache agree
\* with the disk, and no inode is freed that is someone's file or directory.
THEOREM SysFileCacheCoherent ==
  SysFileSpec => []CacheCoherent
<1>1. CohInv => CacheCoherent
  BY DEF CohInv
<1> QED
  BY <1>1, SysFileLocking, PTL
=============================================================================
