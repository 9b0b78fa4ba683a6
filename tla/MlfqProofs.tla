----------------------------- MODULE MlfqProofs -----------------------------
(***************************************************************************)
(* Proofs about Mlfq for a table of any size, any number of queues and any *)
(* number of reuses of a slot.                                             *)
(***************************************************************************)
EXTENDS Mlfq, WellFoundedInduction, TLAPS

\* A set of numbers that is not empty has a least element.
LEMMA LeastNumber ==
  ASSUME NEW T, T \subseteq Nat, T # {}
  PROVE  \E m \in T : \A n \in T : m <= n
<1> DEFINE R == OpToRel(<, Nat)
<1>1. IsWellFoundedOn(R, Nat)
  BY NatLessThanWellFounded
<1>2. \A x, y \in Nat : <<y, x>> \in R <=> y < x
  BY DEF OpToRel
<1> HIDE DEF R
<1>3. PICK m \in T : \A n \in T : ~(<<n, m>> \in R)
  BY <1>1, WFMin
<1>4. \A n \in T : m <= n
  <2>1. SUFFICES ASSUME NEW n \in T PROVE m <= n
    OBVIOUS
  <2>2. m \in Nat /\ n \in Nat /\ ~(n < m)
    BY <1>2, <1>3
  <2> QED
    BY <2>2
<1> QED
  BY <1>4

-----------------------------------------------------------------------------

\* s has at most one entry in q.
Once(q, s) == \A i, j \in 1..Len(q) : q[i] = s /\ q[j] = s => i = j

\* The queues qs keep the slots: those of live, which have a process, are in
\* the queue of their level lv; those of first, taken once, have no other
\* entry; those of fresh, never taken, have none; and below level 0 no queue
\* has two entries of a slot.
Keeps(qs, lv, live, first, fresh) ==
    /\ qs \in [Levels -> Seq(Slots)]
    /\ lv \in [Slots -> Levels]
    /\ \A s \in live : Contains(qs[lv[s]], s)
    /\ \A l \in Levels, s \in Slots : l # 0 => Once(qs[l], s)
    /\ \A l \in Levels, s \in live \cap first :
          Contains(qs[l], s) => l = lv[s] /\ Once(qs[l], s)
    /\ \A l \in Levels, s \in fresh : ~Contains(qs[l], s)

Live  == {s \in Slots : state[s] # "UNUSED"}
First == {s \in Slots : allocs[s] = 1}
Fresh == {s \in Slots : allocs[s] = 0}

\* The variables on which the queues depend have their types.
TypeOK ==
    /\ state \in [Slots -> {"UNUSED", "SLEEPING", "RUNNABLE", "RUNNING", "ZOMBIE"}]
    /\ qno \in [Slots -> Levels]
    /\ cproc \in Slots \cup {NULL}
    /\ allocs \in [Slots -> Nat]

\* c->proc is the process that is RUNNING, and no other is.
OnCpu == \A s \in Slots : state[s] = "RUNNING" <=> cproc = s

IInv ==
    /\ TypeOK
    /\ OnCpu
    /\ Live \cap Fresh = {}
    /\ Keeps(queue, qno, Live, First, Fresh)

-----------------------------------------------------------------------------
(* Queues                                                                  *)

\* An entry is appended.
LEMMA Appended ==
  ASSUME NEW q \in Seq(Slots), NEW s \in Slots
  PROVE  /\ Append(q, s) \in Seq(Slots)
         /\ \A t \in Slots : Contains(Append(q, s), t) <=> Contains(q, t) \/ t = s
         /\ \A t \in Slots : Once(q, t) /\ (t = s => ~Contains(q, t)) => Once(Append(q, s), t)
<1> DEFINE a == Append(q, s)
           n == Len(q)
<1>1. /\ a \in Seq(Slots) /\ n \in Nat /\ Len(a) = n + 1 /\ a[n + 1] = s
      /\ \A i \in 1..n : a[i] = q[i]
  OBVIOUS
<1> HIDE DEF a, n
<1>2. \A i \in 1..(n + 1) : i \in 1..n \/ i = n + 1
  BY <1>1
<1>3. n + 1 \in 1..(n + 1) /\ 1..n \subseteq 1..(n + 1)
  BY <1>1
<1>4. ASSUME NEW t \in Slots
      PROVE  Contains(a, t) <=> Contains(q, t) \/ t = s
  BY <1>1, <1>2, <1>3 DEF Contains, n
<1>5. ASSUME NEW t \in Slots, Once(q, t), t = s => ~Contains(q, t)
      PROVE  Once(a, t)
  <2>1. SUFFICES ASSUME NEW i \in 1..(n + 1), NEW j \in 1..(n + 1), a[i] = t, a[j] = t
                 PROVE  i = j
    BY <1>1 DEF Once
  <2>2. CASE i \in 1..n /\ j \in 1..n
    BY <1>1, <1>5, <2>1, <2>2 DEF Once, n
  <2>3. CASE i \in 1..n /\ j = n + 1
    BY <1>1, <1>5, <2>1, <2>3 DEF Contains, n
  <2>4. CASE j \in 1..n /\ i = n + 1
    BY <1>1, <1>5, <2>1, <2>4 DEF Contains, n
  <2> QED
    BY <1>2, <2>2, <2>3, <2>4
<1> QED
  BY <1>1, <1>4, <1>5 DEF a

\* The entry at position i is removed.
LEMMA Removed ==
  ASSUME NEW q \in Seq(Slots), NEW i \in 1..Len(q)
  PROVE  /\ RemoveAt(q, i) \in Seq(Slots)
         /\ \A t \in Slots : Contains(RemoveAt(q, i), t) => Contains(q, t)
         /\ \A t \in Slots : Contains(q, t) /\ t # q[i] => Contains(RemoveAt(q, i), t)
         /\ \A t \in Slots : Once(q, t) => Once(RemoveAt(q, i), t)
         /\ Once(q, q[i]) => ~Contains(RemoveAt(q, i), q[i])
<1> DEFINE x == SubSeq(q, 1, i - 1)
           y == SubSeq(q, i + 1, Len(q))
           r == RemoveAt(q, i)
           n == Len(q)
           at(j) == IF j < i THEN j ELSE j + 1
<1>1. n \in Nat /\ i \in Nat /\ 1 <= i /\ i <= n
  OBVIOUS
<1>2. x \in Seq(Slots) /\ Len(x) = i - 1 /\ \A j \in 1..(i - 1) : x[j] = q[j]
  OBVIOUS
<1>3. y \in Seq(Slots) /\ Len(y) = n - i /\ \A j \in 1..(n - i) : y[j] = q[i + j]
  OBVIOUS
<1>4. r = x \o y
  BY DEF RemoveAt
<1> HIDE DEF x, y, r, n
<1>5. /\ r \in Seq(Slots) /\ Len(r) = n - 1
      /\ \A j \in 1..(i - 1) : r[j] = x[j]
      /\ \A j \in 1..(n - i) : r[(i - 1) + j] = y[j]
  <2>1. /\ x \o y \in Seq(Slots) /\ Len(x \o y) = Len(x) + Len(y)
        /\ \A j \in 1..Len(x) : (x \o y)[j] = x[j]
        /\ \A j \in 1..Len(y) : (x \o y)[Len(x) + j] = y[j]
    BY <1>2, <1>3
  <2>2. Len(x) + Len(y) = n - 1
    BY <1>1, <1>2, <1>3
  <2> QED
    BY <1>2, <1>3, <1>4, <2>1, <2>2
<1>6. ASSUME NEW j \in 1..(n - 1)
      PROVE  r[j] = q[at(j)] /\ at(j) \in 1..n /\ at(j) # i
  <2>1. CASE j < i
    BY <1>1, <1>2, <1>5, <2>1
  <2>2. CASE j >= i
    <3>1. j - (i - 1) \in 1..(n - i) /\ (i - 1) + (j - (i - 1)) = j
          /\ i + (j - (i - 1)) = j + 1
      BY <1>1, <2>2
    <3>2. r[j] = q[j + 1]
      BY <1>3, <1>5, <3>1
    <3> QED
      BY <1>1, <2>2, <3>2
  <2> QED
    BY <1>1, <2>1, <2>2
<1>7. ASSUME NEW t \in Slots, Contains(r, t)
      PROVE  Contains(q, t)
  BY <1>5, <1>6, <1>7 DEF Contains, n
<1>8. ASSUME NEW t \in Slots, Contains(q, t), t # q[i]
      PROVE  Contains(r, t)
  <2>1. PICK k \in 1..n : q[k] = t
    BY <1>8 DEF Contains, n
  <2>2. PICK j \in 1..(n - 1) : k = at(j)
    <3>1. CASE k < i
      <4>1. k \in 1..(n - 1) /\ k = at(k)
        BY <1>1, <3>1
      <4> QED
        BY <4>1
    <3>2. CASE k > i
      <4>1. k - 1 \in 1..(n - 1) /\ k = at(k - 1)
        BY <1>1, <3>2
      <4> QED
        BY <4>1
    <3>3. k # i
      BY <1>8, <2>1
    <3> QED
      BY <1>1, <3>1, <3>2, <3>3
  <2> QED
    BY <1>5, <1>6, <2>1, <2>2 DEF Contains
<1>9. ASSUME NEW t \in Slots, Once(q, t)
      PROVE  Once(r, t)
  <2>1. SUFFICES ASSUME NEW j \in 1..(n - 1), NEW k \in 1..(n - 1), r[j] = t, r[k] = t
                 PROVE  j = k
    BY <1>5 DEF Once
  <2>2. at(j) = at(k)
    BY <1>6, <1>9, <2>1 DEF Once, n
  <2> QED
    BY <1>1, <2>2
<1>10. ASSUME Once(q, q[i]), Contains(r, q[i])
       PROVE  FALSE
  <2>1. PICK j \in 1..(n - 1) : r[j] = q[i]
    BY <1>5, <1>10 DEF Contains
  <2>2. q[at(j)] = q[i] /\ at(j) \in 1..n /\ at(j) # i
    BY <1>6, <2>1
  <2> QED
    BY <1>10, <2>2 DEF Once, n
<1> QED
  BY <1>5, <1>7, <1>8, <1>9, <1>10 DEF r

\* The searches find the entry if there is one.
LEMMA Found ==
  ASSUME NEW q \in Seq(Slots), NEW s \in Slots, Contains(q, s)
  PROVE  /\ FirstIndex(q, s) \in 1..Len(q) /\ q[FirstIndex(q, s)] = s
         /\ LastIndex(q, s) \in 1..Len(q) /\ q[LastIndex(q, s)] = s
<1> DEFINE P == {i \in 1..Len(q) : q[i] = s}
           R == {k \in 0..Len(q) : k < Len(q) /\ q[Len(q) - k] = s}
<1>1. P # {} /\ P \subseteq Nat /\ Len(q) \in Nat
  BY DEF Contains
<1>2. \E i \in DOMAIN q : q[i] = s /\ \A j \in 1..(i - 1) : q[j] # s
  <2>1. PICK i \in P : \A j \in P : i <= j
    BY <1>1, LeastNumber
  <2>2. ASSUME NEW j \in 1..(i - 1), q[j] = s PROVE FALSE
    <3>1. j \in P /\ j < i
      BY <1>1, <2>2
    <3> QED
      BY <1>1, <2>1, <3>1
  <2>3. i \in DOMAIN q /\ q[i] = s
    OBVIOUS
  <2> QED
    BY <2>2, <2>3
<1>3. \E i \in DOMAIN q : q[i] = s /\ \A j \in (i + 1)..Len(q) : q[j] # s
  <2>1. R # {} /\ R \subseteq Nat
    <3>1. PICK i \in 1..Len(q) : q[i] = s
      BY DEF Contains
    <3>2. Len(q) - i \in 0..Len(q) /\ Len(q) - i < Len(q) /\ Len(q) - (Len(q) - i) = i
      BY <1>1
    <3> QED
      BY <1>1, <3>1, <3>2
  <2>2. PICK k \in R : \A j \in R : k <= j
    BY <2>1, LeastNumber
  <2>3. k \in Nat /\ k < Len(q) /\ q[Len(q) - k] = s
    BY <1>1
  <2>4. ASSUME NEW j \in ((Len(q) - k) + 1)..Len(q), q[j] = s PROVE FALSE
    <3>1. Len(q) - j \in 0..Len(q) /\ Len(q) - j < k /\ Len(q) - (Len(q) - j) = j /\ Len(q) - j < Len(q)
      BY <1>1, <2>3
    <3>2. Len(q) - j \in R
      BY <2>4, <3>1
    <3> QED
      BY <1>1, <2>2, <2>3, <3>1, <3>2
  <2>5. Len(q) - k \in DOMAIN q
    BY <1>1, <2>3
  <2> QED
    BY <2>3, <2>4, <2>5
<1>4. FirstIndex(q, s) \in DOMAIN q /\ q[FirstIndex(q, s)] = s
  BY <1>2 DEF FirstIndex
<1>5. LastIndex(q, s) \in DOMAIN q /\ q[LastIndex(q, s)] = s
  BY <1>3 DEF LastIndex
<1> QED
  BY <1>4, <1>5

\* Move keeps every slot, and s is now on level k.
LEMMA MoveKeeps ==
  ASSUME NEW qs, NEW lv, NEW live \in SUBSET Slots, NEW first \in SUBSET Slots,
         NEW fresh \in SUBSET Slots, live \cap fresh = {},
         Keeps(qs, lv, live, first, fresh),
         NEW s \in live, NEW k \in Levels, k # lv[s],
         NEW i \in 1..Len(qs[lv[s]]), qs[lv[s]][i] = s
  PROVE  Keeps(Move(qs, s, lv[s], i, k), [lv EXCEPT ![s] = k], live, first, fresh)
<1> DEFINE l == lv[s]
           out == RemoveAt(qs[l], i)
           in == AppendNew(qs[k], s)
           ms == Move(qs, s, l, i, k)
           mv == [lv EXCEPT ![s] = k]
<1>1. /\ qs \in [Levels -> Seq(Slots)] /\ lv \in [Slots -> Levels] /\ s \in Slots
      /\ l \in Levels /\ qs[l] \in Seq(Slots) /\ qs[k] \in Seq(Slots) /\ l # k
  BY DEF Keeps
<1>2. /\ out \in Seq(Slots)
      /\ \A t \in Slots : Contains(out, t) => Contains(qs[l], t)
      /\ \A t \in Slots : Contains(qs[l], t) /\ t # s => Contains(out, t)
      /\ \A t \in Slots : Once(qs[l], t) => Once(out, t)
      /\ Once(qs[l], s) => ~Contains(out, s)
  BY <1>1, Removed
<1>3. /\ in \in Seq(Slots)
      /\ \A t \in Slots : Contains(in, t) <=> Contains(qs[k], t) \/ t = s
      /\ \A t \in Slots : Once(qs[k], t) => Once(in, t)
  BY <1>1, Appended DEF AppendNew
<1>4. /\ ms \in [Levels -> Seq(Slots)] /\ ms[l] = out /\ ms[k] = in
      /\ \A h \in Levels : h # l /\ h # k => ms[h] = qs[h]
  BY <1>1, <1>2, <1>3 DEF Move
<1>5. mv \in [Slots -> Levels] /\ mv[s] = k /\ \A t \in Slots : t # s => mv[t] = lv[t]
  BY <1>1
<1> HIDE DEF out, in, ms, mv
<1>6. \A t \in live : Contains(ms[mv[t]], t)
  <2>1. SUFFICES ASSUME NEW t \in live PROVE Contains(ms[mv[t]], t)
    OBVIOUS
  <2>2. CASE t = s
    BY <1>1, <1>3, <1>4, <1>5, <2>2
  <2>3. CASE t # s
    <3>1. lv[t] \in Levels /\ mv[t] = lv[t] /\ Contains(qs[lv[t]], t)
      BY <1>1, <1>5, <2>3 DEF Keeps
    <3> QED
      BY <1>2, <1>3, <1>4, <2>3, <3>1
  <2> QED
    BY <2>2, <2>3
<1>7. \A h \in Levels, t \in Slots : h # 0 => Once(ms[h], t)
  <2>1. \A h \in Levels, t \in Slots : h # 0 => Once(qs[h], t)
    BY DEF Keeps
  <2> QED
    BY <1>1, <1>2, <1>3, <1>4, <2>1
<1>8. \A h \in Levels, t \in live \cap first :
         Contains(ms[h], t) => h = mv[t] /\ Once(ms[h], t)
  <2>1. SUFFICES ASSUME NEW h \in Levels, NEW t \in live \cap first, Contains(ms[h], t)
                 PROVE  h = mv[t] /\ Once(ms[h], t)
    OBVIOUS
  <2>2. \A g \in Levels : Contains(qs[g], t) => g = lv[t] /\ Once(qs[g], t)
    BY DEF Keeps
  <2>3. CASE t = s
    <3>1. ~Contains(out, s) /\ ~Contains(qs[k], s)
      <4>1. Contains(qs[l], s)
        BY DEF Keeps
      <4> QED
        BY <1>1, <1>2, <2>2, <2>3, <4>1
    <3>2. h = k
      BY <1>1, <1>4, <2>1, <2>2, <2>3, <3>1
    <3>3. Once(qs[k], s)
      BY <3>1 DEF Once, Contains
    <3> QED
      BY <1>3, <1>4, <1>5, <2>3, <3>2, <3>3
  <2>4. CASE t # s
    <3>1. Contains(qs[h], t)
      BY <1>2, <1>3, <1>4, <2>1, <2>4
    <3> QED
      BY <1>2, <1>3, <1>4, <1>5, <2>2, <2>4, <3>1
  <2> QED
    BY <2>3, <2>4
<1>9. \A h \in Levels, t \in fresh : ~Contains(ms[h], t)
  <2>1. SUFFICES ASSUME NEW h \in Levels, NEW t \in fresh PROVE ~Contains(ms[h], t)
    OBVIOUS
  <2>2. t # s /\ \A g \in Levels : ~Contains(qs[g], t)
    BY DEF Keeps
  <2> QED
    BY <1>1, <1>2, <1>3, <1>4, <2>2
<1> QED
  BY <1>4, <1>5, <1>6, <1>7, <1>8, <1>9 DEF Keeps, ms, mv

\* So does a move to the tail of the same level, below level 0.
LEMMA RotateKeeps ==
  ASSUME NEW qs, NEW lv, NEW live \in SUBSET Slots, NEW first \in SUBSET Slots,
         NEW fresh \in SUBSET Slots, live \cap fresh = {},
         Keeps(qs, lv, live, first, fresh),
         NEW s \in live, lv[s] # 0,
         NEW i \in 1..Len(qs[lv[s]]), qs[lv[s]][i] = s
  PROVE  Keeps([qs EXCEPT ![lv[s]] = Append(RemoveAt(@, i), s)], lv, live, first, fresh)
<1> DEFINE l == lv[s]
           out == RemoveAt(qs[l], i)
           in == Append(out, s)
           ms == [qs EXCEPT ![l] = in]
<1>1. /\ qs \in [Levels -> Seq(Slots)] /\ lv \in [Slots -> Levels] /\ s \in Slots
      /\ l \in Levels /\ qs[l] \in Seq(Slots) /\ Once(qs[l], s)
  BY DEF Keeps
<1>2. /\ out \in Seq(Slots)
      /\ \A t \in Slots : Contains(out, t) => Contains(qs[l], t)
      /\ \A t \in Slots : Contains(qs[l], t) /\ t # s => Contains(out, t)
      /\ \A t \in Slots : Once(qs[l], t) => Once(out, t)
      /\ ~Contains(out, s)
  BY <1>1, Removed
<1> HIDE DEF out
<1>3. /\ in \in Seq(Slots)
      /\ \A t \in Slots : Contains(in, t) <=> Contains(out, t) \/ t = s
      /\ \A t \in Slots : Once(out, t) => Once(in, t)
  BY <1>1, <1>2, Appended
<1>4. /\ ms \in [Levels -> Seq(Slots)] /\ ms[l] = in
      /\ \A h \in Levels : h # l => ms[h] = qs[h]
  BY <1>1, <1>3
<1>5. ms = [qs EXCEPT ![l] = Append(RemoveAt(@, i), s)]
  BY DEF out
<1> HIDE DEF in, ms
<1>6. Contains(qs[l], s)
  BY DEF Keeps
<1>7. \A h \in Levels, t \in Slots : /\ Contains(ms[h], t) <=> Contains(qs[h], t)
                                     /\ Once(qs[h], t) => Once(ms[h], t)
  BY <1>1, <1>2, <1>3, <1>4, <1>6
<1>8. Keeps(ms, lv, live, first, fresh)
  BY <1>1, <1>4, <1>7 DEF Keeps
<1> QED
  BY <1>5, <1>8

\* allocproc() appends a slot without a process to level 0.
LEMMA AllocKeeps ==
  ASSUME NEW qs, NEW lv, NEW live \in SUBSET Slots, NEW first \in SUBSET Slots,
         NEW fresh \in SUBSET Slots, live \cap fresh = {},
         Keeps(qs, lv, live, first, fresh),
         NEW s \in Slots \ live, 0 \in Levels,
         NEW first2 \in SUBSET Slots, first2 \subseteq first \cup {s}, s \in first2 => s \in fresh
  PROVE  Keeps([qs EXCEPT ![0] = Append(@, s)], [lv EXCEPT ![s] = 0],
               live \cup {s}, first2, fresh \ {s})
<1> DEFINE in == Append(qs[0], s)
           ms == [qs EXCEPT ![0] = in]
           mv == [lv EXCEPT ![s] = 0]
<1>1. qs \in [Levels -> Seq(Slots)] /\ lv \in [Slots -> Levels] /\ qs[0] \in Seq(Slots)
  BY DEF Keeps
<1>2. /\ in \in Seq(Slots)
      /\ \A t \in Slots : Contains(in, t) <=> Contains(qs[0], t) \/ t = s
      /\ \A t \in Slots : Once(qs[0], t) /\ (t = s => ~Contains(qs[0], t)) => Once(in, t)
  BY <1>1, Appended
<1>3. /\ ms \in [Levels -> Seq(Slots)] /\ ms[0] = in
      /\ \A h \in Levels : h # 0 => ms[h] = qs[h]
  BY <1>1, <1>2
<1>4. mv \in [Slots -> Levels] /\ mv[s] = 0 /\ \A t \in Slots : t # s => mv[t] = lv[t]
  BY <1>1
<1> HIDE DEF in, ms, mv
<1>5. \A t \in live \cup {s} : Contains(ms[mv[t]], t)
  <2>1. Contains(ms[mv[s]], s)
    BY <1>2, <1>3, <1>4
  <2>2. ASSUME NEW t \in live PROVE Contains(ms[mv[t]], t)
    <3>1. lv[t] \in Levels /\ mv[t] = lv[t] /\ Contains(qs[lv[t]], t)
      BY <1>1, <1>4 DEF Keeps
    <3> QED
      BY <1>2, <1>3, <3>1
  <2> QED
    BY <2>1, <2>2
<1>6. \A h \in Levels, t \in Slots : h # 0 => Once(ms[h], t)
  BY <1>3 DEF Keeps
<1>7. \A h \in Levels, t \in (live \cup {s}) \cap first2 :
         Contains(ms[h], t) => h = mv[t] /\ Once(ms[h], t)
  <2>1. SUFFICES ASSUME NEW h \in Levels, NEW t \in (live \cup {s}) \cap first2,
                        Contains(ms[h], t)
                 PROVE  h = mv[t] /\ Once(ms[h], t)
    OBVIOUS
  <2>2. CASE t = s
    <3>1. \A g \in Levels : ~Contains(qs[g], s)
      BY <2>2 DEF Keeps
    <3>2. h = 0
      BY <1>3, <2>1, <2>2, <3>1
    <3>3. Once(qs[0], s)
      BY <3>1 DEF Once, Contains
    <3> QED
      BY <1>2, <1>3, <1>4, <2>2, <3>1, <3>2, <3>3
  <2>3. CASE t # s
    <3>1. t \in live \cap first /\ Contains(qs[h], t)
      BY <1>2, <1>3, <2>1, <2>3
    <3>2. h = lv[t] /\ Once(qs[h], t)
      BY <3>1 DEF Keeps
    <3> QED
      BY <1>2, <1>3, <1>4, <2>3, <3>2
  <2> QED
    BY <2>2, <2>3
<1>8. \A h \in Levels, t \in fresh \ {s} : ~Contains(ms[h], t)
  BY <1>2, <1>3 DEF Keeps
<1> QED
  BY <1>3, <1>4, <1>5, <1>6, <1>7, <1>8 DEF Keeps, ms, mv, in

\* A slot without a process may be forgotten.
LEMMA FewerKeeps ==
  ASSUME NEW qs, NEW lv, NEW live, NEW live2, NEW first, NEW fresh,
         Keeps(qs, lv, live, first, fresh), live2 \subseteq live
  PROVE  Keeps(qs, lv, live2, first, fresh)
BY DEF Keeps

-----------------------------------------------------------------------------
(* aging()                                                                 *)

\* f is the scan of aging() as far as slot n.
ScanTo(W, n, f) == f = [m \in 0..n |-> IF m = 0 THEN queue ELSE AgeSlot(W, f[m - 1], m)]

\* There is such a scan.
LEMMA ScanExists ==
  ASSUME NEW W
  PROVE  \E f : ScanTo(W, NPROC, f)
<1> DEFINE T == {n \in Nat : ~\E f : ScanTo(W, n, f)}
<1>1. SUFFICES ASSUME T # {} PROVE FALSE
  BY MlfqAssumption
<1>2. PICK n \in T : \A m \in T : n <= m
  BY <1>1, LeastNumber
<1>3. n \in Nat /\ ~\E f : ScanTo(W, n, f)
  OBVIOUS
<1>4. CASE n = 0
  <2> DEFINE f == [m \in 0..0 |-> queue]
  <2>1. ScanTo(W, 0, f)
    BY DEF ScanTo
  <2> QED
    BY <1>3, <1>4, <2>1
<1>5. CASE n # 0
  <2>1. n - 1 \in Nat /\ n - 1 < n
    BY <1>3, <1>5
  <2>2. n - 1 \notin T
    BY <1>2, <1>3, <2>1
  <2>3. PICK f : ScanTo(W, n - 1, f)
    BY <2>1, <2>2
  <2> DEFINE g == [m \in 0..n |-> IF m = n THEN AgeSlot(W, f[n - 1], n) ELSE f[m]]
  <2>4. \A m \in 0..(n - 1) : f[m] = IF m = 0 THEN queue ELSE AgeSlot(W, f[m - 1], m)
    BY <2>3 DEF ScanTo
  <2>5. ASSUME NEW m \in 0..n
        PROVE  g[m] = IF m = 0 THEN queue ELSE AgeSlot(W, g[m - 1], m)
    <3>1. CASE m = 0
      BY <1>3, <1>5, <2>1, <2>4, <3>1
    <3>2. CASE m # 0
      <4>1. m - 1 \in 0..(n - 1) /\ m - 1 \in 0..n /\ m - 1 # n
        BY <1>3, <3>2
      <4>2. g[m - 1] = f[m - 1]
        BY <4>1
      <4>3. CASE m = n
        BY <3>2, <4>2, <4>3
      <4>4. CASE m # n
        <5>1. m \in 0..(n - 1)
          BY <1>3, <4>4
        <5> QED
          BY <2>4, <3>2, <4>2, <4>4, <5>1
      <4> QED
        BY <4>3, <4>4
    <3> QED
      BY <3>1, <3>2
  <2>6. g = [m \in 0..n |-> g[m]]
    OBVIOUS
  <2> HIDE DEF g
  <2>7. ScanTo(W, n, g)
    BY <2>5, <2>6 DEF ScanTo
  <2> QED
    BY <1>3, <2>7
<1> QED
  BY <1>4, <1>5

\* AgedQueue is the end of the scan.
LEMMA AgedIs ==
  ASSUME NEW W
  PROVE  \E f : ScanTo(W, NPROC, f) /\ AgedQueue(W) = f[NPROC]
BY ScanExists DEF ScanTo, AgedQueue

\* The numbers.
LEMMA Sizes ==
  /\ NPROC \in Nat /\ Slots \subseteq Nat /\ \A s \in Slots : 1 <= s /\ s <= NPROC
  /\ NQ \in Nat /\ Levels \subseteq Nat /\ 0 \in Levels
  /\ LastLevel \in Levels /\ LastLevel # 0 /\ NULL \notin Slots
  /\ \A l \in Levels : /\ l # 0 => l - 1 \in Levels /\ l - 1 # l
                       /\ l # LastLevel => l + 1 \in Levels /\ l + 1 # l
BY MlfqAssumption DEF Slots, Levels, LastLevel

\* Who is promoted exists, is not the process that runs and is not on level 0.
LEMMA PromotedIs ==
  ASSUME IInv, NEW W \in SUBSET Sleepers, NEW s \in Promoted(W)
  PROVE  s \in Live /\ qno[s] \in Levels /\ qno[s] # 0 /\ s # cproc
<1>1. s \in Slots /\ Woken(W)[s] = "RUNNABLE" /\ qno[s] > 0
  BY DEF Promoted, Aged
<1>2. state[s] \in {"SLEEPING", "RUNNABLE"}
  BY <1>1 DEF Woken, Sleepers
<1>3. qno[s] \in Levels /\ qno[s] # 0
  BY <1>1, Sizes DEF IInv, TypeOK
<1> QED
  BY <1>1, <1>2, <1>3 DEF IInv, OnCpu, Live

\* aging() keeps every slot, although it moves several, one after the other.
LEMMA AgedKeeps ==
  ASSUME IInv, NEW W \in SUBSET Sleepers
  PROVE  Keeps(AgedQueue(W), AgedQno(W), Live, First, Fresh)
<1>1. PICK f : ScanTo(W, NPROC, f) /\ AgedQueue(W) = f[NPROC]
  BY AgedIs
<1> DEFINE lv(n) == [s \in Slots |-> IF s \in Promoted(W) /\ s <= n THEN qno[s] - 1 ELSE qno[s]]
           T == {n \in Nat : n <= NPROC /\ ~Keeps(f[n], lv(n), Live, First, Fresh)}
<1>2. /\ \A n \in 0..NPROC : f[n] = IF n = 0 THEN queue ELSE AgeSlot(W, f[n - 1], n)
      /\ NPROC \in Nat
  BY <1>1, Sizes DEF ScanTo
<1>3. /\ Live \in SUBSET Slots /\ First \in SUBSET Slots /\ Fresh \in SUBSET Slots
      /\ Live \cap Fresh = {} /\ Keeps(queue, qno, Live, First, Fresh) /\ qno \in [Slots -> Levels]
  BY DEF IInv, TypeOK, Live, First, Fresh
<1>4. ASSUME T # {} PROVE FALSE
  <2>1. PICK n \in T : \A m \in T : n <= m
    BY <1>4, LeastNumber
  <2>2. n \in 0..NPROC /\ n \in Nat /\ ~Keeps(f[n], lv(n), Live, First, Fresh)
    BY <1>2
  <2>3. CASE n = 0
    <3>1. lv(0) = qno
      <4>1. \A s \in Slots : ~(s <= 0)
        BY Sizes
      <4> QED
        BY <1>3, <4>1
    <3>2. f[0] = queue
      BY <1>2, <2>2, <2>3
    <3> QED
      BY <1>3, <2>2, <2>3, <3>1, <3>2
  <2>4. CASE n # 0
    <3>1. n - 1 \in Nat /\ n - 1 < n /\ n - 1 <= NPROC
      BY <1>2, <2>2, <2>4
    <3>2. Keeps(f[n - 1], lv(n - 1), Live, First, Fresh)
      BY <2>1, <2>2, <3>1
    <3>3. f[n] = AgeSlot(W, f[n - 1], n)
      BY <1>2, <2>2, <2>4
    <3>4. CASE n \notin Promoted(W)
      <4>1. \A s \in Slots : s \in Promoted(W) /\ s <= n <=> s \in Promoted(W) /\ s <= n - 1
        BY <2>2, <3>4, Sizes
      <4>2. lv(n) = lv(n - 1)
        BY <4>1
      <4>3. f[n] = f[n - 1]
        BY <3>3, <3>4 DEF AgeSlot
      <4> QED
        BY <2>2, <3>2, <4>2, <4>3
    <3>5. CASE n \in Promoted(W)
      <4>1. n \in Live /\ n \in Slots /\ qno[n] \in Levels /\ qno[n] # 0
        BY <1>3, <3>5, PromotedIs
      <4> DEFINE qs == f[n - 1]
                 i == FirstIndex(qs[qno[n]], n)
      <4>2. lv(n - 1)[n] = qno[n]
        BY <2>2, <4>1
      <4>3. qs \in [Levels -> Seq(Slots)] /\ Contains(qs[qno[n]], n)
        BY <3>2, <4>1, <4>2 DEF Keeps
      <4>4. i \in 1..Len(qs[qno[n]]) /\ qs[qno[n]][i] = n
        BY <4>1, <4>3, Found
      <4>5. lv(n) = [lv(n - 1) EXCEPT ![n] = qno[n] - 1]
        <5>1. \A s \in Slots : s # n => (s <= n <=> s <= n - 1)
          BY <2>2, Sizes
        <5>2. lv(n)[n] = qno[n] - 1
          BY <2>2, <3>5, <4>1
        <5>3. \A s \in Slots : s # n => lv(n)[s] = lv(n - 1)[s]
          BY <5>1
        <5>4. lv(n) = [s \in Slots |-> lv(n)[s]] /\ lv(n - 1) = [s \in Slots |-> lv(n - 1)[s]]
          OBVIOUS
        <5> HIDE DEF lv
        <5>5. [lv(n - 1) EXCEPT ![n] = qno[n] - 1] =
                [s \in Slots |-> IF s = n THEN qno[n] - 1 ELSE lv(n - 1)[s]]
          BY <5>4
        <5>6. \A s \in Slots : lv(n)[s] = IF s = n THEN qno[n] - 1 ELSE lv(n - 1)[s]
          BY <5>2, <5>3
        <5> QED
          BY <5>4, <5>5, <5>6
      <4>6. qno[n] - 1 \in Levels /\ qno[n] - 1 # qno[n]
        BY <4>1, Sizes
      <4>7. f[n] = Move(qs, n, qno[n], i, qno[n] - 1)
        BY <3>3, <3>5 DEF AgeSlot
      <4> HIDE DEF lv, qs, i
      <4>8. Keeps(qs, lv(n - 1), Live, First, Fresh)
        BY <3>2 DEF qs
      <4>9. Keeps(Move(qs, n, lv(n - 1)[n], i, qno[n] - 1),
                  [lv(n - 1) EXCEPT ![n] = qno[n] - 1], Live, First, Fresh)
        BY <1>3, <4>1, <4>2, <4>4, <4>6, <4>8, MoveKeeps
      <4> QED
        BY <2>2, <4>2, <4>5, <4>7, <4>9
    <3> QED
      BY <3>4, <3>5
  <2> QED
    BY <2>3, <2>4
<1>5. Keeps(f[NPROC], lv(NPROC), Live, First, Fresh)
  <2>1. NPROC \notin T
    BY <1>4
  <2> QED
    BY <1>2, <2>1
<1>6. lv(NPROC) = AgedQno(W)
  BY Sizes DEF AgedQno
<1> QED
  BY <1>1, <1>5, <1>6

-----------------------------------------------------------------------------
(* Invariance                                                              *)

\* An operation that leaves the queues, and who exists, alone.
LEMMA QueuesSame ==
  ASSUME IInv, TypeOK', OnCpu', Live' \subseteq Live, UNCHANGED <<qno, queue, allocs>>
  PROVE  IInv'
<1>1. First' = First /\ Fresh' = Fresh
  BY DEF First, Fresh
<1>2. Keeps(queue, qno, Live', First, Fresh)
  BY FewerKeeps DEF IInv
<1>3. Live' \cap Fresh' = {}
  BY <1>1 DEF IInv
<1> QED
  BY <1>1, <1>2, <1>3 DEF IInv, Keeps

\* A process is dispatched.
LEMMA DispatchInv ==
  ASSUME IInv, NEW s \in Slots, Dispatch(s)
  PROVE  IInv'
<1>1. TypeOK /\ OnCpu /\ state[s] = "RUNNABLE" /\ cproc = NULL /\ NULL \notin Slots
  BY Sizes DEF IInv, Dispatch, Chosen
<1>2. TypeOK' /\ OnCpu'
  BY <1>1 DEF TypeOK, OnCpu, Dispatch
<1>3. Live' \subseteq Live
  BY <1>1 DEF TypeOK, Live, Dispatch
<1> QED
  BY <1>2, <1>3, QueuesSame DEF Dispatch

\* A process gives up the CPU.
LEMMA LeaveInv ==
  ASSUME IInv, NEW st \in {"SLEEPING", "ZOMBIE"}, Leave(st)
  PROVE  IInv'
<1>1. TypeOK /\ OnCpu /\ cproc \in Slots /\ state[cproc] = "RUNNING" /\ NULL \notin Slots
  BY Sizes DEF IInv, TypeOK, OnCpu, Leave
<1>2. TypeOK' /\ OnCpu'
  BY <1>1 DEF TypeOK, OnCpu, Leave
<1>3. Live' \subseteq Live
  BY <1>1 DEF TypeOK, Live, Leave
<1> QED
  BY <1>2, <1>3, QueuesSame DEF Leave

\* wakeup() and wait() change the state of a process that does not run.
LEMMA TableInv ==
  ASSUME IInv, NEW s \in Slots, wakeup(s) \/ wait(s)
  PROVE  IInv'
<1>1. TypeOK /\ OnCpu /\ state[s] \in {"SLEEPING", "ZOMBIE"}
  BY DEF IInv, wakeup, wait
<1>2. TypeOK' /\ OnCpu'
  BY <1>1 DEF TypeOK, OnCpu, wakeup, wait
<1>3. Live' \subseteq Live
  BY <1>1 DEF TypeOK, Live, wakeup, wait
<1> QED
  BY <1>2, <1>3, QueuesSame DEF wakeup, wait

\* A slot is taken.
LEMMA AllocprocInv ==
  ASSUME IInv, NEW s \in Slots, NEW st \in {"RUNNABLE", "UNUSED"}, allocproc(s, st)
  PROVE  IInv'
<1>1. /\ TypeOK /\ OnCpu /\ state[s] = "UNUSED" /\ s \in Slots \ Live
      /\ Live \cap Fresh = {} /\ Keeps(queue, qno, Live, First, Fresh)
  BY DEF IInv, allocproc, Live
<1>2. TypeOK' /\ OnCpu'
  BY <1>1, Sizes DEF TypeOK, OnCpu, allocproc
<1>3. Live' \subseteq Live \cup {s}
  BY <1>1 DEF TypeOK, Live, allocproc
<1>4. /\ First' \in SUBSET Slots /\ First' \subseteq First \cup {s}
      /\ s \in First' => s \in Fresh
      /\ Fresh' = Fresh \ {s}
  BY <1>1 DEF TypeOK, First, Fresh, allocproc
<1>5. Keeps(queue', qno', Live \cup {s}, First', Fresh')
  <2>1. /\ queue' = [queue EXCEPT ![0] = Append(@, s)]
        /\ qno' = [qno EXCEPT ![s] = 0]
    BY DEF allocproc
  <2>2. Live \in SUBSET Slots /\ First \in SUBSET Slots /\ Fresh \in SUBSET Slots /\ 0 \in Levels
    BY Sizes DEF Live, First, Fresh
  <2> QED
    BY <1>1, <1>4, <2>1, <2>2, AllocKeeps
<1>6. Keeps(queue', qno', Live', First', Fresh')
  BY <1>3, <1>5, FewerKeeps
<1>7. Live' \cap Fresh' = {}
  BY <1>1, <1>3, <1>4
<1> QED
  BY <1>2, <1>6, <1>7 DEF IInv, Keeps

\* The sleepers that the clock wakes.
LEMMA WokenIs ==
  ASSUME IInv, NEW W \in SUBSET Sleepers
  PROVE  /\ Woken(W) \in [Slots -> {"UNUSED", "SLEEPING", "RUNNABLE", "RUNNING", "ZOMBIE"}]
         /\ \A s \in Slots : /\ Woken(W)[s] = "UNUSED" <=> state[s] = "UNUSED"
                             /\ Woken(W)[s] = "RUNNING" <=> state[s] = "RUNNING"
                             /\ state[s] = "RUNNABLE" => Woken(W)[s] = "RUNNABLE"
BY DEF IInv, TypeOK, Woken, Sleepers

\* The clock ticks: who exists does not change.
LEMMA TickInv ==
  ASSUME IInv, NEW W \in SUBSET Sleepers, UNCHANGED allocs,
         \/ state' = Woken(W) /\ cproc' = cproc
         \/ /\ cproc # NULL /\ cproc' = NULL
            /\ \E st \in {"RUNNABLE", "ZOMBIE"} : state' = [Woken(W) EXCEPT ![cproc] = st],
         Keeps(queue', qno', Live, First, Fresh)
  PROVE  IInv'
<1>1. TypeOK /\ OnCpu /\ Live \cap Fresh = {} /\ NULL \notin Slots
  BY Sizes DEF IInv
<1>2. cproc # NULL => cproc \in Slots /\ state[cproc] = "RUNNING"
  BY <1>1 DEF TypeOK, OnCpu
<1>3. /\ state' \in [Slots -> {"UNUSED", "SLEEPING", "RUNNABLE", "RUNNING", "ZOMBIE"}]
      /\ \A s \in Slots : state'[s] = "UNUSED" <=> state[s] = "UNUSED"
  BY <1>2, WokenIs
<1>4. OnCpu'
  BY <1>1, <1>2, WokenIs DEF OnCpu
<1>5. TypeOK'
  BY <1>1, <1>3 DEF TypeOK, Keeps
<1>6. Live' = Live /\ First' = First /\ Fresh' = Fresh
  BY <1>3 DEF Live, First, Fresh
<1> QED
  BY <1>1, <1>4, <1>5, <1>6 DEF IInv, Keeps

\* A slice is used up: the process moves to the next level.
LEMMA TickSliceKeeps ==
  ASSUME IInv, NEW W \in SUBSET Sleepers, TickSlice(W)
  PROVE  Keeps(queue', qno', Live, First, Fresh)
<1> DEFINE s == cproc
           l == qno[s]
           qs == AgedQueue(W)
           lv == AgedQno(W)
           i == IF l = 0 THEN LastIndex(qs[0], s) ELSE FirstIndex(qs[l], s)
<1>1. /\ s \in Slots /\ s \in Live /\ Live \in SUBSET Slots /\ First \in SUBSET Slots
      /\ Fresh \in SUBSET Slots /\ Live \cap Fresh = {} /\ l \in Levels
  <2>1. s \in Slots /\ state[s] = "RUNNING"
    BY DEF IInv, TypeOK, OnCpu, TickSlice
  <2> QED
    BY <2>1 DEF IInv, TypeOK, Live, First, Fresh
<1>2. Keeps(qs, lv, Live, First, Fresh)
  BY AgedKeeps
<1>3. lv[s] = l
  BY <1>1, PromotedIs DEF AgedQno
<1>4. /\ IF l = LastLevel
         THEN queue' = [qs EXCEPT ![l] = Append(RemoveAt(@, i), s)] /\ qno' = lv
         ELSE queue' = Move(qs, s, l, i, l + 1) /\ qno' = [lv EXCEPT ![s] = l + 1]
  BY DEF TickSlice
<1>5. qs \in [Levels -> Seq(Slots)] /\ qs[l] \in Seq(Slots) /\ Contains(qs[l], s)
  BY <1>1, <1>2, <1>3 DEF Keeps
<1>6. i \in 1..Len(qs[l]) /\ qs[l][i] = s
  BY <1>1, <1>5, Found
<1> HIDE DEF qs, lv, i
<1>7. CASE l = LastLevel
  <2>1. lv[s] # 0
    BY <1>3, <1>7, Sizes
  <2>2. Keeps([qs EXCEPT ![lv[s]] = Append(RemoveAt(@, i), s)], lv, Live, First, Fresh)
    BY <1>1, <1>2, <1>3, <1>6, <2>1, RotateKeeps
  <2> QED
    BY <1>3, <1>4, <1>7, <2>2
<1>8. CASE l # LastLevel
  <2>1. l + 1 \in Levels /\ l + 1 # lv[s]
    BY <1>1, <1>3, <1>8, Sizes
  <2>2. Keeps(Move(qs, s, lv[s], i, l + 1), [lv EXCEPT ![s] = l + 1], Live, First, Fresh)
    BY <1>1, <1>2, <1>3, <1>6, <2>1, MoveKeeps
  <2> QED
    BY <1>3, <1>4, <1>8, <2>2
<1> QED
  BY <1>7, <1>8

\* IInv is inductive.
LEMMA NextInv ==
  ASSUME IInv, [Next]_vars
  PROVE  IInv'
<1>1. CASE \E s \in Slots : Dispatch(s) \/ wakeup(s) \/ wait(s)
  BY <1>1, DispatchInv, TableInv
<1>2. CASE \E s \in Slots, st \in {"RUNNABLE", "UNUSED"} : allocproc(s, st)
  BY <1>2, AllocprocInv
<1>3. CASE sleep \/ exit
  BY <1>3, LeaveInv DEF sleep, exit
<1>4. ASSUME NEW W \in SUBSET Sleepers, TickIdle(W) \/ TickInSlice(W) \/ TickKilled(W)
      PROVE  IInv'
  <2>1. Keeps(queue', qno', Live, First, Fresh)
    BY <1>4, AgedKeeps DEF TickIdle, TickInSlice, TickKilled
  <2> QED
    BY <1>4, <2>1, TickInv DEF TickIdle, TickInSlice, TickKilled, Clock
<1>5. ASSUME NEW W \in SUBSET Sleepers, TickSlice(W)
      PROVE  IInv'
  <2>1. Keeps(queue', qno', Live, First, Fresh)
    BY <1>5, TickSliceKeeps
  <2> QED
    BY <1>5, <2>1, TickInv DEF TickSlice, Clock
<1>6. CASE UNCHANGED vars
  BY <1>6 DEF IInv, TypeOK, OnCpu, Live, First, Fresh, Keeps, vars
<1> QED
  BY <1>1, <1>2, <1>3, <1>4, <1>5, <1>6 DEF Next, TickRunning

-----------------------------------------------------------------------------
(* Theorems                                                                *)

\* userinit() has put init into q0.
LEMMA InitInv ==
  ASSUME Init
  PROVE  IInv
<1>1. initproc \in Slots /\ 0 \in Levels /\ NULL \notin Slots
  BY Sizes, MlfqAssumption DEF initproc, Slots
<1>2. TypeOK /\ OnCpu /\ Live = {initproc} /\ First = {initproc} /\ Live \cap Fresh = {}
  BY <1>1 DEF Init, TypeOK, OnCpu, Live, First, Fresh
<1>3. \A q, s : q = <<>> => ~Contains(q, s) /\ Once(q, s)
  BY DEF Contains, Once
<1>4. \A s \in Slots : /\ Contains(<<initproc>>, s) <=> s = initproc
                       /\ Once(<<initproc>>, s)
  BY <1>1 DEF Contains, Once
<1>5. /\ queue \in [Levels -> Seq(Slots)] /\ qno \in [Slots -> Levels]
      /\ queue[0] = <<initproc>> /\ qno[initproc] = 0
      /\ \A l \in Levels : l # 0 => queue[l] = <<>>
  BY <1>1 DEF Init
<1>6. \A l \in Levels, s \in Slots : /\ Once(queue[l], s)
                                     /\ Contains(queue[l], s) <=> l = 0 /\ s = initproc
  BY <1>3, <1>4, <1>5
<1>7. Keeps(queue, qno, Live, First, Fresh)
  <2>1. initproc \notin Fresh /\ Fresh \subseteq Slots
    BY <1>1 DEF Init, Fresh
  <2> QED
    BY <1>1, <1>2, <1>5, <1>6, <2>1 DEF Keeps
<1> QED
  BY <1>2, <1>7 DEF IInv

\* The strengthening that the other theorems are read off: the queues keep
\* every slot, see Keeps.
THEOREM Invariance == Spec => []IInv
<1>1. Init => IInv
  BY InitInv
<1>2. IInv /\ [Next]_vars => IInv'
  BY NextInv
<1> QED
  BY <1>1, <1>2, PTL DEF Spec

\* Every process is in the queue its qno names, however many aging() moves
\* in one tick and however often its slot is reused: the searches of trap()
\* and aging() never fail.
THEOREM AlwaysQueued == Spec => []InOwnQueue
<1>1. IInv => InOwnQueue
  BY DEF IInv, Keeps, Live, InOwnQueue
<1> QED
  BY <1>1, Invariance, PTL

\* The first process of a slot has one entry in all queues, and below q0 no
\* queue has two of any slot, so that only q0 can outgrow the process table.
THEOREM EntriesUnique == Spec => []OneEntry
<1>1. ASSUME IInv PROVE OneEntry
  <2>1. SUFFICES ASSUME NEW l \in Levels, NEW k \in Levels,
                        NEW i \in DOMAIN queue[l], NEW j \in DOMAIN queue[k],
                        queue[l][i] = queue[k][j]
                 PROVE  LET s == queue[l][i]
                        IN /\ allocs[s] = 1 /\ state[s] # "UNUSED" => l = k /\ i = j
                           /\ l = k /\ l # 0 => i = j
    BY DEF OneEntry
  <2> DEFINE s == queue[l][i]
  <2>2. /\ queue[l] \in Seq(Slots) /\ queue[k] \in Seq(Slots)
        /\ i \in 1..Len(queue[l]) /\ j \in 1..Len(queue[k])
    BY <1>1 DEF IInv, Keeps
  <2>3. s \in Slots /\ queue[k][j] = s /\ Contains(queue[l], s) /\ Contains(queue[k], s)
    BY <2>1, <2>2 DEF Contains
  <2> HIDE DEF s
  <2>4. ASSUME l = k, Once(queue[l], s) PROVE i = j
    BY <2>2, <2>3, <2>4 DEF Once, s
  <2>5. ASSUME allocs[s] = 1, state[s] # "UNUSED" PROVE l = k /\ i = j
    <3>1. s \in Live \cap First
      BY <2>3, <2>5 DEF Live, First
    <3>2. l = qno[s] /\ k = qno[s] /\ Once(queue[l], s)
      BY <1>1, <2>3, <3>1 DEF IInv, Keeps
    <3> QED
      BY <2>4, <3>2
  <2>6. ASSUME l = k, l # 0 PROVE i = j
    <3>1. Once(queue[l], s)
      BY <1>1, <2>3, <2>6 DEF IInv, Keeps
    <3> QED
      BY <2>4, <2>6, <3>1
  <2> QED
    BY <2>5, <2>6 DEF s
<1> QED
  BY <1>1, Invariance, PTL

\* Only Dispatch makes a RUNNABLE process RUNNING.
LEMMA OnlyDispatch ==
  ASSUME IInv, [Next]_vars, NEW s \in Slots, state[s] = "RUNNABLE", state'[s] = "RUNNING"
  PROVE  Dispatch(s)
<1>1. TypeOK /\ OnCpu
  BY DEF IInv
<1>2. CASE \E t \in Slots : Dispatch(t) \/ wakeup(t) \/ wait(t)
  BY <1>1, <1>2 DEF TypeOK, Dispatch, wakeup, wait
<1>3. CASE \E t \in Slots, st \in {"RUNNABLE", "UNUSED"} : allocproc(t, st)
  BY <1>1, <1>3 DEF TypeOK, allocproc
<1>4. CASE sleep \/ exit
  BY <1>1, <1>4 DEF TypeOK, sleep, exit, Leave
<1>5. ASSUME NEW W \in SUBSET Sleepers,
             TickIdle(W) \/ TickSlice(W) \/ TickInSlice(W) \/ TickKilled(W)
      PROVE  FALSE
  <2>1. Woken(W) \in [Slots -> {"UNUSED", "SLEEPING", "RUNNABLE", "RUNNING", "ZOMBIE"}]
        /\ Woken(W)[s] = "RUNNABLE"
    BY WokenIs
  <2>2. \/ state' = Woken(W)
        \/ \E st \in {"RUNNABLE", "ZOMBIE"} : state' = [Woken(W) EXCEPT ![cproc] = st]
    BY <1>5 DEF TickIdle, TickSlice, TickInSlice, TickKilled
  <2> QED
    BY <2>1, <2>2
<1>6. CASE UNCHANGED vars
  BY <1>6 DEF vars
<1> QED
  BY <1>2, <1>3, <1>4, <1>5, <1>6 DEF Next, TickRunning

\* As long as no slot has been reused, MLFQ runs a process of the highest
\* level that has a RUNNABLE one.
THEOREM HighestLevelFirst == Spec => StrictPriority
<1>1. ASSUME IInv, [Next]_vars, NEW s \in Slots, NEW t \in Slots, NoReuse,
             state[s] = "RUNNABLE", state'[s] = "RUNNING", state[t] = "RUNNABLE"
      PROVE  qno[s] <= qno[t]
  <2>1. Dispatch(s)
    BY <1>1, OnlyDispatch
  <2>2. PICK l \in Levels : /\ Contains(queue[l], s)
                            /\ \A k \in 0..(l - 1) : \A j \in DOMAIN queue[k] :
                                  state[queue[k][j]] # "RUNNABLE"
    <3>1. PICK l \in Levels : \E i \in DOMAIN queue[l] :
            /\ queue[l][i] = s
            /\ \A k \in 0..(l - 1) : \A j \in DOMAIN queue[k] :
                  state[queue[k][j]] # "RUNNABLE"
      BY <2>1 DEF Dispatch, Chosen
    <3>2. queue[l] \in Seq(Slots)
      BY <1>1 DEF IInv, Keeps
    <3> QED
      BY <3>1, <3>2 DEF Contains
  <2>3. s \in Live \cap First
    <3>1. allocs[s] \in Nat /\ allocs[s] <= 1 /\ s \in Live /\ s \notin Fresh
      BY <1>1 DEF IInv, TypeOK, NoReuse, Live, Fresh
    <3>2. allocs[s] # 0
      BY <3>1 DEF Fresh
    <3> QED
      BY <3>1, <3>2 DEF First
  <2>4. l = qno[s]
    BY <1>1, <2>2, <2>3 DEF IInv, Keeps
  <2>5. qno[t] \in Levels /\ Contains(queue[qno[t]], t) /\ queue[qno[t]] \in Seq(Slots)
    BY <1>1 DEF IInv, TypeOK, Keeps, Live
  <2>6. ~(qno[t] \in 0..(l - 1))
    <3>1. PICK j \in 1..Len(queue[qno[t]]) : queue[qno[t]][j] = t
      BY <2>5 DEF Contains
    <3>2. j \in DOMAIN queue[qno[t]]
      BY <2>5
    <3> QED
      BY <1>1, <2>2, <3>1, <3>2
  <2>7. l \in Nat /\ qno[t] \in Nat
    BY <2>5, Sizes
  <2>8. l <= qno[t]
    BY <2>6, <2>7
  <2> QED
    BY <2>4, <2>8
<1>2. IInv /\ [Next]_vars =>
        [\A s, t \in Slots :
           NoReuse /\ state[s] = "RUNNABLE" /\ state'[s] = "RUNNING"
           /\ state[t] = "RUNNABLE" => qno[s] <= qno[t]]_vars
  BY <1>1
<1> QED
  BY <1>2, Invariance, PTL DEF Spec, StrictPriority
=============================================================================
