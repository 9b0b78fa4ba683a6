----------------------------- MODULE PipeProofs -----------------------------
(***************************************************************************)
(* Proofs about Pipe for any number of readers and writers, any messages   *)
(* and any size of the ring and range of its counters.                     *)
(***************************************************************************)
EXTENDS Pipe, TLAPS

-----------------------------------------------------------------------------
(* Remainders, for the unsigned indices of the ring, which wrap around    *)

\* A remainder is less than the divisor.
LEMMA ModRange ==
  ASSUME NEW W \in Nat \ {0}, NEW a \in Int
  PROVE  a % W \in 0..(W - 1)
OBVIOUS

\* An index that has not wrapped around.
LEMMA ModSmall ==
  ASSUME NEW W \in Nat \ {0}, NEW a \in 0..(W - 1)
  PROVE  a % W = a
OBVIOUS

\* An index that has wrapped around once.
LEMMA ModOnce ==
  ASSUME NEW W \in Nat \ {0}, NEW a \in W..(2 * W - 1)
  PROVE  a % W = a - W
OBVIOUS

\* The quotient of a number.
LEMMA ModQuotient ==
  ASSUME NEW P \in Nat \ {0}, NEW a \in Int
  PROVE  \E q \in Int : a = q * P + (a % P)
<1>1. a \div P \in Int /\ a = (a \div P) * P + (a % P)
  OBVIOUS
<1> QED
  BY <1>1

\* A number is its quotient and its remainder in one way only.
LEMMA ModUnique ==
  ASSUME NEW P \in Nat \ {0}, NEW a \in Int, NEW q \in Int, NEW m \in 0..(P - 1),
         a = q * P + m
  PROVE  a % P = m
<1>1. PICK k \in Int : a = k * P + (a % P)
  BY ModQuotient
<1>2. a % P \in 0..(P - 1)
  BY ModRange
<1>3. (k - q) * P = m - (a % P)
  BY <1>1, <1>2
<1>4. CASE k - q >= 1
  BY <1>2, <1>3, <1>4
<1>5. CASE k - q <= -1
  BY <1>2, <1>3, <1>5
<1>6. CASE k - q = 0
  BY <1>2, <1>3, <1>6
<1> QED
  BY <1>4, <1>5, <1>6

\* Multiples of the divisor do not matter.
LEMMA ModAdd ==
  ASSUME NEW P \in Nat \ {0}, NEW a \in Int, NEW k \in Int
  PROVE  (a + k * P) % P = a % P
<1>1. PICK q \in Int : a = q * P + (a % P)
  BY ModQuotient
<1>2. a % P \in 0..(P - 1)
  BY ModRange
<1>3. a + k * P = (q + k) * P + (a % P)
  BY <1>1, <1>2
<1>4. q + k \in Int /\ a + k * P \in Int
  OBVIOUS
<1> QED
  BY <1>2, <1>3, <1>4, ModUnique

\* The wrap-around of an index does not move its cell, because the size of
\* the ring divides the range of the index.
LEMMA ModOfMod ==
  ASSUME NEW P \in Nat \ {0}, NEW W \in Nat \ {0}, W % P = 0,
         NEW a \in Int, NEW b \in Int
  PROVE  ((a % W) + b) % P = (a + b) % P
<1>1. PICK q \in Int : a = q * W + (a % W)
  BY ModQuotient
<1>2. PICK k \in Int : W = k * P + (W % P)
  <2>1. W \in Int
    OBVIOUS
  <2> QED
    BY <2>1, ModQuotient
<1>3. a % W \in Int
  BY ModRange
<1>4. a + b = ((a % W) + b) + (q * k) * P
  <2>1. W = k * P
    BY <1>2
  <2> QED
    BY <1>1, <1>3, <2>1
<1>5. q * k \in Int /\ (a % W) + b \in Int
  BY <1>3
<1>6. (((a % W) + b) + (q * k) * P) % P = ((a % W) + b) % P
  BY <1>5, ModAdd
<1> QED
  BY <1>4, <1>6

\* Two indices less than the size of the ring apart have different cells.
LEMMA ModDistinct ==
  ASSUME NEW P \in Nat \ {0}, NEW a \in Int, NEW b \in Int,
         a <= b, b < a + P, a % P = b % P
  PROVE  a = b
<1>1. PICK q \in Int : a = q * P + (a % P)
  BY ModQuotient
<1>2. PICK k \in Int : b = k * P + (b % P)
  BY ModQuotient
<1>3. a % P \in Int
  BY ModRange
<1>4. b - a = (k - q) * P
  BY <1>1, <1>2, <1>3
<1>5. CASE k - q <= 0
  BY <1>4, <1>5
<1>6. CASE k - q >= 1
  BY <1>4, <1>6
<1> QED
  BY <1>5, <1>6

\* The distance from one unsigned index to another.
LEMMA Distance ==
  ASSUME NEW W \in Nat \ {0}, NEW x \in 0..(W - 1), NEW y \in 0..(W - 1)
  PROVE  (x + W - y) % W = IF y <= x THEN x - y ELSE x + W - y
<1>1. CASE y <= x
  <2>1. x + W - y \in W..(2 * W - 1)
    BY <1>1
  <2>2. (x + W - y) % W = x + W - y - W
    BY <2>1, ModOnce
  <2> QED
    BY <1>1, <2>2
<1>2. CASE y > x
  <2>1. x + W - y \in 0..(W - 1)
    BY <1>2
  <2> QED
    BY <1>2, <2>1, ModSmall
<1> QED
  BY <1>1, <1>2

\* An index that moves on by less than its range.
LEMMA Forward ==
  ASSUME NEW W \in Nat \ {0}, NEW x \in 0..(W - 1), NEW k \in 0..(W - 1)
  PROVE  (x + k) % W = IF x + k < W THEN x + k ELSE x + k - W
<1>1. CASE x + k < W
  <2>1. x + k \in 0..(W - 1)
    BY <1>1
  <2> QED
    BY <1>1, <2>1, ModSmall
<1>2. CASE x + k >= W
  <2>1. x + k \in W..(2 * W - 1)
    <3>1. x + k <= (W - 1) + (W - 1)
      OBVIOUS
    <3> QED
      BY <1>2, <3>1
  <2>2. (x + k) % W = x + k - W
    BY <2>1, ModOnce
  <2> QED
    BY <1>2, <2>2
<1> QED
  BY <1>1, <1>2

\* A function on 1..n is a sequence.
LEMMA FunctionSeq ==
  ASSUME NEW S, NEW k \in Nat, NEW f \in [1..k -> S]
  PROVE  f \in Seq(S) /\ Len(f) = k
OBVIOUS

\* Sequences that agree are equal.
LEMMA EqualSeq ==
  ASSUME NEW S, NEW s \in Seq(S), NEW t \in Seq(S), Len(s) = Len(t),
         \A i \in 1..Len(s) : s[i] = t[i]
  PROVE  s = t
OBVIOUS

-----------------------------------------------------------------------------

\* Every variable has its type.
TypeOK ==
    /\ data \in [0..(PIPESIZE - 1) -> Bytes]
    /\ nread \in 0..(Wrap - 1) /\ nwrite \in 0..(Wrap - 1)
    /\ readopen \in BOOLEAN /\ writeopen \in BOOLEAN
    /\ fd \in [Procs -> BOOLEAN] /\ killed \in [Procs -> BOOLEAN]
    /\ pc \in [Procs -> {"idle", "call", "tosleep", "asleep"}]
    /\ left \in [Writers -> Seq(Bytes)]
    /\ want \in [Readers -> Nat]
    /\ got \in [Readers -> Seq(Bytes)]

\* The ring is never more than full, and what is free is what is not used.
RingOK == Used \in 0..PIPESIZE /\ Room = PIPESIZE - Used

\* A process in a call has its end open, and an end is open as long as a
\* process has it.  Outside a call nothing is left to write.
EndsOK ==
    /\ \A p \in Procs : pc[p] # "idle" => fd[p]
    /\ readopen <=> \E r \in Readers : fd[r]
    /\ writeopen <=> \E w \in Writers : fd[w]
    /\ \A w \in Writers : pc[w] = "idle" => left[w] = <<>>

\* Nobody goes to sleep without a reason, see SleepJustified.
Justified ==
    /\ \A w \in Writers : pc[w] \in {"tosleep", "asleep"} => Room = 0 /\ readopen
    /\ \A r \in Readers :
          pc[r] \in {"tosleep", "asleep"} =>
             /\ writeopen
             /\ Used = 0 \/ \E w \in Writers : killed[w]

IInv == TypeOK /\ RingOK /\ EndsOK /\ Justified

-----------------------------------------------------------------------------
(* The ring                                                                *)

\* The sizes.
LEMMA Sizes ==
  /\ PIPESIZE \in Nat \ {0} /\ Wrap \in Nat \ {0} /\ PIPESIZE < Wrap
  /\ Wrap % PIPESIZE = 0
BY PipeAssumption

\* The bytes between two counters x <= y.
Between(x, y) == (y + Wrap - x) % Wrap

\* The distance of two counters.
LEMMA BetweenIs ==
  ASSUME NEW x \in 0..(Wrap - 1), NEW y \in 0..(Wrap - 1)
  PROVE  /\ Between(x, y) = IF x <= y THEN y - x ELSE y + Wrap - x
         /\ Between(x, y) \in 0..(Wrap - 1)
<1>1. Between(x, y) = IF x <= y THEN y - x ELSE y + Wrap - x
  BY Sizes, Distance DEF Between
<1> QED
  BY <1>1, Sizes

\* The test nwrite == nread + PIPESIZE counts what is free.
LEMMA RoomIs ==
  ASSUME NEW x \in 0..(Wrap - 1), NEW y \in 0..(Wrap - 1),
         Between(x, y) <= PIPESIZE
  PROVE  (x + PIPESIZE + Wrap - y) % Wrap = PIPESIZE - Between(x, y)
<1> DEFINE u == Between(x, y)
<1>1. u \in 0..PIPESIZE /\ (u = y - x \/ u = y + Wrap - x)
  BY BetweenIs, Sizes
<1> HIDE DEF u
<1>2. (PIPESIZE - u) % Wrap = PIPESIZE - u
  <2>1. PIPESIZE - u \in 0..(Wrap - 1)
    BY <1>1, Sizes
  <2> QED
    BY <2>1, ModSmall, Sizes
<1>3. \A k \in Int : ((PIPESIZE - u) + k * Wrap) % Wrap = PIPESIZE - u
  <2>1. PIPESIZE - u \in Int
    BY <1>1, Sizes
  <2> QED
    BY <1>2, <2>1, ModAdd, Sizes
<1>4. CASE u = y - x
  <2>1. x + PIPESIZE + Wrap - y = (PIPESIZE - u) + 1 * Wrap
    BY <1>1, <1>4, Sizes
  <2> QED
    BY <1>3, <2>1 DEF u
<1>5. CASE u = y + Wrap - x
  <2>1. x + PIPESIZE + Wrap - y = (PIPESIZE - u) + 2 * Wrap
    BY <1>1, <1>5, Sizes
  <2> QED
    BY <1>3, <2>1 DEF u
<1> QED
  BY <1>1, <1>4, <1>5

\* After k more bytes are written.
LEMMA Written ==
  ASSUME NEW x \in 0..(Wrap - 1), NEW y \in 0..(Wrap - 1), NEW k \in Nat,
         Between(x, y) + k <= PIPESIZE
  PROVE  /\ Advance(y, k) \in 0..(Wrap - 1)
         /\ Between(x, Advance(y, k)) = Between(x, y) + k
<1>1. Between(x, y) = IF x <= y THEN y - x ELSE y + Wrap - x
  BY BetweenIs
<1>2. k \in 0..(Wrap - 1)
  BY BetweenIs, Sizes
<1>3. Advance(y, k) = IF y + k < Wrap THEN y + k ELSE y + k - Wrap
  <2>1. Wrap \in Nat \ {0}
    BY Sizes
  <2>2. (y + k) % Wrap = IF y + k < Wrap THEN y + k ELSE y + k - Wrap
    BY <1>2, <2>1, Forward
  <2> QED
    BY <2>2 DEF Advance
<1> DEFINE z == Advance(y, k)
<1>4. z \in 0..(Wrap - 1)
  BY <1>2, <1>3, Sizes
<1>5. Between(x, z) = IF x <= z THEN z - x ELSE z + Wrap - x
  BY <1>4, BetweenIs
<1> HIDE DEF z
<1>6. Between(x, z) = Between(x, y) + k
  BY <1>1, <1>2, <1>3, <1>4, <1>5, Sizes DEF z
<1> QED
  BY <1>4, <1>6 DEF z

\* After k bytes are read.
LEMMA Taken ==
  ASSUME NEW x \in 0..(Wrap - 1), NEW y \in 0..(Wrap - 1), NEW k \in Nat,
         k <= Between(x, y)
  PROVE  /\ Advance(x, k) \in 0..(Wrap - 1)
         /\ Between(Advance(x, k), y) = Between(x, y) - k
<1>1. Between(x, y) = IF x <= y THEN y - x ELSE y + Wrap - x
  BY BetweenIs
<1>2. k \in 0..(Wrap - 1)
  BY BetweenIs, Sizes
<1>3. Advance(x, k) = IF x + k < Wrap THEN x + k ELSE x + k - Wrap
  <2>1. Wrap \in Nat \ {0}
    BY Sizes
  <2> QED
    BY <1>2, <2>1, Forward DEF Advance
<1> DEFINE z == Advance(x, k)
<1>4. z \in 0..(Wrap - 1)
  BY <1>2, <1>3, Sizes
<1>5. Between(z, y) = IF z <= y THEN y - z ELSE y + Wrap - z
  BY <1>4, BetweenIs
<1> HIDE DEF z
<1>6. Between(z, y) = Between(x, y) - k
  BY <1>1, <1>2, <1>3, <1>4, <1>5, Sizes DEF z
<1> QED
  BY <1>4, <1>6 DEF z

\* The cell of the byte i after counter x, and that the wrap-around of the
\* counter does not move it.
Slot(x, i) == (x + i - 1) % PIPESIZE

\* Cells of the ring.
LEMMA SlotRange ==
  ASSUME NEW x \in Nat, NEW i \in Nat
  PROVE  Slot(x, i) \in 0..(PIPESIZE - 1)
<1>1. x + i - 1 \in Int
  OBVIOUS
<1> QED
  BY <1>1, ModRange, Sizes DEF Slot

\* The cells after a counter that has moved on.
LEMMA SlotMoved ==
  ASSUME NEW x \in Nat, NEW k \in Nat, NEW i \in Nat
  PROVE  Slot(Advance(x, k), i) = Slot(x, k + i)
<1>1. PICK a \in Int : a = x + k
  OBVIOUS
<1>2. PICK b \in Int : b = i - 1
  OBVIOUS
<1>3. ((a % Wrap) + b) % PIPESIZE = (a + b) % PIPESIZE
  BY ModOfMod, Sizes
<1>4. a % Wrap \in Nat
  BY ModRange, Sizes
<1>5. (a % Wrap) + i - 1 = (a % Wrap) + b /\ x + (k + i) - 1 = a + b
  BY <1>1, <1>2, <1>4
<1> QED
  BY <1>1, <1>3, <1>5 DEF Slot, Advance

\* Bytes less than PIPESIZE apart are in different cells.
LEMMA SlotDistinct ==
  ASSUME NEW x \in Nat, NEW i \in Nat, NEW j \in Nat,
         i <= j, j < i + PIPESIZE, Slot(x, i) = Slot(x, j)
  PROVE  i = j
<1>1. /\ x + i - 1 \in Int /\ x + j - 1 \in Int /\ x + i - 1 <= x + j - 1
      /\ x + j - 1 < (x + i - 1) + PIPESIZE
  BY Sizes
<1>2. x + i - 1 = x + j - 1
  BY <1>1, ModDistinct, Sizes DEF Slot
<1> QED
  BY <1>2

\* The minimum of two numbers.
LEMMA MinIs ==
  ASSUME NEW a \in Nat, NEW b \in Nat
  PROVE  Min({a, b}) = IF a <= b THEN a ELSE b
BY DEF Min

-----------------------------------------------------------------------------
(* What is in the ring                                                     *)

\* The bytes that wait are a sequence of bytes, as long as Used says.
LEMMA WaitingIs ==
  ASSUME TypeOK, RingOK
  PROVE  /\ Used \in 0..PIPESIZE /\ Used = Between(nread, nwrite)
         /\ Room = PIPESIZE - Used /\ Room \in 0..PIPESIZE
         /\ Waiting \in [1..Used -> Bytes]
         /\ Waiting \in Seq(Bytes) /\ Len(Waiting) = Used
         /\ \A i \in 1..Used : Waiting[i] = data[Slot(nread, i)]
<1>1. Used \in 0..PIPESIZE /\ Used = Between(nread, nwrite)
  BY DEF RingOK, Used, Between
<1>2. Room = PIPESIZE - Used /\ Room \in 0..PIPESIZE
  BY <1>1, Sizes DEF RingOK
<1>3. nread \in Nat
  BY Sizes DEF TypeOK
<1>4. \A i \in 1..Used : data[Slot(nread, i)] \in Bytes
  <2>1. SUFFICES ASSUME NEW i \in 1..Used PROVE data[Slot(nread, i)] \in Bytes
    OBVIOUS
  <2>2. i \in Nat
    BY <1>1, Sizes
  <2>3. Slot(nread, i) \in 0..(PIPESIZE - 1)
    BY <1>3, <2>2, SlotRange
  <2> QED
    BY <2>3 DEF TypeOK
<1>5. Waiting = [i \in 1..Used |-> data[Slot(nread, i)]]
  BY DEF Waiting, Slot
<1>6. Waiting \in [1..Used -> Bytes]
  BY <1>4, <1>5
<1>7. Waiting \in Seq(Bytes) /\ Len(Waiting) = Used
  BY <1>1, <1>6, FunctionSeq
<1> QED
  BY <1>1, <1>2, <1>5, <1>6, <1>7

\* What Copy does to a cell that it writes, and to one that it does not.
LEMMA Copied ==
  ASSUME TypeOK, RingOK, NEW w \in Writers, NEW k \in 0..Room,
         k <= Len(left[w]), Copy(w, k)
  PROVE  /\ data' \in [0..(PIPESIZE - 1) -> Bytes]
         /\ \A i \in 1..k : data'[Slot(nwrite, i)] = left[w][i]
         /\ \A j \in 0..(PIPESIZE - 1) :
               (\A i \in 1..k : Slot(nwrite, i) # j) => data'[j] = data[j]
<1>1. k \in Nat /\ k <= PIPESIZE /\ nwrite \in Nat /\ left[w] \in Seq(Bytes)
  BY WaitingIs, Sizes DEF TypeOK
<1>2. data' = [j \in 0..(PIPESIZE - 1) |->
                 IF \E i \in 1..k : Slot(nwrite, i) = j
                 THEN left[w][CHOOSE i \in 1..k : Slot(nwrite, i) = j]
                 ELSE data[j]]
  BY DEF Copy, Slot
<1>3. \A i \in 1..k : left[w][i] \in Bytes
  BY <1>1
<1>4. data' \in [0..(PIPESIZE - 1) -> Bytes]
  <2>1. SUFFICES ASSUME NEW j \in 0..(PIPESIZE - 1)
                 PROVE  (IF \E i \in 1..k : Slot(nwrite, i) = j
                         THEN left[w][CHOOSE i \in 1..k : Slot(nwrite, i) = j]
                         ELSE data[j]) \in Bytes
    BY <1>2
  <2>2. CASE \E i \in 1..k : Slot(nwrite, i) = j
    BY <1>3, <2>2
  <2>3. CASE ~\E i \in 1..k : Slot(nwrite, i) = j
    BY <2>3 DEF TypeOK
  <2> QED
    BY <2>2, <2>3
<1>5. ASSUME NEW i \in 1..k
      PROVE  data'[Slot(nwrite, i)] = left[w][i]
  <2>0. i \in Nat
    BY <1>1
  <2>1. i \in Nat /\ Slot(nwrite, i) \in 0..(PIPESIZE - 1)
    BY <1>1, <2>0, SlotRange
  <2> DEFINE c == CHOOSE h \in 1..k : Slot(nwrite, h) = Slot(nwrite, i)
  <2>2. c \in 1..k /\ Slot(nwrite, c) = Slot(nwrite, i)
    OBVIOUS
  <2>3. data'[Slot(nwrite, i)] = left[w][c]
    BY <1>2, <2>1
  <2> HIDE DEF c
  <2>4. c \in Nat /\ c < i + PIPESIZE /\ i < c + PIPESIZE
    BY <1>1, <2>1, <2>2, Sizes
  <2>5. c = i
    <3>1. CASE c <= i
      BY <1>1, <2>1, <2>2, <2>4, <3>1, SlotDistinct
    <3>2. CASE i <= c
      BY <1>1, <2>1, <2>2, <2>4, <3>2, SlotDistinct
    <3> QED
      BY <2>1, <2>4, <3>1, <3>2
  <2> QED
    BY <2>3, <2>5
<1>6. ASSUME NEW j \in 0..(PIPESIZE - 1), \A i \in 1..k : Slot(nwrite, i) # j
      PROVE  data'[j] = data[j]
  BY <1>2, <1>6
<1> QED
  BY <1>4, <1>5, <1>6

\* The cells that pipewrite() fills come after the bytes that wait.
LEMMA SlotAfter ==
  ASSUME TypeOK, RingOK, NEW i \in Nat
  PROVE  Slot(nwrite, i) = Slot(nread, Used + i)
<1>1. nread \in Nat /\ nread \in 0..(Wrap - 1) /\ nwrite \in 0..(Wrap - 1) /\ Used \in Nat
  BY WaitingIs, Sizes DEF TypeOK
<1>2. nwrite = Advance(nread, Used)
  <2>1. Used = IF nread <= nwrite THEN nwrite - nread ELSE nwrite + Wrap - nread
    BY <1>1, WaitingIs, BetweenIs
  <2>2. Used \in 0..(Wrap - 1)
    BY <1>1, WaitingIs, BetweenIs
  <2>3. Advance(nread, Used) = IF nread + Used < Wrap THEN nread + Used ELSE nread + Used - Wrap
    <3>1. Wrap \in Nat \ {0}
      BY Sizes
    <3>2. (nread + Used) % Wrap = IF nread + Used < Wrap THEN nread + Used ELSE nread + Used - Wrap
      BY <1>1, <2>2, <3>1, Forward
    <3> QED
      BY <3>2 DEF Advance
  <2> HIDE DEF Used
  <2> QED
    BY <1>1, <2>1, <2>3, Sizes
<1> QED
  BY <1>1, <1>2, SlotMoved

\* Copy(w, k) appends k bytes of w.
LEMMA CopyStep ==
  ASSUME TypeOK, RingOK, NEW w \in Writers, NEW k \in 0..Room,
         k <= Len(left[w]), Copy(w, k)
  PROVE  /\ data' \in [0..(PIPESIZE - 1) -> Bytes]
         /\ nread' = nread /\ nwrite' \in 0..(Wrap - 1)
         /\ Used' = Used + k /\ Room' = Room - k /\ RingOK'
         /\ Waiting' = Waiting \o SubSeq(left[w], 1, k)
<1>1. /\ nread \in 0..(Wrap - 1) /\ nwrite \in 0..(Wrap - 1) /\ nread \in Nat /\ nwrite \in Nat
      /\ left[w] \in Seq(Bytes)
  BY Sizes DEF TypeOK
<1>2. /\ Used \in 0..PIPESIZE /\ Used = Between(nread, nwrite)
      /\ Room = PIPESIZE - Used /\ Room \in 0..PIPESIZE
      /\ Waiting \in Seq(Bytes) /\ Len(Waiting) = Used
      /\ \A i \in 1..Used : Waiting[i] = data[Slot(nread, i)]
  BY WaitingIs
<1>3. k \in Nat /\ Used + k <= PIPESIZE /\ Used \in Nat
  BY <1>2, Sizes
<1>4. nread' = nread /\ nwrite' = Advance(nwrite, k)
  BY DEF Copy
<1>5. /\ nwrite' \in 0..(Wrap - 1)
      /\ Between(nread', nwrite') = Used + k
  BY <1>1, <1>2, <1>3, <1>4, Written
<1>6. Used' = Used + k
  BY <1>5 DEF Used, Between
<1>7. Room' = PIPESIZE - Used'
  <2>1. nread' \in 0..(Wrap - 1) /\ Between(nread', nwrite') <= PIPESIZE
    BY <1>1, <1>3, <1>4, <1>5
  <2> QED
    BY <2>1, <1>5, <1>6, RoomIs DEF Room
<1>8. Room' = Room - k /\ RingOK'
  BY <1>2, <1>3, <1>6, <1>7, Sizes DEF RingOK
<1>9. /\ data' \in [0..(PIPESIZE - 1) -> Bytes]
      /\ \A i \in 1..k : data'[Slot(nwrite, i)] = left[w][i]
      /\ \A j \in 0..(PIPESIZE - 1) :
            (\A i \in 1..k : Slot(nwrite, i) # j) => data'[j] = data[j]
  BY Copied
<1>10. Waiting' = Waiting \o SubSeq(left[w], 1, k)
  <2> DEFINE f == [i \in 1..(Used + k) |-> data'[Slot(nread, i)]]
             g == Waiting \o SubSeq(left[w], 1, k)
  <2>1. Waiting' = f
    BY <1>4, <1>6 DEF Waiting, Slot
  <2>2. g \in Seq(Bytes) /\ Len(g) = Used + k
    BY <1>1, <1>2, <1>3
  <2>3. \A i \in 1..Used : g[i] = Waiting[i]
    BY <1>1, <1>2, <1>3
  <2>4. \A i \in 1..k : g[Used + i] = left[w][i]
    <3> DEFINE t == SubSeq(left[w], 1, k)
    <3>1. t \in Seq(Bytes) /\ Len(t) = k /\ \A i \in 1..k : t[i] = left[w][i]
      BY <1>1, <1>3
    <3> HIDE DEF t
    <3>2. \A i \in 1..k : (Waiting \o t)[Used + i] = t[i]
      BY <1>2, <1>3, <3>1
    <3> QED
      BY <3>1, <3>2 DEF t
  <2>5. ASSUME NEW i \in 1..(Used + k)
        PROVE  f[i] = g[i]
    <3>1. f[i] = data'[Slot(nread, i)] /\ i \in Nat
      BY <1>3
    <3>2. CASE i \in 1..Used
      <4>1. Slot(nread, i) \in 0..(PIPESIZE - 1)
        BY <1>1, <3>1, SlotRange
      <4>2. ASSUME NEW h \in 1..k
            PROVE  Slot(nwrite, h) # Slot(nread, i)
        <5>1. h \in Nat /\ i <= Used + h /\ Used + h < i + PIPESIZE /\ Used + h # i
          BY <1>3, <3>1, <3>2, Sizes
        <5>2. Slot(nwrite, h) = Slot(nread, Used + h) /\ Used + h \in Nat
          BY <1>3, <5>1, SlotAfter
        <5> QED
          BY <1>1, <3>1, <5>1, <5>2, SlotDistinct
      <4>3. data'[Slot(nread, i)] = data[Slot(nread, i)]
        BY <1>9, <4>1, <4>2
      <4> QED
        BY <1>2, <2>3, <3>1, <3>2, <4>3
    <3>3. CASE i \in (Used + 1)..(Used + k)
      <4>1. PICK h \in 1..k : i = Used + h
        <5>1. i - Used \in 1..k /\ i = Used + (i - Used)
          BY <1>3, <3>1, <3>3
        <5> QED
          BY <5>1
      <4>2. Slot(nread, i) = Slot(nwrite, h)
        <5>1. h \in Nat
          BY <1>3
        <5> QED
          BY <4>1, <5>1, SlotAfter
      <4> QED
        BY <1>9, <2>4, <3>1, <4>1, <4>2
    <3>4. i \in 1..Used \/ i \in (Used + 1)..(Used + k)
      BY <1>3, <3>1
    <3> QED
      BY <3>2, <3>3, <3>4
  <2>6. f \in Seq(Bytes) /\ Len(f) = Used + k
    <3>1. \A i \in 1..(Used + k) : g[i] \in Bytes
      BY <2>2
    <3>2. f \in [1..(Used + k) -> Bytes]
      BY <2>5, <3>1
    <3> QED
      BY <1>3, <3>2, FunctionSeq
  <2> HIDE DEF f, g
  <2>7. f = g
    BY <2>2, <2>5, <2>6, EqualSeq
  <2> QED
    BY <2>1, <2>7 DEF g
<1> QED
  BY <1>4, <1>5, <1>6, <1>8, <1>9, <1>10

\* Advancing nread by k takes k bytes from the front.
LEMMA TakeStep ==
  ASSUME TypeOK, RingOK, NEW k \in 0..Used,
         nread' = Advance(nread, k), UNCHANGED <<data, nwrite>>
  PROVE  /\ nread' \in 0..(Wrap - 1)
         /\ Used' = Used - k /\ RingOK'
         /\ Waiting' = SubSeq(Waiting, k + 1, Len(Waiting))
<1>1. /\ nread \in 0..(Wrap - 1) /\ nwrite \in 0..(Wrap - 1) /\ nread \in Nat
  BY Sizes DEF TypeOK
<1>2. /\ Used \in 0..PIPESIZE /\ Used = Between(nread, nwrite)
      /\ Waiting \in Seq(Bytes) /\ Len(Waiting) = Used
      /\ \A i \in 1..Used : Waiting[i] = data[Slot(nread, i)]
  BY WaitingIs
<1>3. k \in Nat /\ k <= Used /\ Used \in Nat
  BY <1>2, Sizes
<1>4. /\ nread' \in 0..(Wrap - 1)
      /\ Between(nread', nwrite') = Used - k
  BY <1>1, <1>2, <1>3, Taken
<1>5. Used' = Used - k
  BY <1>4 DEF Used, Between
<1>6. Room' = PIPESIZE - Used'
  <2>1. nwrite' \in 0..(Wrap - 1) /\ Between(nread', nwrite') <= PIPESIZE
    BY <1>1, <1>2, <1>3, <1>4, Sizes
  <2> QED
    BY <2>1, <1>4, <1>5, RoomIs DEF Room
<1>7. RingOK'
  BY <1>2, <1>3, <1>5, <1>6, Sizes DEF RingOK
<1>8. Waiting' = SubSeq(Waiting, k + 1, Len(Waiting))
  <2> DEFINE f == [i \in 1..(Used - k) |-> data[Slot(nread', i)]]
             g == SubSeq(Waiting, k + 1, Len(Waiting))
  <2>1. Waiting' = f
    BY <1>5 DEF Waiting, Slot
  <2>2. g \in Seq(Bytes) /\ Len(g) = Used - k
    BY <1>2, <1>3
  <2>3. \A i \in 1..(Used - k) : g[i] = Waiting[k + i]
    BY <1>2, <1>3
  <2>4. ASSUME NEW i \in 1..(Used - k)
        PROVE  f[i] = g[i]
    <3>1. i \in Nat /\ k + i \in 1..Used
      BY <1>3
    <3>2. Slot(nread', i) = Slot(nread, k + i)
      BY <1>1, <1>3, <3>1, SlotMoved
    <3> QED
      BY <1>2, <2>3, <3>1, <3>2
  <2>5. f \in Seq(Bytes) /\ Len(f) = Used - k
    <3>1. \A i \in 1..(Used - k) : g[i] \in Bytes
      BY <2>2
    <3>2. f \in [1..(Used - k) -> Bytes]
      BY <2>4, <3>1
    <3>3. Used - k \in Nat
      BY <1>3
    <3> QED
      BY <3>2, <3>3, FunctionSeq
  <2> HIDE DEF f, g
  <2>6. f = g
    BY <2>2, <2>4, <2>5, EqualSeq
  <2> QED
    BY <2>1, <2>6 DEF g
<1> QED
  BY <1>4, <1>5, <1>7, <1>8

\* The ring is a function of data, nread and nwrite.
LEMMA RingSame ==
  ASSUME RingOK, UNCHANGED ring
  PROVE  /\ UNCHANGED <<data, nread, nwrite>>
         /\ Used' = Used /\ Room' = Room /\ Waiting' = Waiting /\ RingOK'
BY DEF ring, Used, Room, Waiting, RingOK

-----------------------------------------------------------------------------
(* Invariance                                                              *)

\* A new pipe is empty.
LEMMA InitEmpty ==
  ASSUME Init
  PROVE  IInv /\ Waiting = <<>>
<1>1. nread = 0 /\ nwrite = 0 /\ 0 \in 0..(Wrap - 1)
  BY Sizes DEF Init
<1>2. Between(0, 0) = 0
  BY <1>1, BetweenIs
<1>3. Used = 0
  BY <1>1, <1>2 DEF Used, Between
<1>4. Room = PIPESIZE
  <2>1. Room = PIPESIZE - Between(0, 0)
    BY <1>1, <1>2, RoomIs, Sizes DEF Room
  <2> QED
    BY <1>2, <2>1, Sizes
<1>5. RingOK
  BY <1>3, <1>4, Sizes DEF RingOK
<1>6. TypeOK
  BY <1>1 DEF Init, TypeOK, Procs
<1>7. EndsOK
  BY PipeAssumption DEF Init, EndsOK, Procs
<1>8. Justified
  BY DEF Init, Justified, Procs
<1>9. Waiting = <<>>
  BY <1>3 DEF Waiting
<1> QED
  BY <1>5, <1>6, <1>7, <1>8, <1>9 DEF IInv

\* How much pipewrite() copies at a time.
LEMMA FitsIs ==
  ASSUME TypeOK, RingOK, NEW w \in Writers
  PROVE  /\ Fits(w) \in 0..Room /\ Fits(w) <= Len(left[w])
         /\ Fits(w) < Len(left[w]) => Fits(w) = Room
         /\ Room \in Nat /\ Len(left[w]) \in Nat
<1>1. Room \in Nat /\ Len(left[w]) \in Nat
  BY WaitingIs, Sizes DEF TypeOK
<1>2. Fits(w) = IF Room <= Len(left[w]) THEN Room ELSE Len(left[w])
  BY <1>1, MinIs DEF Fits
<1> QED
  BY <1>1, <1>2

\* All bytes are written.
LEMMA WriteEndInv ==
  ASSUME IInv, NEW w \in Writers, WriteEnd(w)
  PROVE  IInv'
<1>1. TypeOK /\ RingOK /\ EndsOK /\ Justified /\ w \in Procs
  BY DEF IInv, Procs
<1>2. /\ data' \in [0..(PIPESIZE - 1) -> Bytes]
      /\ nread' = nread /\ nwrite' \in 0..(Wrap - 1)
      /\ Room' = Room - Fits(w) /\ RingOK'
  BY <1>1, FitsIs, CopyStep DEF WriteEnd
<1>3. Room = 0 => Room' = 0
  BY <1>1, <1>2, FitsIs
<1>4. TypeOK'
  BY <1>1, <1>2 DEF TypeOK, WriteEnd, ends, Wake
<1>5. EndsOK'
  BY <1>1 DEF EndsOK, TypeOK, WriteEnd, ends, Wake, Procs
<1>6. \A v \in Writers : pc'[v] \in {"tosleep", "asleep"} => pc[v] = "asleep"
  BY <1>1, PipeAssumption DEF TypeOK, WriteEnd, Wake, Procs, Unlocked
<1>7. \A r \in Readers : pc'[r] \notin {"tosleep", "asleep"}
  BY <1>1, PipeAssumption DEF TypeOK, WriteEnd, Wake, Procs, Unlocked
<1>8. Justified'
  BY <1>1, <1>3, <1>6, <1>7 DEF Justified, WriteEnd, ends
<1> QED
  BY <1>2, <1>4, <1>5, <1>8 DEF IInv

\* pipewrite() gives up.
LEMMA WriteFailInv ==
  ASSUME IInv, NEW w \in Writers, WriteFail(w)
  PROVE  IInv'
<1>1. TypeOK /\ RingOK /\ EndsOK /\ Justified /\ w \in Procs
  BY DEF IInv, Procs
<1>2. /\ data' \in [0..(PIPESIZE - 1) -> Bytes]
      /\ nread' = nread /\ nwrite' \in 0..(Wrap - 1)
      /\ Room' = Room - Fits(w) /\ RingOK'
  BY <1>1, FitsIs, CopyStep DEF WriteFail
<1>3. Room = 0 => Room' = 0
  BY <1>1, <1>2, FitsIs
<1>4. TypeOK'
  BY <1>1, <1>2 DEF TypeOK, WriteFail, ends
<1>5. EndsOK'
  BY <1>1 DEF EndsOK, TypeOK, WriteFail, ends, Procs
<1>6. \A p \in Procs : pc'[p] \in {"tosleep", "asleep"} => pc[p] = "asleep"
  BY <1>1 DEF TypeOK, WriteFail, Unlocked
<1>7. \A r \in Readers : pc[r] = "asleep" => killed[w]
  BY <1>1 DEF WriteFail, EndsOK, Procs
<1>8. Justified'
  BY <1>1, <1>3, <1>6, <1>7 DEF Justified, WriteFail, ends, Procs
<1> QED
  BY <1>2, <1>4, <1>5, <1>8 DEF IInv

\* The pipe is full.
LEMMA WriteSleepInv ==
  ASSUME IInv, NEW w \in Writers, WriteSleep(w)
  PROVE  IInv'
<1>1. TypeOK /\ RingOK /\ EndsOK /\ Justified /\ w \in Procs
  BY DEF IInv, Procs
<1>2. /\ data' \in [0..(PIPESIZE - 1) -> Bytes]
      /\ nread' = nread /\ nwrite' \in 0..(Wrap - 1)
      /\ Room' = Room - Fits(w) /\ RingOK'
  BY <1>1, FitsIs, CopyStep DEF WriteSleep
<1>3. Room' = 0
  BY <1>1, <1>2, FitsIs DEF WriteSleep
<1>4. TypeOK'
  <2>1. SubSeq(left[w], Fits(w) + 1, Len(left[w])) \in Seq(Bytes)
    BY <1>1, FitsIs DEF TypeOK
  <2>2. left' \in [Writers -> Seq(Bytes)]
    BY <1>1, <2>1 DEF TypeOK, WriteSleep
  <2> QED
    BY <1>1, <1>2, <2>2 DEF TypeOK, WriteSleep, WakeForSpace, ends, Wake
<1>5. EndsOK'
  BY <1>1 DEF EndsOK, TypeOK, WriteSleep, WakeForSpace, ends, Wake, Procs
<1>6. \A r \in Readers : pc'[r] \notin {"tosleep", "asleep"}
  BY <1>1, PipeAssumption DEF TypeOK, WriteSleep, WakeForSpace, Wake, Procs, Unlocked
<1>7. Justified'
  BY <1>1, <1>3, <1>6 DEF Justified, WriteSleep, ends
<1> QED
  BY <1>2, <1>4, <1>5, <1>7 DEF IInv

\* The pipe is empty.
LEMMA ReadEmptyInv ==
  ASSUME IInv, NEW r \in Readers, ReadEmpty(r)
  PROVE  IInv'
<1>1. TypeOK /\ RingOK /\ EndsOK /\ Justified /\ r \in Procs /\ r \notin Writers
  BY PipeAssumption DEF IInv, Procs
<1>2. /\ UNCHANGED <<data, nread, nwrite>>
      /\ Used' = Used /\ Room' = Room /\ RingOK'
  BY <1>1, RingSame DEF ReadEmpty
<1>3. Used = 0
  <2>1. nread \in 0..(Wrap - 1) /\ nread = nwrite /\ nread \in Int
    BY <1>1, Sizes DEF TypeOK, ReadEmpty
  <2>2. Between(nread, nwrite) = 0
    BY <2>1, BetweenIs
  <2> QED
    BY <1>1, <2>2, WaitingIs
<1>4. TypeOK'
  BY <1>1, <1>2 DEF TypeOK, ReadEmpty, ends
<1>5. EndsOK'
  BY <1>1 DEF EndsOK, TypeOK, ReadEmpty, ends, Procs
<1>6. \A p \in Procs : pc'[p] \in {"tosleep", "asleep"} => pc[p] = pc'[p] \/ p = r
  BY <1>1 DEF TypeOK, ReadEmpty
<1>7. Justified'
  BY <1>1, <1>2, <1>3, <1>6 DEF Justified, ReadEmpty, ends, Procs
<1> QED
  BY <1>2, <1>4, <1>5, <1>7 DEF IInv

\* What piperead() copies.
LEMMA TakenIs ==
  ASSUME TypeOK, RingOK, NEW r \in Readers
  PROVE  /\ Min({want[r], Used}) \in 0..Used /\ Used \in Nat
         /\ SubSeq(Waiting, 1, Min({want[r], Used})) \in Seq(Bytes)
<1>1. Used \in Nat /\ want[r] \in Nat
  BY WaitingIs, Sizes DEF TypeOK
<1>2. Min({want[r], Used}) = IF want[r] <= Used THEN want[r] ELSE Used
  BY <1>1, MinIs
<1>3. Min({want[r], Used}) \in 0..Used
  BY <1>1, <1>2
<1>4. Waiting \in Seq(Bytes) /\ Len(Waiting) = Used
  BY WaitingIs
<1> HIDE DEF Used, Waiting
<1>5. \A j \in 0..Used : SubSeq(Waiting, 1, j) \in Seq(Bytes)
  BY <1>1, <1>4
<1> QED
  BY <1>1, <1>3, <1>5

\* Bytes are read.
LEMMA ReadEndInv ==
  ASSUME IInv, NEW r \in Readers, ReadEnd(r)
  PROVE  IInv'
<1>1. TypeOK /\ RingOK /\ EndsOK /\ Justified /\ r \in Procs /\ r \notin Writers
  BY PipeAssumption DEF IInv, Procs
<1> DEFINE k == Min({want[r], Used})
<1>2. k \in 0..Used /\ Used \in Nat /\ SubSeq(Waiting, 1, k) \in Seq(Bytes)
  BY <1>1, TakenIs
<1>3. /\ nread' = Advance(nread, k) /\ UNCHANGED <<data, nwrite>>
      /\ got' = [got EXCEPT ![r] = SubSeq(Waiting, 1, k)]
  BY DEF ReadEnd
<1> HIDE DEF k
<1>4. nread' \in 0..(Wrap - 1) /\ Used' = Used - k /\ RingOK'
  BY <1>1, <1>2, <1>3, TakeStep
<1>5. Used = 0 => Used' = 0
  <2>1. Used = 0 => k = 0
    BY <1>2
  <2> QED
    BY <1>4, <2>1
<1>6. TypeOK'
  <2>1. got' \in [Readers -> Seq(Bytes)]
    BY <1>1, <1>2, <1>3 DEF TypeOK
  <2> QED
    BY <1>1, <1>3, <1>4, <2>1 DEF TypeOK, ReadEnd, ends, Wake
<1>7. EndsOK'
  BY <1>1 DEF EndsOK, TypeOK, ReadEnd, ends, Wake, Procs
<1>8. \A w \in Writers : pc'[w] \notin {"tosleep", "asleep"}
  BY <1>1 DEF TypeOK, ReadEnd, Wake, Procs, Unlocked
<1>9. \A s \in Readers : pc'[s] \in {"tosleep", "asleep"} => pc[s] = "asleep"
  BY <1>1, PipeAssumption DEF TypeOK, ReadEnd, Wake, Procs, Unlocked
<1>10. Justified'
  BY <1>1, <1>5, <1>8, <1>9 DEF Justified, ReadEnd, ends
<1> QED
  BY <1>4, <1>6, <1>7, <1>10 DEF IInv

\* A process closes its end.
LEMMA PipecloseInv ==
  ASSUME IInv, NEW p \in Procs, pipeclose(p)
  PROVE  IInv'
<1>1. TypeOK /\ RingOK /\ EndsOK /\ Justified
  BY DEF IInv
<1>2. /\ UNCHANGED <<data, nread, nwrite>>
      /\ Used' = Used /\ Room' = Room /\ RingOK'
  BY <1>1, RingSame DEF pipeclose
<1>3. pc' \in [Procs -> {"idle", "call", "tosleep", "asleep"}]
  BY <1>1 DEF TypeOK, pipeclose, WakeOther, Wake
<1>4. TypeOK'
  <2>1. fd' \in [Procs -> BOOLEAN]
    BY <1>1 DEF TypeOK, pipeclose
  <2>2. readopen' \in BOOLEAN /\ writeopen' \in BOOLEAN
    BY DEF pipeclose
  <2> QED
    BY <1>1, <1>2, <1>3, <2>1, <2>2 DEF TypeOK, pipeclose, calls
<1>5. \A q \in Procs : /\ pc'[q] = "idle" <=> pc[q] = "idle"
                       /\ pc'[q] \in {"tosleep", "asleep"} => pc[q] = "asleep"
  BY <1>1 DEF TypeOK, pipeclose, WakeOther, Wake, Unlocked
<1>6. pc[p] = "idle" /\ \A q \in Procs : q # p => fd'[q] = fd[q]
  BY <1>1 DEF TypeOK, pipeclose
<1>7. EndsOK'
  <2>1. /\ readopen' <=> \E r \in Readers : fd'[r]
        /\ writeopen' <=> \E w \in Writers : fd'[w]
    BY DEF pipeclose
  <2>2. left' = left
    BY DEF pipeclose, calls
  <2> QED
    BY <1>1, <1>5, <1>6, <2>1, <2>2 DEF EndsOK, Procs
<1>8. p \in Writers => readopen' = readopen
  <2>1. SUFFICES ASSUME p \in Writers PROVE readopen' = readopen
    OBVIOUS
  <2>2. \A r \in Readers : fd'[r] = fd[r]
    BY <1>6, <2>1, PipeAssumption DEF Procs
  <2>3. readopen' <=> \E r \in Readers : fd[r]
    BY <2>2 DEF pipeclose
  <2> QED
    BY <1>1, <1>4, <2>3 DEF EndsOK, TypeOK
<1>9. p \in Readers => writeopen' = writeopen
  <2>1. SUFFICES ASSUME p \in Readers PROVE writeopen' = writeopen
    OBVIOUS
  <2>2. \A w \in Writers : fd'[w] = fd[w]
    BY <1>6, <2>1, PipeAssumption DEF Procs
  <2>3. writeopen' <=> \E w \in Writers : fd[w]
    BY <2>2 DEF pipeclose
  <2> QED
    BY <1>1, <1>4, <2>3 DEF EndsOK, TypeOK
<1>10. readopen' # readopen => \A w \in Writers : pc'[w] \notin {"tosleep", "asleep"}
  BY <1>1, <1>5, <1>8 DEF pipeclose, WakeOther, Wake, Procs, TypeOK
<1>11. writeopen' # writeopen => \A r \in Readers : pc'[r] \notin {"tosleep", "asleep"}
  BY <1>1, <1>5, <1>9 DEF pipeclose, WakeOther, Wake, Procs, TypeOK
<1>12. Justified'
  <2>1. killed' = killed
    BY DEF pipeclose
  <2> QED
    BY <1>1, <1>2, <1>5, <1>10, <1>11, <2>1 DEF Justified, Procs
<1> QED
  BY <1>2, <1>4, <1>7, <1>12 DEF IInv

\* The actions that leave the ring and its ends alone.
LEMMA OtherInv ==
  ASSUME IInv,
         \/ \E w \in Writers, m \in Msgs : SysWrite(w, m)
         \/ \E r \in Readers, n \in Counts : SysRead(r, n)
         \/ \E p \in Procs : Sleep(p) \/ kill(p)
         \/ UNCHANGED vars
  PROVE  IInv'
<1>1. TypeOK /\ RingOK /\ EndsOK /\ Justified
  BY DEF IInv
<1>2. UNCHANGED ring /\ UNCHANGED ends
  BY DEF SysWrite, SysRead, Sleep, kill, vars
<1>3. /\ UNCHANGED <<data, nread, nwrite, readopen, writeopen, fd>>
      /\ Used' = Used /\ Room' = Room /\ RingOK'
  BY <1>1, <1>2, RingSame DEF ends
<1>4. CASE \E w \in Writers, m \in Msgs : SysWrite(w, m)
  <2>1. PICK w \in Writers, m \in Msgs : SysWrite(w, m)
    BY <1>4
  <2>2. m \in Seq(Bytes) /\ w \in Procs
    BY PipeAssumption DEF Procs
  <2>3. TypeOK'
    BY <1>1, <1>3, <2>1, <2>2 DEF TypeOK, SysWrite
  <2>4. EndsOK'
    BY <1>1, <1>3, <2>1, <2>2 DEF TypeOK, EndsOK, SysWrite, Procs
  <2>5. Justified'
    BY <1>1, <1>3, <2>1, <2>2 DEF TypeOK, Justified, SysWrite, Procs
  <2> QED
    BY <1>3, <2>3, <2>4, <2>5 DEF IInv
<1>5. CASE \E r \in Readers, n \in Counts : SysRead(r, n)
  <2>1. PICK r \in Readers, n \in Counts : SysRead(r, n)
    BY <1>5
  <2>2. n \in Nat /\ r \in Procs /\ r \notin Writers
    BY PipeAssumption DEF Procs
  <2>3. TypeOK'
    BY <1>1, <1>3, <2>1, <2>2 DEF TypeOK, SysRead
  <2>4. EndsOK'
    BY <1>1, <1>3, <2>1, <2>2 DEF TypeOK, EndsOK, SysRead, Procs
  <2>5. Justified'
    BY <1>1, <1>3, <2>1, <2>2 DEF TypeOK, Justified, SysRead, Procs
  <2> QED
    BY <1>3, <2>3, <2>4, <2>5 DEF IInv
<1>6. CASE \E p \in Procs : Sleep(p)
  <2>1. PICK p \in Procs : Sleep(p)
    BY <1>6
  <2>2. TypeOK'
    BY <1>1, <1>3, <2>1 DEF TypeOK, Sleep, calls
  <2>3. EndsOK'
    BY <1>1, <1>3, <2>1 DEF TypeOK, EndsOK, Sleep, Procs, calls
  <2>4. Justified'
    BY <1>1, <1>3, <2>1 DEF TypeOK, Justified, Sleep, Procs
  <2> QED
    BY <1>3, <2>2, <2>3, <2>4 DEF IInv
<1>7. CASE \E p \in Procs : kill(p)
  <2>1. PICK p \in Procs : kill(p)
    BY <1>7
  <2>2. TypeOK'
    BY <1>1, <1>3, <2>1 DEF TypeOK, kill, calls
  <2>3. EndsOK'
    BY <1>1, <1>3, <2>1 DEF TypeOK, EndsOK, kill, Procs, calls
  <2>4. /\ \A q \in Procs : pc'[q] \in {"tosleep", "asleep"} => pc[q] = pc'[q]
        /\ \A q \in Procs : killed[q] => killed'[q]
    BY <1>1, <2>1 DEF TypeOK, kill
  <2>5. Justified'
    BY <1>1, <1>3, <2>4 DEF Justified, Procs
  <2> QED
    BY <1>3, <2>2, <2>3, <2>5 DEF IInv
<1>8. CASE UNCHANGED vars
  BY <1>1, <1>3, <1>8 DEF IInv, TypeOK, EndsOK, Justified, vars, calls
<1> QED
  BY <1>4, <1>5, <1>6, <1>7, <1>8

\* IInv is inductive.
LEMMA NextInv ==
  ASSUME IInv, [Next]_vars
  PROVE  IInv'
<1>1. CASE \E w \in Writers : pipewrite(w)
  BY <1>1, WriteEndInv, WriteFailInv, WriteSleepInv DEF pipewrite
<1>2. CASE \E r \in Readers : piperead(r)
  BY <1>2, ReadEmptyInv, ReadEndInv DEF piperead
<1>3. CASE \E p \in Procs : pipeclose(p)
  BY <1>3, PipecloseInv
<1>4. CASE \/ \E w \in Writers, m \in Msgs : SysWrite(w, m)
           \/ \E r \in Readers, n \in Counts : SysRead(r, n)
           \/ \E p \in Procs : Sleep(p) \/ kill(p)
           \/ UNCHANGED vars
  BY <1>4, OtherInv
<1> QED
  BY <1>1, <1>2, <1>3, <1>4 DEF Next

-----------------------------------------------------------------------------
(* Theorems                                                                *)

\* The strengthening that the other theorems are read off.
THEOREM Invariance == Spec => []IInv
<1>1. Init => IInv
  BY InitEmpty
<1>2. IInv /\ [Next]_vars => IInv'
  BY NextInv
<1> QED
  BY <1>1, <1>2, PTL DEF Spec

\* Every variable of a pipe has its type; nread and nwrite stay in the range
\* of an unsigned int.
THEOREM TypeCorrect == Spec => []TypeOK
<1>1. IInv => TypeOK
  BY DEF IInv
<1> QED
  BY <1>1, Invariance, PTL

\* No process sleeps in piperead() or pipewrite() without a reason, however
\* many share the two ends: no wakeup() of pipe.c comes too early, and none
\* is missing but the one of a killed writer.
THEOREM SleepersJustified == Spec => []SleepJustified
<1>1. IInv => SleepJustified
  BY DEF IInv, Justified, SleepJustified
<1> QED
  BY <1>1, Invariance, PTL

-----------------------------------------------------------------------------
\* A pipewrite() step is a Put or an Abort of the queue.
LEMMA WriteStep ==
  ASSUME IInv, NEW w \in Writers, pipewrite(w)
  PROVE  \E k \in 0..Len(left[w]) : Queue!Put(w, k) \/ Queue!Abort(w, k)
<1>1. TypeOK /\ RingOK /\ left[w] \in Seq(Bytes)
  BY DEF IInv, TypeOK
<1>2. Fits(w) \in 0..Room /\ Fits(w) \in 0..Len(left[w]) /\ Fits(w) \in Nat
  BY <1>1, FitsIs
<1>3. Copy(w, Fits(w)) /\ UNCHANGED got
  BY DEF pipewrite, WriteEnd, WriteFail, WriteSleep
<1>4. Waiting' = Waiting \o SubSeq(left[w], 1, Fits(w))
  BY <1>1, <1>2, <1>3, CopyStep
<1>5. Len(Waiting) + Fits(w) <= PIPESIZE
  <2>1. Len(Waiting) = Used /\ Room = PIPESIZE - Used /\ Used \in Nat
    BY <1>1, WaitingIs, Sizes
  <2> QED
    BY <1>2, <2>1, Sizes
<1>6. CASE left' = [left EXCEPT ![w] = <<>>]
  <2>1. Queue!Abort(w, Fits(w))
    BY <1>3, <1>4, <1>5, <1>6 DEF Queue!Abort
  <2> QED
    BY <1>2, <2>1
<1>7. CASE left' = [left EXCEPT ![w] = SubSeq(@, Fits(w) + 1, Len(@))]
  <2>1. Queue!Put(w, Fits(w))
    BY <1>3, <1>4, <1>5, <1>7 DEF Queue!Put
  <2> QED
    BY <1>2, <2>1
<1> QED
  BY <1>6, <1>7 DEF pipewrite, WriteEnd, WriteFail, WriteSleep

\* A piperead() step is a Get of the queue, or leaves it alone.
LEMMA ReadStep ==
  ASSUME IInv, NEW r \in Readers, ReadEnd(r)
  PROVE  \E k \in 0..Len(Waiting) : Queue!Get(r, k)
<1>1. TypeOK /\ RingOK
  BY DEF IInv
<1>2. PICK k \in 0..Used : k = Min({want[r], Used})
  BY <1>1, TakenIs
<1>3. /\ nread' = Advance(nread, k) /\ UNCHANGED <<data, nwrite>>
      /\ got' = [got EXCEPT ![r] = SubSeq(Waiting, 1, k)] /\ UNCHANGED left
  BY <1>2 DEF ReadEnd
<1>4. Waiting' = SubSeq(Waiting, k + 1, Len(Waiting))
  BY <1>1, <1>3, TakeStep
<1>5. k \in 0..Len(Waiting)
  BY <1>1, WaitingIs
<1>6. Queue!Get(r, k)
  BY <1>3, <1>4 DEF Queue!Get
<1> QED
  BY <1>5, <1>6

\* Every step of the pipe is a step of the queue or changes nothing of it.
LEMMA QueueStep ==
  ASSUME IInv, [Next]_vars
  PROVE  [Queue!Next]_(Queue!vars)
<1>1. CASE \E w \in Writers : pipewrite(w)
  BY <1>1, WriteStep DEF Queue!Next
<1>2. CASE \E r \in Readers : ReadEnd(r)
  BY <1>2, ReadStep DEF Queue!Next
<1>3. CASE \E w \in Writers, m \in Msgs : SysWrite(w, m)
  <2>1. PICK w \in Writers, m \in Msgs : SysWrite(w, m)
    BY <1>3
  <2>2. Waiting' = Waiting
    BY <2>1, RingSame DEF IInv, SysWrite
  <2>3. left[w] = <<>>
    BY <2>1 DEF IInv, EndsOK, SysWrite
  <2>4. Queue!Begin(w, m)
    BY <2>1, <2>2, <2>3 DEF Queue!Begin, SysWrite
  <2> QED
    BY <2>4 DEF Queue!Next
<1>4. CASE \/ \E r \in Readers : ReadEmpty(r) \/ \E n \in Counts : SysRead(r, n)
           \/ \E p \in Procs : Sleep(p) \/ pipeclose(p) \/ kill(p)
           \/ UNCHANGED vars
  <2>1. UNCHANGED ring /\ left' = left /\ got' = got
    BY <1>4 DEF ReadEmpty, SysRead, Sleep, pipeclose, kill, calls, vars
  <2>2. Waiting' = Waiting
    BY <2>1, RingSame DEF IInv
  <2> QED
    BY <2>1, <2>2 DEF Queue!vars
<1> QED
  BY <1>1, <1>2, <1>3, <1>4 DEF Next, piperead

\* The ring of pipe.c implements a queue of at most PIPESIZE bytes, for any
\* size of the ring, any range of the counters that it divides, any messages
\* and any number of readers and writers.
THEOREM PipeIsFifo == Spec => IsFifo
<1>1. Init => Queue!Init
  BY InitEmpty DEF Init, Queue!Init
<1>2. IInv /\ [Next]_vars => [Queue!Next]_(Queue!vars)
  BY QueueStep
<1> QED
  BY <1>1, <1>2, Invariance, PTL DEF Spec, IsFifo, Queue!Spec
=============================================================================
