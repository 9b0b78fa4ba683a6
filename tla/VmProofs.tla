------------------------------ MODULE VmProofs ------------------------------
(***************************************************************************)
(* Proofs about Vm.                                                        *)
(***************************************************************************)
EXTENDS Vm, WellFoundedInduction, FiniteSetTheorems, TLAPS

(* Numbers                                                                 *)

\* A set of numbers that is not empty has a least element.
LEMMA LeastNumber ==
  ASSUME NEW T, T \subseteq Nat, T # {}
  PROVE  \E m \in T : \A n \in T : m <= n
<1> DEFINE R == OpToRel(<, Nat)
<1>1. IsWellFoundedOn(R, Nat)
  BY NatLessThanWellFounded
<1>2. \A x, y \in Nat : <<y, x>> \in R <=> y < x
  BY DEF OpToRel
<1> HIDE DEF R
<1>3. PICK m \in T : \A n \in T : ~(<<n, m>> \in R)
  BY <1>1, WFMin
<1>4. \A n \in T : m <= n
  <2>1. SUFFICES ASSUME NEW n \in T PROVE m <= n
    OBVIOUS
  <2>2. m \in Nat /\ n \in Nat /\ ~(n < m)
    BY <1>2, <1>3
  <2> QED
    BY <2>2
<1> QED
  BY <1>4

\* What holds at first and of each number after one that it holds of.
LEMMA Counting ==
  ASSUME NEW n \in Nat, NEW S, 0 \in S, \A k \in 1..n : k - 1 \in S => k \in S
  PROVE  n \in S
<1> DEFINE T == {k \in 0..n : k \notin S}
<1>1. SUFFICES ASSUME n \notin S PROVE FALSE
  OBVIOUS
<1>2. T \subseteq Nat /\ n \in T
  BY <1>1
<1>3. PICK m \in T : \A k \in T : m <= k
  BY <1>2, LeastNumber
<1>4. m \in 0..n /\ m \notin S
  BY <1>3
<1>5. m # 0
  BY <1>4
<1>6. m \in 1..n /\ m - 1 \in 0..n /\ m - 1 < m
  BY <1>4, <1>5
<1>7. m - 1 \in S
  BY <1>3, <1>6
<1> QED
  BY <1>4, <1>6, <1>7

\* f is a loop of n turns from x on, each of which does g.
Turns(f, n, x, g) == f = [k \in 0..n |-> IF k = 0 THEN x ELSE g[<<k, f[k - 1]>>]]

\* Each loop has a run.
LEMMA LoopExists ==
  ASSUME NEW n \in Nat, NEW x, NEW g
  PROVE  \E f : Turns(f, n, x, g)
<1> DEFINE S == {m \in Nat : \E f : Turns(f, m, x, g)}
<1>1. 0 \in S
  <2> DEFINE f == [k \in 0..0 |-> x]
  <2>1. Turns(f, 0, x, g)
    BY DEF Turns
  <2> QED
    BY <2>1
<1>2. ASSUME NEW m \in 1..n, m - 1 \in S
      PROVE  m \in S
  <2>1. PICK f : Turns(f, m - 1, x, g)
    BY <1>2
  <2>2. \A k \in 0..(m - 1) : f[k] = IF k = 0 THEN x ELSE g[<<k, f[k - 1]>>]
    BY <2>1 DEF Turns
  <2> DEFINE h == [k \in 0..m |-> IF k = m THEN g[<<m, f[m - 1]>>] ELSE f[k]]
  <2>3. ASSUME NEW k \in 0..m
        PROVE  h[k] = IF k = 0 THEN x ELSE g[<<k, h[k - 1]>>]
    <3>1. CASE k = 0
      <4>1. 0 \in 0..(m - 1) /\ k # m
        BY <3>1
      <4>2. f[0] = x
        BY <2>2, <4>1
      <4> QED
        BY <3>1, <4>1, <4>2
    <3>2. CASE k # 0
      <4>1. k - 1 \in 0..m /\ k - 1 # m
        BY <3>2
      <4>2. h[k - 1] = f[k - 1]
        BY <4>1
      <4>3. CASE k = m
        BY <3>2, <4>2, <4>3
      <4>4. CASE k # m
        BY <2>2, <3>2, <4>2, <4>4
      <4> QED
        BY <4>3, <4>4
    <3> QED
      BY <3>1, <3>2
  <2>4. h = [k \in 0..m |-> h[k]]
    OBVIOUS
  <2> HIDE DEF h
  <2>5. Turns(h, m, x, g)
    BY <2>3, <2>4 DEF Turns
  <2> QED
    BY <2>5
<1>3. n \in S
  <2> HIDE DEF S
  <2> QED
    BY <1>1, <1>2, Counting
<1> QED
  BY <1>3

\* If each turn stays in D, the run is in D.
LEMMA LoopType ==
  ASSUME NEW n \in Nat, NEW D, NEW x \in D, NEW g \in [(1..n) \X D -> D]
  PROVE  \E f \in [0..n -> D] : Turns(f, n, x, g)
<1>1. PICK f : Turns(f, n, x, g)
  BY LoopExists
<1>2. \A k \in 0..n : f[k] = IF k = 0 THEN x ELSE g[<<k, f[k - 1]>>]
  BY <1>1 DEF Turns
<1>3. ASSUME NEW m \in 0..n
      PROVE  f[m] \in D
  <2> DEFINE S == {k \in 0..n : f[k] \in D}
  <2>1. 0 \in S
    <3>1. 0 \in 0..n
      OBVIOUS
    <3>2. f[0] = x
      BY <1>2, <3>1
    <3> QED
      BY <3>1, <3>2
  <2>2. ASSUME NEW k \in 1..m, k - 1 \in S
        PROVE  k \in S
    <3>1. k \in 1..n /\ k \in 0..n /\ k # 0 /\ f[k - 1] \in D
      BY <2>2
    <3>2. g[<<k, f[k - 1]>>] \in D
      BY <3>1
    <3> QED
      BY <1>2, <3>1, <3>2
  <2>3. m \in S
    <3> HIDE DEF S
    <3> QED
      BY <2>1, <2>2, Counting
  <2> QED
    BY <2>3
<1>4. f = [k \in 0..n |-> f[k]]
  BY <1>1 DEF Turns
<1>5. f \in [0..n -> D]
  BY <1>3, <1>4
<1> QED
  BY <1>1, <1>5

\* The quotient of a number.
LEMMA DivIs ==
  ASSUME NEW P \in Nat \ {0}, NEW a \in Nat
  PROVE  a \div P \in Nat /\ P * (a \div P) <= a /\ a < P * (a \div P) + P
OBVIOUS

\* There is one quotient.
LEMMA DivUnique ==
  ASSUME NEW P \in Nat \ {0}, NEW a \in Nat, NEW q \in Nat, P * q <= a, a < P * q + P
  PROVE  a \div P = q
OBVIOUS

\* The quotient of the smaller number is not the larger one.
LEMMA DivLess ==
  ASSUME NEW P \in Nat \ {0}, NEW a \in Nat, NEW b \in Nat, a <= b
  PROVE  a \div P <= b \div P
OBVIOUS

\* The quotient of a multiple.
LEMMA MulDiv ==
  ASSUME NEW P \in Nat \ {0}, NEW q \in Nat
  PROVE  (q * P) \div P = q
OBVIOUS

\* The quotient of a number and a multiple.
LEMMA DivAdd ==
  ASSUME NEW P \in Nat \ {0}, NEW q \in Nat, NEW a \in Nat
  PROVE  (a + q * P) \div P = a \div P + q
OBVIOUS

\* A number is its quotient and its remainder in one way only.
LEMMA ModUnique ==
  ASSUME NEW P \in Nat \ {0}, NEW a \in Int, NEW q \in Int, NEW r \in 0..(P - 1),
         a = q * P + r
  PROVE  a % P = r
OBVIOUS

\* A multiple of a product.
LEMMA Multiple ==
  ASSUME NEW P \in Nat \ {0}, NEW N \in Nat \ {0}, NEW M \in Nat \ {0}, M = P * N,
         NEW a \in Nat, a % M = 0
  PROVE  \E k \in Nat : a = (N * k) * P
<1>1. a = M * (a \div M) /\ a \div M \in Nat
  OBVIOUS
<1>2. PICK k \in Nat : a = M * k
  BY <1>1
<1>3. a = (N * k) * P
  BY <1>2
<1> QED
  BY <1>3

\* KERNBASE is K pages and U page tables.
LEMMA Sizes ==
  \E K \in Nat, U \in Nat :
     /\ K > 0 /\ KERNBASE = K * PGSIZE /\ K = U * NPTENTRIES
     /\ UPages = 0..(K - 1) /\ UTables = 0..(U - 1) /\ Tables = 0..(2 * U - 1)
<1>1. PGSIZE \in Nat \ {0} /\ NPTENTRIES \in Nat \ {0} /\ KERNBASE \in Nat \ {0}
  BY VmAssumption
<1>2. PICK U \in Nat : KERNBASE = (NPTENTRIES * U) * PGSIZE
  <2> DEFINE M == PGSIZE * NPTENTRIES
  <2>1. KERNBASE \in Nat /\ KERNBASE % M = 0
    BY VmAssumption
  <2>2. M \in Nat \ {0} /\ M = PGSIZE * NPTENTRIES
    BY <1>1
  <2> HIDE DEF M
  <2> QED
    BY <1>1, <2>1, <2>2, Multiple
<1> DEFINE K == U * NPTENTRIES
<1>3. K \in Nat /\ KERNBASE = K * PGSIZE /\ Wrap = (2 * K) * PGSIZE
  BY <1>1, <1>2 DEF Wrap
<1>4. K \div NPTENTRIES = U /\ (2 * K) \div NPTENTRIES = 2 * U
  <2>1. 2 * K = (2 * U) * NPTENTRIES /\ 2 * U \in Nat
    BY <1>1
  <2> QED
    BY <1>1, <2>1, MulDiv
<1> HIDE DEF K
<1>5. KERNBASE \div PGSIZE = K /\ Wrap \div PGSIZE = 2 * K
  <2>1. 2 * K \in Nat
    BY <1>3
  <2> QED
    BY <1>1, <1>3, <2>1, MulDiv
<1>6. K # 0
  BY <1>1, <1>3
<1>7. UPages = 0..(K - 1) /\ UTables = 0..(U - 1) /\ Tables = 0..(2 * U - 1)
  BY <1>4, <1>5 DEF UPages, UTables, Tables
<1>8. K = U * NPTENTRIES
  BY DEF K
<1> QED
  BY <1>3, <1>6, <1>7, <1>8

\* The pages of n bytes.
LEMMA NpagesIs ==
  ASSUME NEW n \in Nat
  PROVE  /\ Npages(n) \in Nat /\ Npages(n) = (n + PGSIZE - 1) \div PGSIZE
         /\ PGROUNDUP(n) = Npages(n) * PGSIZE
         /\ PGSIZE * Npages(n) <= n + PGSIZE - 1 /\ n <= PGSIZE * Npages(n)
<1>1. PGSIZE \in Nat \ {0} /\ n + PGSIZE - 1 \in Nat
  BY VmAssumption
<1> DEFINE q == (n + PGSIZE - 1) \div PGSIZE
<1>2. q \in Nat /\ PGSIZE * q <= n + PGSIZE - 1 /\ n + PGSIZE - 1 < PGSIZE * q + PGSIZE
  BY <1>1, DivIs
<1>3. PGROUNDUP(n) = q * PGSIZE
  BY DEF PGROUNDUP
<1> HIDE DEF q
<1>4. Npages(n) = q
  BY <1>1, <1>2, <1>3, MulDiv DEF Npages
<1>5. n <= PGSIZE * q
  BY <1>1, <1>2
<1> QED
  BY <1>2, <1>3, <1>4, <1>5 DEF q

\* A larger process does not have fewer pages.
LEMMA NpagesMonotone ==
  ASSUME NEW m \in Nat, NEW n \in Nat, m <= n
  PROVE  Npages(m) <= Npages(n)
<1>1. PGSIZE \in Nat \ {0} /\ m + PGSIZE - 1 \in Nat /\ n + PGSIZE - 1 \in Nat
      /\ m + PGSIZE - 1 <= n + PGSIZE - 1
  BY VmAssumption
<1>2. (m + PGSIZE - 1) \div PGSIZE <= (n + PGSIZE - 1) \div PGSIZE
  BY <1>1, DivLess
<1> QED
  BY <1>2, NpagesIs

\* No bytes, KERNBASE bytes, whole pages.
LEMMA NpagesExact ==
  /\ Npages(0) = 0
  /\ \A n \in Nat : n <= KERNBASE => Npages(n) - 1 \in Int /\ (0..(Npages(n) - 1)) \subseteq UPages
  /\ \A a \in UPages : a < Npages(KERNBASE)
  /\ \A q \in Nat : Npages(q * PGSIZE) = q
<1>1. PGSIZE \in Nat \ {0}
  BY VmAssumption
<1>2. ASSUME NEW q \in Nat
      PROVE  Npages(q * PGSIZE) = q
  <2>1. q * PGSIZE + PGSIZE - 1 \in Nat /\ PGSIZE * q <= q * PGSIZE + PGSIZE - 1
        /\ q * PGSIZE + PGSIZE - 1 < PGSIZE * q + PGSIZE /\ q * PGSIZE \in Nat
    BY <1>1
  <2>2. (q * PGSIZE + PGSIZE - 1) \div PGSIZE = q
    BY <1>1, <2>1, DivUnique
  <2> QED
    BY <2>1, <2>2, NpagesIs
<1>3. Npages(0) = 0
  BY <1>1, <1>2
<1>4. PICK K \in Nat : KERNBASE = K * PGSIZE /\ UPages = 0..(K - 1)
  BY Sizes
<1>5. Npages(KERNBASE) = K
  BY <1>2, <1>4
<1>6. ASSUME NEW n \in Nat, n <= KERNBASE
      PROVE  Npages(n) - 1 \in Int /\ (0..(Npages(n) - 1)) \subseteq UPages
  <2>1. Npages(n) \in Nat /\ Npages(n) <= K
    BY <1>5, <1>6, NpagesIs, NpagesMonotone, VmAssumption
  <2> QED
    BY <1>4, <2>1
<1> QED
  BY <1>2, <1>3, <1>4, <1>5, <1>6

\* The page of a byte.
LEMMA PageOfByte ==
  ASSUME NEW n \in Nat, NEW b \in Nat, b < n
  PROVE  b \div PGSIZE \in Nat /\ b \div PGSIZE < Npages(n)
<1>1. PGSIZE \in Nat \ {0}
  BY VmAssumption
<1>2. (b + 1 * PGSIZE) \div PGSIZE = b \div PGSIZE + 1
  BY <1>1, DivAdd
<1>3. b + 1 * PGSIZE \in Nat /\ n + PGSIZE - 1 \in Nat /\ b + 1 * PGSIZE <= n + PGSIZE - 1
  BY <1>1
<1>4. (b + 1 * PGSIZE) \div PGSIZE <= (n + PGSIZE - 1) \div PGSIZE
  BY <1>1, <1>3, DivLess
<1>5. b \div PGSIZE \in Nat
  BY <1>1, DivIs
<1> QED
  BY <1>2, <1>4, <1>5, NpagesIs

\* The page table of a page.
LEMMA PDXType ==
  ASSUME NEW a \in UPages
  PROVE  PDX(a) \in Tables
<1>1. PICK K \in Nat, U \in Nat : K = U * NPTENTRIES /\ UPages = 0..(K - 1)
                                   /\ Tables = 0..(2 * U - 1)
  BY Sizes
<1>2. NPTENTRIES \in Nat \ {0} /\ a \in Nat
  BY <1>1, VmAssumption
<1> DEFINE q == a \div NPTENTRIES
<1>3. q \in Nat /\ NPTENTRIES * q <= a
  BY <1>2, DivIs
<1>4. q < U
  <2> HIDE DEF q
  <2>1. a < U * NPTENTRIES
    BY <1>1
  <2>2. CASE q >= U
    <3>1. NPTENTRIES * q >= NPTENTRIES * U
      BY <1>2, <1>3, <2>2
    <3> QED
      BY <1>2, <1>3, <2>1, <3>1
  <2> QED
    BY <1>3, <2>2
<1> QED
  BY <1>1, <1>3, <1>4 DEF PDX

-----------------------------------------------------------------------------
(* Calls under way                                                         *)

FrameOr0 == Frames \cup {0}
Spaces   == [pgdir : FrameOr0, table : [Tables -> FrameOr0],
             page : [UPages -> FrameOr0], user : SUBSET UPages]
CallType == [free : SUBSET Frames, s : Spaces, left : Int, got : FrameOr0,
             ok : BOOLEAN, panic : BOOLEAN]

\* Page f of memory is part of space s.
In(s, f) ==
    \/ s.pgdir = f
    \/ \E d \in Tables : s.table[d] = f
    \/ \E a \in UPages : s.page[a] = f

\* Each page of memory has one use in s, and the user's pages are mapped.
Once(s) ==
    /\ s.pgdir # 0 => /\ \A d \in Tables : s.table[d] # s.pgdir
                      /\ \A a \in UPages : s.page[a] # s.pgdir
    /\ \A d, e \in Tables : s.table[d] # 0 /\ s.table[d] = s.table[e] => d = e
    /\ \A a, b \in UPages : s.page[a] # 0 /\ s.page[a] = s.page[b] => a = b
    /\ \A d \in Tables, a \in UPages : s.table[d] # 0 => s.page[a] # s.table[d]
    /\ \A a \in s.user : s.page[a] # 0

\* Each page of memory is free, in the space, or in K, which the call has
\* nothing to do with.
Parts(t, K) ==
    \A f \in Frames :
        /\ f \in t.free <=> (f \notin K /\ ~In(t.s, f))
        /\ f \in K => ~In(t.s, f)

Good(t, K) == t \in CallType /\ ~t.panic /\ Once(t.s) /\ Parts(t, K)

\* The space without pages.
LEMMA NoSpaceType ==
  /\ NoSpace \in Spaces /\ Once(NoSpace) /\ \A f \in Frames : ~In(NoSpace, f)
  /\ NoSpace.pgdir = 0 /\ NoSpace.page = [a \in UPages |-> 0] /\ NoSpace.user = {}
  /\ NoSpace.table = [d \in Tables |-> 0]
<1>1. 0 \notin Frames
  BY VmAssumption
<1> QED
  BY <1>1 DEF NoSpace, Spaces, FrameOr0, Once, In

\* kalloc()
LEMMA KallocLemma ==
  ASSUME NEW t, NEW K \in SUBSET Frames, Good(t, K), t.ok
  PROVE  LET u == kalloc(t) IN
         /\ u.s = t.s
         /\ ~u.ok => Good(u, K)
         /\ u.ok => /\ u.got \in Frames \ K /\ ~In(u.s, u.got) /\ Good(u, K \cup {u.got})
<1> DEFINE m == Min(t.free)
<1>1. t \in CallType /\ Once(t.s) /\ Parts(t, K) /\ ~t.panic
  BY DEF Good
<1>2. CASE t.left = 0 \/ t.free = {}
  <2>1. kalloc(t) = [t EXCEPT !.ok = FALSE]
    BY <1>2 DEF kalloc, Fail
  <2>2. kalloc(t) \in CallType /\ kalloc(t).s = t.s /\ kalloc(t).free = t.free
        /\ ~kalloc(t).panic /\ ~kalloc(t).ok
    BY <1>1, <2>1 DEF CallType
  <2> QED
    BY <1>1, <2>2 DEF Good, Parts
<1>3. CASE ~(t.left = 0 \/ t.free = {})
  <2>1. m \in t.free
    <3>1. t.free \subseteq Nat /\ t.free # {}
      BY <1>1, <1>3, VmAssumption DEF CallType
    <3>2. \E x \in t.free : \A y \in t.free : x <= y
      BY <3>1, LeastNumber
    <3> QED
      BY <3>2 DEF Min
  <2>2. kalloc(t) = [t EXCEPT !.got = m, !.free = t.free \ {m}, !.left = t.left - 1]
    BY <1>1, <1>3 DEF kalloc, CallType
  <2> HIDE DEF m
  <2>3. m \in Frames
    BY <1>1, <2>1 DEF CallType
  <2>4. /\ kalloc(t) \in CallType /\ kalloc(t).s = t.s /\ kalloc(t).free = t.free \ {m}
        /\ kalloc(t).panic = t.panic /\ kalloc(t).ok = t.ok /\ kalloc(t).got = m
    <3> DEFINE n == t.left - 1
               F == t.free \ {m}
    <3>1. n \in Int /\ F \in SUBSET Frames /\ m \in FrameOr0
      BY <1>1, <2>3 DEF CallType, FrameOr0
    <3>2. kalloc(t) = [t EXCEPT !.got = m, !.free = F, !.left = n]
      BY <2>2
    <3> HIDE DEF n, F
    <3>3. kalloc(t) \in CallType /\ kalloc(t).free = F
      BY <1>1, <3>1, <3>2 DEF CallType
    <3>4. /\ kalloc(t).s = t.s /\ kalloc(t).panic = t.panic
          /\ kalloc(t).ok = t.ok /\ kalloc(t).got = m
      BY <1>1, <3>1, <3>2 DEF CallType
    <3> QED
      BY <3>3, <3>4 DEF F
  <2>5. m \notin K /\ ~In(t.s, m)
    BY <1>1, <2>1, <2>3 DEF Parts
  <2>6. Parts(kalloc(t), K \cup {m})
    BY <1>1, <2>4, <2>5, <2>3 DEF Parts
  <2> QED
    BY <1>1, <2>3, <2>4, <2>5, <2>6 DEF Good
<1> QED
  BY <1>2, <1>3

\* A page of K becomes a page table.
LEMMA TableIn ==
  ASSUME NEW t, NEW K \in SUBSET Frames, Good(t, K), NEW d \in Tables, t.s.table[d] = 0,
         NEW f \in K
  PROVE  Good([t EXCEPT !.s.table[d] = f], K \ {f})
<1> DEFINE u == [t EXCEPT !.s.table[d] = f]
<1>1. t \in CallType /\ Once(t.s) /\ Parts(t, K) /\ ~t.panic
  BY DEF Good
<1>2. f \in Frames /\ f # 0 /\ ~In(t.s, f)
  BY <1>1, VmAssumption DEF Parts
<1>3. /\ u.free = t.free /\ u.panic = t.panic
      /\ u.s.pgdir = t.s.pgdir /\ u.s.page = t.s.page /\ u.s.user = t.s.user
      /\ u.s.table = [t.s.table EXCEPT ![d] = f]
  BY <1>1 DEF CallType, Spaces
<1>4. u \in CallType
  BY <1>1, <1>2 DEF CallType, Spaces, FrameOr0
<1> HIDE DEF u
<1>5. t.s.table \in [Tables -> FrameOr0]
  BY <1>1 DEF CallType, Spaces
<1>6. \A e \in Tables : u.s.table[e] = IF e = d THEN f ELSE t.s.table[e]
  BY <1>3, <1>5
<1>7. Once(u.s)
  BY <1>1, <1>2, <1>3, <1>6 DEF Once, In
<1>8. \A g : In(u.s, g) => In(t.s, g) \/ g = f
  BY <1>3, <1>6 DEF In
<1>9. \A g \in Frames : In(t.s, g) => In(u.s, g)
  BY <1>3, <1>6, VmAssumption DEF In
<1>10. In(u.s, f)
  BY <1>6 DEF In
<1>11. Parts(u, K \ {f})
  BY <1>1, <1>2, <1>3, <1>8, <1>9, <1>10 DEF Parts
<1> QED
  BY <1>1, <1>3, <1>4, <1>7, <1>11 DEF Good, u

\* A page of K becomes page a of the process.
LEMMA PageIn ==
  ASSUME NEW t, NEW K \in SUBSET Frames, Good(t, K), NEW a \in UPages, t.s.page[a] = 0,
         NEW f \in K, NEW user \in BOOLEAN
  PROVE  Good([t EXCEPT !.s.page[a] = f, !.s.user = IF user THEN t.s.user \cup {a} ELSE t.s.user],
              K \ {f})
<1> DEFINE v == IF user THEN t.s.user \cup {a} ELSE t.s.user
           u == [t EXCEPT !.s.page[a] = f, !.s.user = v]
<1>1. t \in CallType /\ Once(t.s) /\ Parts(t, K) /\ ~t.panic
  BY DEF Good
<1>2. f \in Frames /\ f # 0 /\ ~In(t.s, f)
  BY <1>1, VmAssumption DEF Parts
<1>3. v \in SUBSET UPages /\ \A b \in v : b \in t.s.user \/ b = a
  BY <1>1 DEF CallType, Spaces
<1> HIDE DEF v
<1>4. /\ u.free = t.free /\ u.panic = t.panic
      /\ u.s.pgdir = t.s.pgdir /\ u.s.table = t.s.table /\ u.s.user = v
      /\ u.s.page = [t.s.page EXCEPT ![a] = f]
  BY <1>1 DEF CallType, Spaces
<1>5. u \in CallType
  BY <1>1, <1>2, <1>3 DEF CallType, Spaces, FrameOr0
<1> HIDE DEF u
<1>6. t.s.page \in [UPages -> FrameOr0]
  BY <1>1 DEF CallType, Spaces
<1>7. \A e \in UPages : u.s.page[e] = IF e = a THEN f ELSE t.s.page[e]
  BY <1>4, <1>6
<1>8. Once(u.s)
  <2>1. \A b \in u.s.user : u.s.page[b] # 0
    BY <1>1, <1>2, <1>3, <1>4, <1>7 DEF Once
  <2> QED
    BY <1>1, <1>2, <1>4, <1>7, <2>1 DEF Once, In
<1>9. \A g : In(u.s, g) => In(t.s, g) \/ g = f
  BY <1>4, <1>7 DEF In
<1>10. \A g \in Frames : In(t.s, g) => In(u.s, g)
  BY <1>4, <1>7, VmAssumption DEF In
<1>11. In(u.s, f)
  BY <1>7 DEF In
<1>12. Parts(u, K \ {f})
  BY <1>1, <1>2, <1>4, <1>9, <1>10, <1>11 DEF Parts
<1> QED
  BY <1>1, <1>4, <1>5, <1>8, <1>12 DEF Good, u, v

\* walkpgdir()
LEMMA WalkLemma ==
  ASSUME NEW t, NEW K \in SUBSET Frames, Good(t, K), t.ok, NEW d \in Tables
  PROVE  LET u == Walk(t, d) IN
         /\ Good(u, K) /\ u.s.pgdir = t.s.pgdir
         /\ u.s.page = t.s.page /\ u.s.user = t.s.user
<1> DEFINE v == kalloc(t)
           w == [v EXCEPT !.s.table[d] = v.got]
<1>1. CASE t.s.table[d] # 0
  BY <1>1 DEF Walk
<1>2. CASE t.s.table[d] = 0
  <2>1. Walk(t, d) = IF v.ok THEN w ELSE v
    BY <1>2 DEF Walk, SetTable
  <2>2. /\ v.s = t.s
        /\ ~v.ok => Good(v, K)
        /\ v.ok => v.got \in Frames \ K /\ Good(v, K \cup {v.got})
    BY KallocLemma
  <2> HIDE DEF v
  <2>3. CASE ~v.ok
    BY <2>1, <2>2, <2>3
  <2>4. CASE v.ok
    <3>1. v.got \in K \cup {v.got} /\ K \cup {v.got} \in SUBSET Frames
          /\ (K \cup {v.got}) \ {v.got} = K
      BY <2>2, <2>4
    <3>2. Good(w, (K \cup {v.got}) \ {v.got})
      BY <1>2, <2>2, <2>4, <3>1, TableIn
    <3>3. w.s.pgdir = v.s.pgdir /\ w.s.page = v.s.page /\ w.s.user = v.s.user
      BY <2>2, <2>4 DEF Good, CallType, Spaces
    <3> QED
      BY <2>1, <2>2, <2>4, <3>1, <3>2, <3>3
  <2> QED
    BY <2>3, <2>4
<1> QED
  BY <1>1, <1>2

\* The outcome of a call that maps page a, or cannot.
Adds(t, u, a, user) ==
    /\ u.s.pgdir = t.s.pgdir
    /\ u.ok => /\ \E f \in Frames : u.s.page = [t.s.page EXCEPT ![a] = f]
               /\ u.s.user = IF user THEN t.s.user \cup {a} ELSE t.s.user
    /\ ~u.ok => u.s.page = t.s.page /\ u.s.user = t.s.user

\* mappages()
LEMMA MappagesLemma ==
  ASSUME NEW t, NEW K \in SUBSET Frames, Good(t, K), t.ok, NEW a \in UPages,
         t.s.page[a] = 0, t.got \in K, NEW user \in BOOLEAN
  PROVE  LET u == mappages(t, a, user) IN
         /\ Adds(t, u, a, user)
         /\ u.ok => Good(u, K \ {t.got})
         /\ ~u.ok => Good(u, K) /\ u.got = t.got
<1> DEFINE v == Walk(t, PDX(a))
           w == [v EXCEPT !.s.page[a] = t.got,
                          !.s.user = IF user THEN v.s.user \cup {a} ELSE v.s.user]
<1>1. PDX(a) \in Tables
  BY PDXType
<1>2. Good(v, K) /\ v.s.pgdir = t.s.pgdir /\ v.s.page = t.s.page /\ v.s.user = t.s.user
  BY <1>1, WalkLemma
<1>3. v \in CallType /\ t \in CallType
  BY <1>2 DEF Good
<1>4. CASE ~v.ok
  <2>1. mappages(t, a, user) = [v EXCEPT !.got = t.got]
    BY <1>4 DEF mappages, SetPage
  <2>2. /\ [v EXCEPT !.got = t.got] \in CallType /\ [v EXCEPT !.got = t.got].s = v.s
        /\ [v EXCEPT !.got = t.got].free = v.free /\ ~[v EXCEPT !.got = t.got].ok
        /\ [v EXCEPT !.got = t.got].panic = v.panic /\ [v EXCEPT !.got = t.got].got = t.got
    BY <1>3, <1>4 DEF CallType
  <2>3. Good([v EXCEPT !.got = t.got], K)
    BY <1>2, <2>2 DEF Good, Parts
  <2> QED
    BY <1>2, <2>1, <2>2, <2>3 DEF Adds
<1>5. CASE v.ok
  <2>1. mappages(t, a, user) = w
    BY <1>2, <1>3, <1>5 DEF mappages, SetPage, CallType, Spaces
  <2> HIDE DEF v
  <2>2. Good(w, K \ {t.got})
    BY <1>2, PageIn
  <2>3. /\ w.s.pgdir = v.s.pgdir /\ w.ok = v.ok
        /\ w.s.page = [v.s.page EXCEPT ![a] = t.got]
        /\ w.s.user = IF user THEN v.s.user \cup {a} ELSE v.s.user
    BY <1>3 DEF CallType, Spaces
  <2>4. t.got \in Frames
    OBVIOUS
  <2> QED
    BY <1>2, <1>5, <2>1, <2>2, <2>3, <2>4 DEF Adds
<1> QED
  BY <1>4, <1>5

\* kfree() of a page of K.
LEMMA KfreeLemma ==
  ASSUME NEW t, NEW K \in SUBSET Frames, Good(t, K), NEW f \in K
  PROVE  LET u == kfree(t, {f}) IN
         Good(u, K \ {f}) /\ u.s = t.s /\ u.ok = t.ok /\ u.free = t.free \cup {f}
<1>1. t \in CallType /\ Once(t.s) /\ Parts(t, K) /\ ~t.panic
  BY DEF Good
<1>2. f \in Frames \ t.free /\ ~In(t.s, f)
  BY <1>1 DEF Parts
<1>3. kfree(t, {f}) = [t EXCEPT !.free = t.free \cup {f}]
  BY <1>1, <1>2 DEF kfree, CallType
<1>4. /\ kfree(t, {f}) \in CallType /\ kfree(t, {f}).s = t.s /\ kfree(t, {f}).ok = t.ok
      /\ kfree(t, {f}).free = t.free \cup {f} /\ kfree(t, {f}).panic = t.panic
  BY <1>1, <1>2, <1>3 DEF CallType
<1>5. Parts(kfree(t, {f}), K \ {f})
  BY <1>1, <1>2, <1>4 DEF Parts
<1> QED
  BY <1>1, <1>4, <1>5 DEF Good

\* A page that kalloc() got is mapped, or given back.
LEMMA NewPageLemma ==
  ASSUME NEW t, NEW K \in SUBSET Frames, Good(t, K \cup {t.got}), t.ok, t.got \in Frames \ K,
         NEW a \in UPages, t.s.page[a] = 0, NEW user \in BOOLEAN
  PROVE  LET u == NewPage(t, a, user) IN Adds(t, u, a, user) /\ Good(u, K)
<1> DEFINE v == mappages(t, a, user)
           L == K \cup {t.got}
<1>1. L \in SUBSET Frames /\ t.got \in L /\ L \ {t.got} = K
  OBVIOUS
<1>2. /\ Adds(t, v, a, user)
      /\ v.ok => Good(v, L \ {t.got})
      /\ ~v.ok => Good(v, L) /\ v.got = t.got
  BY <1>1, MappagesLemma
<1>3. NewPage(t, a, user) = IF v.ok \/ v.panic THEN v ELSE kfree(v, {v.got})
  BY DEF NewPage, GiveBack
<1> HIDE DEF v, L
<1>4. CASE v.ok
  BY <1>1, <1>2, <1>3, <1>4
<1>5. CASE ~v.ok
  <2>1. NewPage(t, a, user) = kfree(v, {t.got})
    BY <1>2, <1>3, <1>5 DEF Good
  <2>2. Good(kfree(v, {t.got}), L \ {t.got}) /\ kfree(v, {t.got}).s = v.s
        /\ kfree(v, {t.got}).ok = v.ok
    <3> DEFINE g == t.got
    <3>1. Good(v, L) /\ L \in SUBSET Frames /\ g \in L
      BY <1>1, <1>2, <1>5
    <3> HIDE DEF g
    <3>2. /\ Good(kfree(v, {g}), L \ {g}) /\ kfree(v, {g}).s = v.s
          /\ kfree(v, {g}).ok = v.ok
      BY <3>1, KfreeLemma
    <3> QED
      BY <3>2 DEF g
  <2> QED
    BY <1>1, <1>2, <1>5, <2>1, <2>2 DEF Adds
<1> QED
  BY <1>4, <1>5

\* A page from kalloc() is mapped, unless memory runs out.
LEMMA AddLemma ==
  ASSUME NEW t, NEW K \in SUBSET Frames, Good(t, K), t.ok,
         NEW a \in UPages, t.s.page[a] = 0, NEW user \in BOOLEAN
  PROVE  LET u == NewPage(kalloc(t), a, user) IN Adds(t, u, a, user) /\ Good(u, K)
<1> DEFINE v == kalloc(t)
<1>1. /\ v.s = t.s
      /\ ~v.ok => Good(v, K)
      /\ v.ok => v.got \in Frames \ K /\ Good(v, K \cup {v.got})
  BY KallocLemma
<1> HIDE DEF v
<1>2. CASE ~v.ok
  BY <1>1, <1>2 DEF Adds, NewPage, v
<1>3. CASE v.ok
  <2>1. Adds(v, NewPage(v, a, user), a, user) /\ Good(NewPage(v, a, user), K)
    BY <1>1, <1>3, NewPageLemma
  <2> QED
    BY <1>1, <2>1 DEF Adds, v
<1> QED
  BY <1>2, <1>3

-----------------------------------------------------------------------------
(* Whatever the state of a call, its steps make a call.                    *)

\* Failing changes the outcome only.
LEMMA FailType ==
  ASSUME NEW t \in CallType
  PROVE  /\ Fail(t) \in CallType /\ Fail(t).s = t.s /\ Fail(t).free = t.free
         /\ ~Fail(t).ok /\ Fail(t).panic = t.panic /\ Fail(t).got = t.got
         /\ Panic(t) \in CallType /\ Panic(t).s = t.s /\ ~Panic(t).ok
BY DEF Fail, Panic, CallType

\* kalloc() keeps the type of a call and its address space.
LEMMA KallocType ==
  ASSUME NEW t \in CallType
  PROVE  kalloc(t) \in CallType /\ kalloc(t).s = t.s
<1>1. CASE t.left = 0 \/ t.free = {}
  BY <1>1, FailType DEF kalloc
<1>2. CASE ~(t.left = 0 \/ t.free = {})
  <2> DEFINE m == Min(t.free)
             n == t.left - 1
             F == t.free \ {m}
  <2>1. kalloc(t) = [t EXCEPT !.got = m, !.free = F, !.left = n]
    BY <1>2 DEF kalloc, CallType
  <2>2. m \in t.free
    <3>1. t.free \subseteq Nat /\ t.free # {}
      BY <1>2, VmAssumption DEF CallType
    <3>2. \E x \in t.free : \A y \in t.free : x <= y
      BY <3>1, LeastNumber
    <3> QED
      BY <3>2 DEF Min
  <2> HIDE DEF m
  <2>3. m \in FrameOr0 /\ n \in Int /\ F \in SUBSET Frames
    BY <2>2 DEF CallType, FrameOr0
  <2> HIDE DEF n, F
  <2> QED
    BY <2>1, <2>3 DEF CallType
<1> QED
  BY <1>1, <1>2

\* So does kfree(), whatever it is given.
LEMMA KfreeType ==
  ASSUME NEW t \in CallType, NEW F
  PROVE  kfree(t, F) \in CallType /\ kfree(t, F).s = t.s
<1>1. CASE F \subseteq Frames \ t.free
  BY <1>1 DEF kfree, CallType
<1>2. CASE ~(F \subseteq Frames \ t.free)
  BY <1>2, FailType DEF kfree
<1> QED
  BY <1>1, <1>2

\* walkpgdir() keeps the type of a call.
LEMMA WalkType ==
  ASSUME NEW t \in CallType, NEW d \in Tables
  PROVE  Walk(t, d) \in CallType
<1> DEFINE v == kalloc(t)
<1>1. v \in CallType
  BY KallocType
<1> HIDE DEF v
<1>2. [v EXCEPT !.s.table[d] = v.got] \in CallType
  BY <1>1 DEF CallType, Spaces
<1> QED
  BY <1>1, <1>2 DEF Walk, SetTable, v

\* So does the mapping of a page that kalloc() was asked for.
LEMMA NewPageType ==
  ASSUME NEW t \in CallType, NEW a \in UPages, NEW user \in BOOLEAN
  PROVE  NewPage(t, a, user) \in CallType
<1> DEFINE v == Walk(t, PDX(a))
           w == SetPage(v, a, t.got, user)
<1>1. v \in CallType /\ t.got \in FrameOr0
  BY PDXType, WalkType DEF CallType
<1>2. w \in CallType
  <2> HIDE DEF v
  <2>1. [v EXCEPT !.got = t.got] \in CallType
    BY <1>1 DEF CallType
  <2>2. [v EXCEPT !.s.page[a] = t.got,
                  !.s.user = IF user THEN v.s.user \cup {a} ELSE v.s.user] \in CallType
    <3> DEFINE x == IF user THEN v.s.user \cup {a} ELSE v.s.user
    <3>1. x \in SUBSET UPages
      BY <1>1 DEF CallType, Spaces
    <3> HIDE DEF x
    <3>2. [v EXCEPT !.s.page[a] = t.got, !.s.user = x] \in CallType
      BY <1>1, <3>1 DEF CallType, Spaces
    <3> QED
      BY <3>2 DEF x
  <2>3. Panic(v) \in CallType
    BY <1>1, FailType
  <2>4. [v EXCEPT !.s.page[a] = t.got, !.s.user = IF user THEN @ \cup {a} ELSE @]
        = [v EXCEPT !.s.page[a] = t.got,
                    !.s.user = IF user THEN v.s.user \cup {a} ELSE v.s.user]
    BY <1>1 DEF CallType, Spaces
  <2> QED
    BY <2>1, <2>2, <2>3, <2>4 DEF SetPage
<1>3. NewPage(t, a, user) = IF t.ok THEN IF w.ok \/ w.panic THEN w ELSE kfree(w, {w.got}) ELSE t
  BY DEF NewPage, GiveBack, mappages
<1> HIDE DEF w
<1> QED
  BY <1>2, <1>3, KfreeType

\* So does a page of allocuvm(),
LEMMA PageType ==
  ASSUME NEW t \in CallType, NEW a \in UPages
  PROVE  Page(t, a) \in CallType
BY KallocType, NewPageType DEF Page

\* a page of copyuvm(),
LEMMA CopyType ==
  ASSUME NEW t \in CallType, NEW s, NEW a \in UPages
  PROVE  Copy(t, s, a) \in CallType
<1> DEFINE u == a \in s.user
<1>1. u \in BOOLEAN
  OBVIOUS
<1>2. Copy(t, s, a) = IF ~t.ok THEN t ELSE IF s.page[a] = 0 THEN Panic(t) ELSE NewPage(kalloc(t), a, u)
  BY DEF Copy
<1> HIDE DEF u
<1> QED
  BY <1>1, <1>2, KallocType, NewPageType, FailType

\* and a page table of the kernel's half.
LEMMA KernelTableType ==
  ASSUME NEW t \in CallType, NEW d \in Tables
  PROVE  KernelTable(t, d) \in CallType
BY WalkType DEF KernelTable

-----------------------------------------------------------------------------
(* Freeing                                                                 *)

\* The pages of s without those from lo up to hi.
Cut(s, lo, hi) == [a \in UPages |-> IF lo <= a /\ a < hi THEN 0 ELSE s.page[a]]

\* deallocuvm() of the pages in gone.
LEMMA RemovePagesType ==
  ASSUME NEW t \in CallType, NEW gone
  PROVE  LET u == RemovePages(t, gone) IN
         /\ u \in CallType
         /\ u.s.page = [a \in UPages |-> IF a \in gone THEN 0 ELSE t.s.page[a]]
         /\ u.s.user = t.s.user \ gone /\ u.s.pgdir = t.s.pgdir /\ u.s.table = t.s.table
         /\ LET v == kfree(t, {t.s.page[a] : a \in gone})
            IN  u.ok = v.ok /\ u.panic = v.panic /\ u.free = v.free
<1> DEFINE v == kfree(t, {t.s.page[a] : a \in gone})
           P == [a \in UPages |-> IF a \in gone THEN 0 ELSE t.s.page[a]]
           U == t.s.user \ gone
<1>1. v \in CallType /\ v.s = t.s
  BY KfreeType
<1>2. P \in [UPages -> FrameOr0] /\ U \in SUBSET UPages
  BY DEF CallType, Spaces, FrameOr0
<1>3. RemovePages(t, gone) = [v EXCEPT !.s.page = P, !.s.user = U]
  <2> HIDE DEF v
  <2>1. [a \in UPages |-> IF a \in gone THEN 0 ELSE v.s.page[a]] = P
    BY <1>1
  <2>2. v.s.user \ gone = U
    BY <1>1
  <2>3. RemovePages(t, gone) = [v EXCEPT !.s.page = [a \in UPages |-> IF a \in gone THEN 0 ELSE @[a]],
                                         !.s.user = @ \ gone]
    BY DEF RemovePages, v
  <2>4. @ = [v EXCEPT !.s.page = [a \in UPages |-> IF a \in gone THEN 0 ELSE v.s.page[a]],
                      !.s.user = v.s.user \ gone]
    BY <1>1 DEF CallType, Spaces
  <2> QED
    BY <2>1, <2>2, <2>3, <2>4
<1> HIDE DEF v, P, U
<1> DEFINE w == [v.s EXCEPT !.page = P, !.user = U]
<1>4. v.s \in Spaces
  BY <1>1 DEF CallType
<1>5. /\ w \in Spaces /\ w.page = P /\ w.user = U
      /\ w.pgdir = v.s.pgdir /\ w.table = v.s.table
  BY <1>2, <1>4 DEF Spaces
<1>6. RemovePages(t, gone) = [v EXCEPT !.s = w]
  BY <1>1, <1>3 DEF CallType, Spaces
<1> HIDE DEF w
<1>7. /\ [v EXCEPT !.s = w] \in CallType /\ [v EXCEPT !.s = w].s = w
      /\ [v EXCEPT !.s = w].ok = v.ok /\ [v EXCEPT !.s = w].panic = v.panic
      /\ [v EXCEPT !.s = w].free = v.free
  BY <1>1, <1>5 DEF CallType
<1> QED
  BY <1>1, <1>5, <1>6, <1>7 DEF v, P, U

\* deallocuvm() gives back the pages that it unmaps, and each of them once.
LEMMA RemovePagesLemma ==
  ASSUME NEW t, NEW K \in SUBSET Frames, Good(t, K), NEW gone \in SUBSET UPages,
         \A a \in gone : t.s.page[a] # 0
  PROVE  LET u == RemovePages(t, gone) IN
         /\ Good(u, K) /\ u.ok = t.ok
         /\ u.s.page = [a \in UPages |-> IF a \in gone THEN 0 ELSE t.s.page[a]]
         /\ u.s.user = t.s.user \ gone /\ u.s.pgdir = t.s.pgdir /\ u.s.table = t.s.table
<1> DEFINE u == RemovePages(t, gone)
           F == {t.s.page[a] : a \in gone}
           v == kfree(t, F)
<1>1. t \in CallType /\ Once(t.s) /\ Parts(t, K) /\ ~t.panic
  BY DEF Good
<1>2. /\ u \in CallType
      /\ u.s.page = [a \in UPages |-> IF a \in gone THEN 0 ELSE t.s.page[a]]
      /\ u.s.user = t.s.user \ gone /\ u.s.pgdir = t.s.pgdir /\ u.s.table = t.s.table
      /\ u.ok = v.ok /\ u.panic = v.panic /\ u.free = v.free
  BY <1>1, RemovePagesType
<1>3. t.s.page \in [UPages -> FrameOr0]
  BY <1>1 DEF CallType, Spaces
<1>4. \A f \in F : f \in Frames /\ In(t.s, f)
  BY <1>3 DEF FrameOr0, In
<1>5. F \subseteq Frames \ t.free
  BY <1>1, <1>4 DEF Parts
<1>6. v.ok = t.ok /\ v.panic = t.panic /\ v.free = t.free \cup F
  <2> HIDE DEF F
  <2>1. v = [t EXCEPT !.free = t.free \cup F]
    BY <1>1, <1>5 DEF kfree, CallType
  <2> QED
    BY <1>1, <2>1 DEF CallType
<1> HIDE DEF u, v
<1>7. \A a \in UPages : u.s.page[a] = IF a \in gone THEN 0 ELSE t.s.page[a]
  BY <1>2
<1>8. Once(u.s)
  <2>1. \A a \in u.s.user : u.s.page[a] # 0
    BY <1>1, <1>2, <1>7 DEF Once, CallType, Spaces
  <2>2. \A a \in UPages : u.s.page[a] # 0 => u.s.page[a] = t.s.page[a]
    BY <1>7
  <2> QED
    BY <1>1, <1>2, <2>1, <2>2 DEF Once
<1>9. ASSUME NEW f \in Frames
      PROVE  In(u.s, f) <=> In(t.s, f) /\ f \notin F
  <2>1. f # 0
    BY VmAssumption
  <2>2. ASSUME In(u.s, f) PROVE In(t.s, f) /\ f \notin F
    <3>1. CASE u.s.pgdir = f
      BY <1>1, <1>2, <2>1, <3>1 DEF Once, In
    <3>2. ASSUME NEW d \in Tables, u.s.table[d] = f PROVE In(t.s, f) /\ f \notin F
      BY <1>1, <1>2, <2>1, <3>2 DEF Once, In
    <3>3. ASSUME NEW a \in UPages, u.s.page[a] = f PROVE In(t.s, f) /\ f \notin F
      <4>1. a \notin gone /\ t.s.page[a] = f
        BY <1>7, <2>1, <3>3
      <4> QED
        BY <1>1, <2>1, <4>1 DEF Once, In
    <3> QED
      BY <2>2, <3>1, <3>2, <3>3 DEF In
  <2>3. ASSUME In(t.s, f), f \notin F PROVE In(u.s, f)
    <3>1. \A a \in UPages : t.s.page[a] = f => u.s.page[a] = f
      BY <1>7, <2>3
    <3> QED
      BY <1>2, <2>3, <3>1 DEF In
  <2> QED
    BY <2>2, <2>3
<1> HIDE DEF F
<1>10. Parts(u, K)
  BY <1>1, <1>2, <1>4, <1>6, <1>9 DEF Parts
<1> QED
  BY <1>1, <1>2, <1>6, <1>8, <1>10 DEF Good, u

\* The pages that deallocuvm() removes.
Gone(t, oldsz, newsz) == {a \in Npages(newsz)..Npages(oldsz) - 1 : t.s.page[a] # 0}

\* Which pages deallocuvm() unmaps.
LEMMA GoneIs ==
  ASSUME NEW t, NEW oldsz \in Nat, NEW newsz \in Nat, oldsz <= KERNBASE
  PROVE  /\ Gone(t, oldsz, newsz) \in SUBSET UPages
         /\ newsz >= oldsz => Gone(t, oldsz, newsz) = {}
         /\ \A a \in UPages : a \in Gone(t, oldsz, newsz) <=>
                (Npages(newsz) <= a /\ a < Npages(oldsz) /\ t.s.page[a] # 0)
<1>1. Npages(newsz) \in Nat /\ Npages(oldsz) \in Nat
  BY NpagesIs
<1>2. (0..(Npages(oldsz) - 1)) \subseteq UPages /\ UPages \subseteq Nat
  BY NpagesExact, Sizes
<1>3. newsz >= oldsz => Npages(newsz) >= Npages(oldsz)
  BY <1>1, NpagesMonotone
<1> QED
  BY <1>1, <1>2, <1>3 DEF Gone

\* deallocuvm() keeps the type of a call.
LEMMA DeallocType ==
  ASSUME NEW t \in CallType, NEW oldsz, NEW newsz
  PROVE  deallocuvm(t, oldsz, newsz) \in CallType
BY RemovePagesType DEF deallocuvm

\* deallocuvm() unmaps the pages past the new size and loses none.
LEMMA DeallocLemma ==
  ASSUME NEW t, NEW K \in SUBSET Frames, Good(t, K),
         NEW oldsz \in Nat, NEW newsz \in Nat, oldsz <= KERNBASE
  PROVE  LET u == deallocuvm(t, oldsz, newsz) IN
         /\ Good(u, K) /\ u.ok = t.ok
         /\ u.s.page = Cut(t.s, Npages(newsz), Npages(oldsz))
         /\ u.s.user \subseteq t.s.user /\ u.s.pgdir = t.s.pgdir /\ u.s.table = t.s.table
<1> DEFINE G == Gone(t, oldsz, newsz)
           C == Cut(t.s, Npages(newsz), Npages(oldsz))
           u == deallocuvm(t, oldsz, newsz)
<1>1. /\ G \in SUBSET UPages
      /\ newsz >= oldsz => G = {}
      /\ \A a \in UPages : a \in G <=>
            (Npages(newsz) <= a /\ a < Npages(oldsz) /\ t.s.page[a] # 0)
  BY GoneIs
<1>2. t.s.page \in [UPages -> FrameOr0] /\ t.s.user \subseteq UPages
  BY DEF Good, CallType, Spaces
<1>3. C = [a \in UPages |-> IF a \in G THEN 0 ELSE t.s.page[a]]
  <2> HIDE DEF G
  <2> QED
    BY <1>1 DEF Cut
<1>4. CASE newsz >= oldsz
  <2>1. u = t
    BY <1>4 DEF deallocuvm
  <2>2. C = t.s.page
    <3> HIDE DEF G, C
    <3>1. C = [a \in UPages |-> t.s.page[a]]
      BY <1>1, <1>3, <1>4
    <3> QED
      BY <1>2, <3>1
  <2> QED
    BY <2>1, <2>2
<1>5. CASE ~(newsz >= oldsz)
  <2>1. u = RemovePages(t, G)
    BY <1>5 DEF deallocuvm, Gone
  <2>2. \A a \in G : t.s.page[a] # 0
    BY DEF Gone
  <2> HIDE DEF G, C, u
  <2>3. /\ Good(u, K) /\ u.ok = t.ok
        /\ u.s.page = [a \in UPages |-> IF a \in G THEN 0 ELSE t.s.page[a]]
        /\ u.s.user = t.s.user \ G /\ u.s.pgdir = t.s.pgdir /\ u.s.table = t.s.table
    BY <1>1, <2>1, <2>2, RemovePagesLemma
  <2> QED
    BY <1>3, <2>3 DEF C, u
<1> QED
  BY <1>4, <1>5

\* freevm() gives back all that is not in K.
LEMMA FreevmLemma ==
  ASSUME NEW t, NEW K \in SUBSET Frames, Good(t, K), t.s.pgdir # 0
  PROVE  LET u == freevm(t) IN
         Good(u, K) /\ u.ok = t.ok /\ u.s = NoSpace /\ u.free = Frames \ K
<1> DEFINE v == deallocuvm(t, KERNBASE, 0)
           F == ({v.s.table[d] : d \in Tables} \ {0}) \cup {v.s.pgdir}
           w == kfree(v, F)
           u == [w EXCEPT !.s = NoSpace]
<1>1. KERNBASE \in Nat
  BY VmAssumption
<1>2. /\ Good(v, K) /\ v.ok = t.ok
      /\ v.s.page = Cut(t.s, Npages(0), Npages(KERNBASE))
      /\ v.s.pgdir = t.s.pgdir /\ v.s.table = t.s.table
  BY <1>1, DeallocLemma
<1>3. freevm(t) = u
  BY DEF freevm, FreeTables
<1> HIDE DEF v
<1>4. v \in CallType /\ Once(v.s) /\ Parts(v, K) /\ ~v.panic
  BY <1>2 DEF Good
<1>5. \A a \in UPages : v.s.page[a] = 0
  <2>1. \A a \in UPages : Npages(0) <= a /\ a < Npages(KERNBASE)
    <3>1. UPages \subseteq Nat
      BY Sizes
    <3> QED
      BY <3>1, NpagesExact
  <2> QED
    BY <1>2, <2>1 DEF Cut
<1>6. v.s.pgdir \in FrameOr0 /\ v.s.table \in [Tables -> FrameOr0]
  BY <1>4 DEF CallType, Spaces
<1>7. F \subseteq Frames
  BY <1>2, <1>6 DEF FrameOr0
<1>8. ASSUME NEW f \in Frames PROVE In(v.s, f) <=> f \in F
  <2>1. f # 0
    BY VmAssumption
  <2> QED
    BY <1>5, <2>1 DEF In
<1> HIDE DEF F
<1>9. F \subseteq Frames \ v.free
  BY <1>4, <1>7, <1>8 DEF Parts
<1>10. /\ w \in CallType /\ w.ok = v.ok /\ ~w.panic /\ w.free = v.free \cup F
  <2>1. w = [v EXCEPT !.free = v.free \cup F]
    BY <1>4, <1>9 DEF kfree, CallType
  <2>2. v.free \cup F \in SUBSET Frames
    BY <1>4, <1>7 DEF CallType
  <2> QED
    BY <1>4, <2>1, <2>2 DEF CallType
<1>11. w.free = Frames \ K
  BY <1>4, <1>7, <1>8, <1>10 DEF Parts, CallType
<1> HIDE DEF w
<1>12. u \in CallType /\ u.ok = w.ok /\ ~u.panic /\ u.free = w.free /\ u.s = NoSpace
  BY <1>10, NoSpaceType DEF CallType
<1>13. Parts(u, K)
  BY <1>11, <1>12, NoSpaceType DEF Parts
<1>14. Good(u, K)
  BY <1>12, <1>13, NoSpaceType DEF Good
<1> QED
  BY <1>2, <1>3, <1>10, <1>11, <1>12, <1>14

-----------------------------------------------------------------------------
(* setupkvm()                                                              *)

KernelTo(f, t, n, first) ==
    f = [k \in 0..n |-> IF k = 0 THEN t ELSE KernelTable(f[k - 1], first + k - 1)]

\* The loop of setupkvm(), as a function of the turn.
LEMMA KernelTablesIs ==
  ASSUME NEW t \in CallType
  PROVE  \E n \in Nat, first \in Nat : \E f :
            /\ KernelTo(f, t, n, first) /\ KernelTables(t) = f[n]
            /\ \A k \in 1..n : first + k - 1 \in Tables
<1> DEFINE first == Cardinality(UTables)
           n == Cardinality(Tables) - first
<1>1. first \in Nat /\ n \in Nat /\ \A k \in 1..n : first + k - 1 \in Tables
  <2>1. PICK U \in Nat : UTables = 0..(U - 1) /\ Tables = 0..(2 * U - 1)
    BY Sizes
  <2>2. U - 1 \in Int /\ 2 * U - 1 \in Int /\ 0 \in Int
    OBVIOUS
  <2>3. Cardinality(0..(U - 1)) = IF 0 > U - 1 THEN 0 ELSE (U - 1) - 0 + 1
    BY <2>2, FS_Interval
  <2>4. Cardinality(0..(2 * U - 1)) = IF 0 > 2 * U - 1 THEN 0 ELSE (2 * U - 1) - 0 + 1
    BY <2>2, FS_Interval
  <2>5. first = U /\ Cardinality(Tables) = 2 * U
    BY <2>1, <2>3, <2>4
  <2>6. n = U
    BY <2>5
  <2> QED
    BY <2>1, <2>5, <2>6
<1>2. KernelTables(t) = (CHOOSE f : KernelTo(f, t, n, first))[n]
  BY DEF KernelTables, KernelTo
<1> HIDE DEF first, n
<1> DEFINE g == [x \in (1..n) \X CallType |-> KernelTable(x[2], first + x[1] - 1)]
<1>3. g \in [(1..n) \X CallType -> CallType]
  BY <1>1, KernelTableType
<1>4. PICK f \in [0..n -> CallType] : Turns(f, n, t, g)
  <2> HIDE DEF g
  <2> QED
    BY <1>1, <1>3, LoopType
<1>5. KernelTo(f, t, n, first)
  <2>1. ASSUME NEW k \in 0..n
        PROVE  f[k] = IF k = 0 THEN t ELSE KernelTable(f[k - 1], first + k - 1)
    <3>1. f[k] = IF k = 0 THEN t ELSE g[<<k, f[k - 1]>>]
      <4> HIDE DEF g
      <4> QED
        BY <1>4 DEF Turns
    <3>2. k # 0 => <<k, f[k - 1]>> \in (1..n) \X CallType
      BY <1>1
    <3> QED
      BY <3>1, <3>2
  <2>2. f = [k \in 0..n |-> f[k]]
    OBVIOUS
  <2> QED
    BY <2>1, <2>2 DEF KernelTo
<1>6. KernelTo(CHOOSE h : KernelTo(h, t, n, first), t, n, first)
  BY <1>5
<1> QED
  BY <1>1, <1>2, <1>6

\* The loop of setupkvm() loses no page and maps none for the user.
LEMMA KernelTablesLemma ==
  ASSUME NEW t, NEW K \in SUBSET Frames, Good(t, K)
  PROVE  LET u == KernelTables(t) IN
         /\ Good(u, K) /\ u.s.pgdir = t.s.pgdir
         /\ u.s.page = t.s.page /\ u.s.user = t.s.user
<1>1. t \in CallType
  BY DEF Good
<1>2. PICK n \in Nat, first \in Nat : \E f :
            /\ KernelTo(f, t, n, first) /\ KernelTables(t) = f[n]
            /\ \A k \in 1..n : first + k - 1 \in Tables
  BY <1>1, KernelTablesIs
<1>3. PICK f :
            /\ KernelTo(f, t, n, first) /\ KernelTables(t) = f[n]
            /\ \A k \in 1..n : first + k - 1 \in Tables
  BY <1>2
<1> DEFINE S == {k \in 0..n : /\ Good(f[k], K) /\ f[k].s.pgdir = t.s.pgdir
                              /\ f[k].s.page = t.s.page /\ f[k].s.user = t.s.user}
<1>4. \A k \in 0..n : f[k] = IF k = 0 THEN t ELSE KernelTable(f[k - 1], first + k - 1)
  BY <1>3 DEF KernelTo
<1>5. 0 \in S
  <2>1. 0 \in 0..n
    OBVIOUS
  <2>2. f[0] = t
    BY <1>4, <2>1
  <2> QED
    BY <2>1, <2>2
<1>6. ASSUME NEW k \in 1..n, k - 1 \in S
      PROVE  k \in S
  <2> DEFINE v == f[k - 1]
  <2>1. k \in 0..n /\ f[k] = KernelTable(v, first + k - 1)
    BY <1>4
  <2>2. /\ Good(v, K) /\ v.s.pgdir = t.s.pgdir
        /\ v.s.page = t.s.page /\ v.s.user = t.s.user
    BY <1>6
  <2> HIDE DEF v
  <2>3. CASE ~(v.ok /\ first + k - 1 \in KTables)
    BY <2>1, <2>2, <2>3 DEF KernelTable
  <2>4. CASE v.ok /\ first + k - 1 \in KTables
    <3>1. f[k] = Walk(v, first + k - 1)
      BY <2>1, <2>4 DEF KernelTable
    <3>2. first + k - 1 \in Tables
      BY <1>3
    <3> QED
      BY <2>1, <2>2, <2>4, <3>1, <3>2, WalkLemma
  <2> QED
    BY <2>3, <2>4
<1>7. n \in S
  <2> HIDE DEF S
  <2> QED
    BY <1>3, <1>5, <1>6, Counting
<1> QED
  BY <1>3, <1>7

\* A page of K becomes the page directory of a new space.
LEMMA NewSpace ==
  ASSUME NEW t, NEW K \in SUBSET Frames, t.s = NoSpace, t.got \in Frames \ K,
         Good(t, K \cup {t.got})
  PROVE  LET u == [t EXCEPT !.s = [NoSpace EXCEPT !.pgdir = t.got]] IN
         /\ Good(u, K) /\ u.s.pgdir = t.got
         /\ u.s.page = NoSpace.page /\ u.s.user = {}
<1> DEFINE w == [NoSpace EXCEPT !.pgdir = t.got]
           u == [t EXCEPT !.s = w]
<1>1. t \in CallType /\ Parts(t, K \cup {t.got}) /\ ~t.panic
  BY DEF Good
<1>2. t.got # 0
  BY VmAssumption
<1>3. /\ w \in Spaces /\ w.pgdir = t.got /\ w.table = NoSpace.table
      /\ w.page = NoSpace.page /\ w.user = NoSpace.user
  BY NoSpaceType DEF Spaces, FrameOr0
<1> HIDE DEF w
<1>4. u \in CallType /\ u.s = w /\ u.free = t.free /\ u.panic = t.panic
  BY <1>1, <1>3 DEF CallType
<1> HIDE DEF u
<1>5. Once(w)
  BY <1>2, <1>3, NoSpaceType DEF Once
<1>6. \A f \in Frames : In(w, f) <=> f = t.got
  BY <1>3, NoSpaceType, VmAssumption DEF In
<1>7. \A f \in Frames : ~In(t.s, f)
  BY NoSpaceType
<1>8. Parts(u, K)
  BY <1>1, <1>4, <1>6, <1>7 DEF Parts
<1> QED
  BY <1>1, <1>3, <1>4, <1>5, <1>8, NoSpaceType DEF Good, u, w

\* setupkvm(): a new space without user pages, or what there was before.
LEMMA SetupkvmLemma ==
  ASSUME NEW t, NEW K \in SUBSET Frames, Good(t, K), t.ok, t.s = NoSpace
  PROVE  LET u == setupkvm(t) IN
         /\ Good(u, K) /\ u.s.page = NoSpace.page /\ u.s.user = {}
         /\ IF u.ok THEN u.s.pgdir # 0 ELSE u.s = NoSpace
<1> DEFINE v == kalloc(t)
           w == [v EXCEPT !.s = [NoSpace EXCEPT !.pgdir = v.got]]
           x == KernelTables(w)
<1>1. /\ v.s = t.s
      /\ ~v.ok => Good(v, K)
      /\ v.ok => v.got \in Frames \ K /\ Good(v, K \cup {v.got})
  BY KallocLemma
<1>2. setupkvm(t) = IF ~v.ok THEN v ELSE IF x.ok \/ x.panic THEN x ELSE Fail(freevm(x))
  BY DEF setupkvm, KernelHalf, Undone
<1> HIDE DEF v
<1>3. CASE ~v.ok
  BY <1>1, <1>2, <1>3, NoSpaceType
<1>4. CASE v.ok
  <2>1. Good(w, K) /\ w.s.pgdir = v.got /\ w.s.page = NoSpace.page /\ w.s.user = {}
    BY <1>1, <1>4, NewSpace
  <2> HIDE DEF w
  <2>2. Good(x, K) /\ x.s.pgdir = v.got /\ x.s.page = NoSpace.page /\ x.s.user = {}
    BY <2>1, KernelTablesLemma
  <2>3. v.got # 0 /\ ~x.panic
    BY <1>1, <1>4, <2>2, VmAssumption DEF Good
  <2> HIDE DEF x
  <2>4. CASE x.ok
    BY <1>2, <1>4, <2>2, <2>3, <2>4
  <2>5. CASE ~x.ok
    <3> DEFINE y == freevm(x)
    <3>1. Good(y, K) /\ y.s = NoSpace
      BY <2>2, <2>3, FreevmLemma
    <3> HIDE DEF y
    <3>2. Good(Fail(y), K) /\ Fail(y).s = NoSpace /\ ~Fail(y).ok
      BY <3>1, FailType DEF Good, Parts
    <3>3. setupkvm(t) = Fail(y)
      BY <1>2, <1>4, <2>3, <2>5 DEF y
    <3> QED
      BY <3>2, <3>3, NoSpaceType
  <2> QED
    BY <2>4, <2>5
<1> QED
  BY <1>3, <1>4

-----------------------------------------------------------------------------
(* allocuvm() and copyuvm()                                                *)

PagesTo(f, t, n, lo) == f = [k \in 0..n |-> IF k = 0 THEN t ELSE Page(f[k - 1], lo + k - 1)]

\* The loop of allocuvm(), as a function of the turn.
LEMMA AllocPagesIs ==
  ASSUME NEW t \in CallType, NEW n \in Nat, NEW lo \in Nat, \A k \in 1..n : lo + k - 1 \in UPages
  PROVE  \E f \in [0..n -> CallType] : PagesTo(f, t, n, lo) /\ AllocPages(t, lo, n) = f[n]
<1>1. AllocPages(t, lo, n) = (CHOOSE f : PagesTo(f, t, n, lo))[n]
  BY DEF AllocPages, PagesTo
<1> DEFINE g == [x \in (1..n) \X CallType |-> Page(x[2], lo + x[1] - 1)]
<1>2. g \in [(1..n) \X CallType -> CallType]
  BY PageType
<1>3. ASSUME NEW f, Turns(f, n, t, g), f \in [0..n -> CallType]
      PROVE  PagesTo(f, t, n, lo)
  <2>1. ASSUME NEW k \in 0..n
        PROVE  f[k] = IF k = 0 THEN t ELSE Page(f[k - 1], lo + k - 1)
    <3>1. f[k] = IF k = 0 THEN t ELSE g[<<k, f[k - 1]>>]
      <4> HIDE DEF g
      <4> QED
        BY <1>3 DEF Turns
    <3>2. k # 0 => <<k, f[k - 1]>> \in (1..n) \X CallType
      BY <1>3
    <3> QED
      BY <3>1, <3>2
  <2>2. f = [k \in 0..n |-> f[k]]
    BY <1>3
  <2> QED
    BY <2>1, <2>2 DEF PagesTo
<1>4. PICK f \in [0..n -> CallType] : Turns(f, n, t, g)
  <2> HIDE DEF g
  <2> QED
    BY <1>2, LoopType
<1>5. PagesTo(f, t, n, lo)
  BY <1>3, <1>4
<1> DEFINE h == CHOOSE h : PagesTo(h, t, n, lo)
<1>6. PagesTo(h, t, n, lo)
  BY <1>5
<1> HIDE DEF h
<1>7. \A k \in 0..n : h[k] = IF k = 0 THEN t ELSE Page(h[k - 1], lo + k - 1)
  BY <1>6 DEF PagesTo
<1>8. ASSUME NEW m \in 0..n PROVE h[m] \in CallType
  <2> DEFINE S == {k \in 0..n : h[k] \in CallType}
  <2>1. 0 \in 0..n
    OBVIOUS
  <2>2. 0 \in S
    BY <1>7, <2>1
  <2>3. \A k \in 1..m : k - 1 \in S => k \in S
    BY <1>7, PageType
  <2>4. m \in S
    <3> HIDE DEF S
    <3> QED
      BY <2>2, <2>3, Counting
  <2> QED
    BY <2>4
<1>9. h = [k \in 0..n |-> h[k]]
  BY <1>6 DEF PagesTo
<1>10. h \in [0..n -> CallType]
  BY <1>8, <1>9
<1> QED
  BY <1>1, <1>6, <1>10 DEF h

\* The n pages from lo on are pages of the user's half that s does not map.
Fresh(s, lo, n) ==
    /\ \A k \in 1..n : lo + k - 1 \in UPages
    /\ \A a \in UPages : lo <= a /\ a < lo + n => s.page[a] = 0

\* From t to u no pages but these have changed, and they are mapped if all
\* went well.
Filled(t, u, lo, n) ==
    /\ u.s.pgdir = t.s.pgdir
    /\ \A a \in UPages : a < lo \/ lo + n <= a => u.s.page[a] = t.s.page[a]
    /\ u.ok => \A a \in UPages : lo <= a /\ a < lo + n => u.s.page[a] # 0

\* The loop of allocuvm() loses no page; it maps all n pages, or the first few of them.
LEMMA AllocPagesLemma ==
  ASSUME NEW t, NEW K \in SUBSET Frames, Good(t, K), NEW n \in Nat, NEW lo \in Nat,
         Fresh(t.s, lo, n)
  PROVE  Good(AllocPages(t, lo, n), K) /\ Filled(t, AllocPages(t, lo, n), lo, n)
<1> USE DEF Fresh
<1>1. t \in CallType
  BY DEF Good
<1>2. PICK f : PagesTo(f, t, n, lo) /\ AllocPages(t, lo, n) = f[n]
  BY <1>1, AllocPagesIs
<1>3. \A k \in 0..n : f[k] = IF k = 0 THEN t ELSE Page(f[k - 1], lo + k - 1)
  BY <1>2 DEF PagesTo
<1>4. UPages \subseteq Nat
  BY Sizes
<1> DEFINE J(u, k) ==
             /\ Good(u, K) /\ u.s.pgdir = t.s.pgdir
             /\ \A a \in UPages : a < lo \/ lo + k <= a => u.s.page[a] = t.s.page[a]
             /\ u.ok => \A a \in UPages : lo <= a /\ a < lo + k => u.s.page[a] # 0
           S == {k \in 0..n : J(f[k], k)}
<1>5. 0 \in S
  <2>1. 0 \in 0..n
    OBVIOUS
  <2>2. f[0] = t
    BY <1>3, <2>1
  <2>3. J(t, 0)
    BY <1>4
  <2> QED
    BY <2>1, <2>2, <2>3
<1>6. ASSUME NEW k \in 1..n, k - 1 \in S
      PROVE  k \in S
  <2> DEFINE v == f[k - 1]
             b == lo + k - 1
             u == f[k]
  <2>1. k \in 0..n /\ u = Page(v, b)
    BY <1>3
  <2>2. J(v, k - 1)
    BY <1>6
  <2>3. b \in UPages /\ lo + (k - 1) = b /\ b \in Nat
    BY <1>4
  <2> HIDE DEF v, u, b
  <2>4. v \in CallType
    BY <2>2 DEF Good
  <2>5. CASE ~v.ok
    <3>1. u = v
      BY <2>1, <2>5 DEF Page
    <3>2. J(v, k)
      BY <1>4, <2>2, <2>5
    <3> QED
      BY <2>1, <3>1, <3>2 DEF u
  <2>6. CASE v.ok
    <3>1. u = NewPage(kalloc(v), b, TRUE)
      BY <2>1, <2>6 DEF Page
    <3>2. v.s.page[b] = 0
      BY <2>2, <2>3 DEF b
    <3>3. Adds(v, u, b, TRUE) /\ Good(u, K)
      BY <2>2, <2>3, <2>6, <3>1, <3>2, AddLemma
    <3>4. v.s.page \in [UPages -> FrameOr0]
      BY <2>4 DEF CallType, Spaces
    <3>5. CASE ~u.ok
      BY <1>4, <2>1, <2>2, <3>3, <3>5 DEF Adds, u
    <3>6. CASE u.ok
      <4>1. PICK g \in Frames : u.s.page = [v.s.page EXCEPT ![b] = g]
        BY <3>3, <3>6 DEF Adds
      <4>2. g # 0
        BY VmAssumption
      <4>3. \A a \in UPages : u.s.page[a] = IF a = b THEN g ELSE v.s.page[a]
        BY <3>4, <4>1
      <4>4. \A a \in UPages : a < lo \/ lo + k <= a => u.s.page[a] = t.s.page[a]
        BY <1>4, <2>2, <4>3 DEF b
      <4>5. \A a \in UPages : lo <= a /\ a < lo + k => u.s.page[a] # 0
        <5>1. \A a \in UPages : lo <= a /\ a < lo + k => a = b \/ a < lo + (k - 1)
          BY <1>4 DEF b
        <5> QED
          BY <2>2, <2>6, <4>2, <4>3, <5>1
      <4>6. u.s.pgdir = t.s.pgdir
        BY <2>2, <3>3 DEF Adds
      <4> QED
        BY <2>1, <3>3, <4>4, <4>5, <4>6 DEF u
    <3> QED
      BY <3>5, <3>6
  <2> QED
    BY <2>5, <2>6
<1>7. n \in S
  <2> HIDE DEF S
  <2> QED
    BY <1>5, <1>6, Counting
<1> QED
  BY <1>2, <1>7 DEF Filled

\* The pages of a process of n bytes are mapped, and no others.
Mapped(s, n) == \A a \in UPages : s.page[a] # 0 <=> a < Npages(n)

\* The pages from lo on that allocuvm() maps.
LEMMA RangeIs ==
  ASSUME NEW oldsz \in Nat, NEW newsz \in Nat, oldsz <= newsz, newsz < KERNBASE
  PROVE  /\ Npages(oldsz) \in Nat /\ Npages(newsz) - Npages(oldsz) \in Nat
         /\ Npages(oldsz) + (Npages(newsz) - Npages(oldsz)) = Npages(newsz)
         /\ \A k \in 1..(Npages(newsz) - Npages(oldsz)) : Npages(oldsz) + k - 1 \in UPages
<1>1. Npages(oldsz) \in Nat /\ Npages(newsz) \in Nat /\ Npages(oldsz) <= Npages(newsz)
  BY NpagesIs, NpagesMonotone
<1>2. (0..(Npages(newsz) - 1)) \subseteq UPages
  BY NpagesExact, VmAssumption
<1> QED
  BY <1>1, <1>2

\* allocuvm() keeps the type of a call.
LEMMA AllocType ==
  ASSUME NEW t \in CallType, NEW oldsz \in Nat, NEW newsz \in Nat
  PROVE  allocuvm(t, oldsz, newsz) \in CallType /\ AllocSize(oldsz, newsz) \in Nat
<1>1. CASE newsz >= KERNBASE \/ newsz < oldsz
  BY <1>1, FailType DEF allocuvm, AllocSize
<1>2. CASE ~(newsz >= KERNBASE \/ newsz < oldsz)
  <2> DEFINE lo == Npages(oldsz)
             n == Npages(newsz) - Npages(oldsz)
             v == AllocPages(t, lo, n)
  <2>1. oldsz <= newsz /\ newsz < KERNBASE
    BY <1>2, VmAssumption
  <2>2. lo \in Nat /\ n \in Nat /\ \A k \in 1..n : lo + k - 1 \in UPages
    BY <2>1, RangeIs
  <2> HIDE DEF lo, n
  <2>3. v \in CallType
    <3>1. PICK f \in [0..n -> CallType] : v = f[n]
      BY <2>2, AllocPagesIs
    <3> QED
      BY <2>2, <3>1
  <2> HIDE DEF v
  <2>4. allocuvm(t, oldsz, newsz) = IF v.ok \/ v.panic THEN v ELSE Fail(deallocuvm(v, newsz, oldsz))
    BY <1>2 DEF allocuvm, UndoAlloc, v, lo, n
  <2> QED
    BY <2>3, <2>4, DeallocType, FailType DEF AllocSize
<1> QED
  BY <1>1, <1>2

\* allocuvm() maps all the pages, or leaves the pages as they were.
LEMMA AllocLemma ==
  ASSUME NEW t, NEW K \in SUBSET Frames, Good(t, K), t.ok,
         NEW oldsz \in Nat, NEW newsz \in Nat, oldsz < KERNBASE \/ oldsz <= newsz,
         Mapped(t.s, oldsz)
  PROVE  LET u == allocuvm(t, oldsz, newsz) IN
         /\ Good(u, K) /\ u.s.pgdir = t.s.pgdir
         /\ u.ok => /\ Mapped(u.s, AllocSize(oldsz, newsz))
                    /\ AllocSize(oldsz, newsz) \in Nat /\ AllocSize(oldsz, newsz) < KERNBASE
                    /\ newsz <= AllocSize(oldsz, newsz)
         /\ ~u.ok => u.s.page = t.s.page
<1>1. t \in CallType /\ KERNBASE \in Nat
  BY VmAssumption DEF Good
<1>2. CASE newsz >= KERNBASE
  BY <1>1, <1>2, FailType DEF allocuvm, Good, Parts
<1>3. CASE ~(newsz >= KERNBASE) /\ newsz < oldsz
  BY <1>1, <1>3 DEF allocuvm, AllocSize
<1>4. CASE ~(newsz >= KERNBASE) /\ ~(newsz < oldsz)
  <2> DEFINE lo == Npages(oldsz)
             hi == Npages(newsz)
             n == hi - lo
             v == AllocPages(t, lo, n)
             w == deallocuvm(v, newsz, oldsz)
  <2>1. oldsz <= newsz /\ newsz < KERNBASE
    BY <1>1, <1>4
  <2>2. lo \in Nat /\ n \in Nat /\ lo + n = hi /\ \A k \in 1..n : lo + k - 1 \in UPages
    BY <2>1, RangeIs
  <2>3. allocuvm(t, oldsz, newsz) = IF v.ok \/ v.panic THEN v ELSE Fail(w)
    BY <1>4 DEF allocuvm, UndoAlloc
  <2>4. hi \in Nat
    BY NpagesIs
  <2>5. UPages \subseteq Nat
    BY Sizes
  <2>6. \A a \in UPages : t.s.page[a] # 0 <=> a < lo
    BY DEF Mapped
  <2>7. /\ Good(v, K) /\ v.s.pgdir = t.s.pgdir
        /\ \A a \in UPages : a < lo \/ lo + n <= a => v.s.page[a] = t.s.page[a]
        /\ v.ok => \A a \in UPages : lo <= a /\ a < lo + n => v.s.page[a] # 0
    <3> HIDE DEF lo, hi, n
    <3>1. \A a \in UPages : lo <= a /\ a < lo + n => t.s.page[a] = 0
      <4>1. \A a \in UPages : lo <= a => ~(a < lo)
        BY <2>2, <2>5
      <4> QED
        BY <2>6, <4>1
    <3>2. Fresh(t.s, lo, n)
      BY <2>2, <3>1 DEF Fresh
    <3>3. Good(v, K) /\ Filled(t, v, lo, n)
      BY <2>2, <3>2, AllocPagesLemma
    <3> QED
      BY <3>3 DEF Filled
  <2>8. ~v.panic /\ v \in CallType
    BY <2>7 DEF Good
  <2>9. CASE v.ok
    <3>1. AllocSize(oldsz, newsz) = newsz
      BY <1>4 DEF AllocSize
    <3>2. \A a \in UPages : v.s.page[a] # 0 <=> a < hi
      <4> HIDE DEF lo, hi, n, v
      <4>1. SUFFICES ASSUME NEW a \in UPages PROVE v.s.page[a] # 0 <=> a < hi
        OBVIOUS
      <4>2. a \in Nat
        BY <2>5
      <4>3. CASE a < lo
        BY <2>2, <2>4, <2>6, <2>7, <4>2, <4>3
      <4>4. CASE lo <= a /\ a < lo + n
        BY <2>2, <2>7, <2>9, <4>4
      <4>5. CASE lo + n <= a
        BY <2>2, <2>4, <2>6, <2>7, <4>2, <4>5
      <4> QED
        BY <2>2, <4>2, <4>3, <4>4, <4>5
    <3>3. Mapped(v.s, newsz)
      BY <3>2 DEF Mapped
    <3> HIDE DEF v
    <3> QED
      BY <2>1, <2>3, <2>7, <2>9, <3>1, <3>3
  <2>10. CASE ~v.ok
    <3> HIDE DEF v
    <3>1. Good(w, K) /\ w.s.page = Cut(v.s, lo, hi) /\ w.s.pgdir = v.s.pgdir
      <4>1. newsz <= KERNBASE
        BY <1>1, <2>1
      <4> QED
        BY <2>7, <4>1, DeallocLemma
    <3> HIDE DEF w, lo, hi, n
    <3>2. w.s.page = t.s.page
      <4>1. t.s.page \in [UPages -> FrameOr0]
        BY <1>1 DEF CallType, Spaces
      <4>2. \A a \in UPages : (IF lo <= a /\ a < hi THEN 0 ELSE v.s.page[a]) = t.s.page[a]
        BY <2>2, <2>4, <2>5, <2>6, <2>7
      <4>3. Cut(v.s, lo, hi) = [a \in UPages |-> t.s.page[a]]
        BY <4>2 DEF Cut
      <4> QED
        BY <3>1, <4>1, <4>3
    <3>3. Good(Fail(w), K) /\ Fail(w).s = w.s /\ ~Fail(w).ok
      BY <3>1, FailType DEF Good, Parts
    <3>4. allocuvm(t, oldsz, newsz) = Fail(w)
      BY <2>3, <2>8, <2>10
    <3> QED
      BY <2>7, <3>1, <3>2, <3>3, <3>4
  <2> QED
    BY <2>9, <2>10
<1> QED
  BY <1>2, <1>3, <1>4

CopiesTo(f, t, s, n) == f = [k \in 0..n |-> IF k = 0 THEN t ELSE Copy(f[k - 1], s, k - 1)]

\* The loop of copyuvm(), as a function of the turn.
LEMMA CopyPagesIs ==
  ASSUME NEW t \in CallType, NEW s, NEW n \in Nat, (0..(n - 1)) \subseteq UPages
  PROVE  \E f : CopiesTo(f, t, s, n) /\ CopyPages(t, s, n) = f[n]
<1>1. CopyPages(t, s, n) = (CHOOSE f : CopiesTo(f, t, s, n))[n]
  BY DEF CopyPages, CopiesTo
<1> DEFINE g == [x \in (1..n) \X CallType |-> Copy(x[2], s, x[1] - 1)]
<1>2. g \in [(1..n) \X CallType -> CallType]
  BY CopyType
<1>3. PICK f \in [0..n -> CallType] : Turns(f, n, t, g)
  <2> HIDE DEF g
  <2> QED
    BY <1>2, LoopType
<1>4. CopiesTo(f, t, s, n)
  <2>1. ASSUME NEW k \in 0..n
        PROVE  f[k] = IF k = 0 THEN t ELSE Copy(f[k - 1], s, k - 1)
    <3>1. f[k] = IF k = 0 THEN t ELSE g[<<k, f[k - 1]>>]
      <4> HIDE DEF g
      <4> QED
        BY <1>3 DEF Turns
    <3>2. k # 0 => <<k, f[k - 1]>> \in (1..n) \X CallType
      OBVIOUS
    <3> QED
      BY <3>1, <3>2
  <2>2. f = [k \in 0..n |-> f[k]]
    OBVIOUS
  <2> QED
    BY <2>1, <2>2 DEF CopiesTo
<1>5. CopiesTo(CHOOSE h : CopiesTo(h, t, s, n), t, s, n)
  BY <1>4
<1> QED
  BY <1>1, <1>5

\* Pages 0 to n - 1 are mapped in u, and no others.
First(u, n) == \A a \in UPages : u.s.page[a] # 0 <=> a < n

\* The first n pages are pages of the user's half that s maps.
Source(s, n) == (0..(n - 1)) \subseteq UPages /\ \A a \in 0..(n - 1) : s.page[a] # 0

\* copyuvm() of n pages that are there.
LEMMA CopyPagesLemma ==
  ASSUME NEW t, NEW K \in SUBSET Frames, Good(t, K), NEW n \in Nat, NEW s, Source(s, n),
         First(t, 0)
  PROVE  LET u == CopyPages(t, s, n) IN
         Good(u, K) /\ u.s.pgdir = t.s.pgdir /\ (u.ok => First(u, n))
<1> USE DEF Source
<1>1. t \in CallType
  BY DEF Good
<1>2. PICK f : CopiesTo(f, t, s, n) /\ CopyPages(t, s, n) = f[n]
  BY <1>1, CopyPagesIs
<1>3. \A k \in 0..n : f[k] = IF k = 0 THEN t ELSE Copy(f[k - 1], s, k - 1)
  BY <1>2 DEF CopiesTo
<1>4. UPages \subseteq Nat
  BY Sizes
<1> DEFINE J(u, k) == Good(u, K) /\ u.s.pgdir = t.s.pgdir /\ (u.ok => First(u, k))
           S == {k \in 0..n : J(f[k], k)}
<1>5. 0 \in S
  <2>1. 0 \in 0..n
    OBVIOUS
  <2>2. f[0] = t
    BY <1>3, <2>1
  <2> QED
    BY <2>1, <2>2
<1>6. ASSUME NEW k \in 1..n, k - 1 \in S
      PROVE  k \in S
  <2> DEFINE v == f[k - 1]
             b == k - 1
             u == f[k]
  <2>1. k \in 0..n /\ u = Copy(v, s, b)
    BY <1>3
  <2>2. J(v, b)
    BY <1>6
  <2>3. b \in UPages /\ b \in 0..(n - 1) /\ k = b + 1 /\ b \in Nat
    OBVIOUS
  <2> HIDE DEF v, u, b
  <2>4. CASE ~v.ok
    <3>1. u = v
      BY <2>1, <2>4 DEF Copy
    <3> QED
      BY <2>1, <2>2, <2>4, <3>1 DEF u
  <2>5. CASE v.ok
    <3> DEFINE user == b \in s.user
    <3>1. u = NewPage(kalloc(v), b, user) /\ user \in BOOLEAN
      BY <2>1, <2>3, <2>5 DEF Copy
    <3> HIDE DEF user
    <3>2. v.s.page[b] = 0
      BY <2>2, <2>3, <2>5 DEF First
    <3>3. Adds(v, u, b, user) /\ Good(u, K)
      BY <2>2, <2>3, <2>5, <3>1, <3>2, AddLemma
    <3>4. v.s.page \in [UPages -> FrameOr0] /\ u.s.pgdir = t.s.pgdir
      BY <2>2, <3>3 DEF Good, CallType, Spaces, Adds
    <3>5. CASE ~u.ok
      BY <2>1, <3>3, <3>4, <3>5 DEF u
    <3>6. CASE u.ok
      <4>1. PICK g \in Frames : u.s.page = [v.s.page EXCEPT ![b] = g]
        BY <3>3, <3>6 DEF Adds
      <4>2. g # 0
        BY VmAssumption
      <4>3. \A a \in UPages : u.s.page[a] = IF a = b THEN g ELSE v.s.page[a]
        BY <3>4, <4>1
      <4>4. \A a \in UPages : a < k <=> a = b \/ a < b
        BY <1>4, <2>3
      <4>5. First(u, k)
        BY <2>2, <2>5, <4>2, <4>3, <4>4 DEF First
      <4> QED
        BY <2>1, <3>3, <3>4, <4>5 DEF u
    <3> QED
      BY <3>5, <3>6
  <2> QED
    BY <2>4, <2>5
<1>7. n \in S
  <2> HIDE DEF S
  <2> QED
    BY <1>5, <1>6, Counting
<1> QED
  BY <1>2, <1>7

\* copyuvm(): the same pages are mapped, or there is no new space.
LEMMA CopyuvmLemma ==
  ASSUME NEW t, NEW K \in SUBSET Frames, Good(t, K), t.ok, t.s = NoSpace,
         NEW s, NEW n \in Nat, n < KERNBASE, Mapped(s, n)
  PROVE  LET u == copyuvm(t, s, n) IN
         /\ Good(u, K)
         /\ u.ok => u.s.pgdir # 0 /\ Mapped(u.s, n)
         /\ ~u.ok => u.s = NoSpace
<1> DEFINE m == Npages(n)
           v == setupkvm(t)
           w == CopyPages(v, s, m)
<1>1. /\ Good(v, K) /\ v.s.page = NoSpace.page
      /\ IF v.ok THEN v.s.pgdir # 0 ELSE v.s = NoSpace
  BY SetupkvmLemma
<1>2. m \in Nat /\ (0..(m - 1)) \subseteq UPages
  BY NpagesIs, NpagesExact, VmAssumption
<1>3. \A a \in 0..(m - 1) : s.page[a] # 0
  <2>1. \A a \in UPages : s.page[a] # 0 <=> a < m
    BY DEF Mapped
  <2> HIDE DEF m
  <2> QED
    BY <1>2, <2>1
<1>4. copyuvm(t, s, n) = IF v.ok THEN IF w.ok \/ w.panic THEN w ELSE Fail(freevm(w)) ELSE v
  BY DEF copyuvm, CopyInto, Undone
<1> HIDE DEF v
<1>5. CASE ~v.ok
  BY <1>1, <1>4, <1>5
<1>6. CASE v.ok
  <2>1. First(v, 0)
    <3>1. UPages \subseteq Nat
      BY Sizes
    <3>2. \A a \in UPages : v.s.page[a] = 0
      BY <1>1, NoSpaceType
    <3> QED
      BY <3>1, <3>2 DEF First
  <2>2. Good(w, K) /\ w.s.pgdir = v.s.pgdir /\ (w.ok => First(w, m))
    <3> HIDE DEF m
    <3>1. Source(s, m)
      BY <1>2, <1>3 DEF Source
    <3> QED
      BY <1>1, <1>2, <2>1, <3>1, CopyPagesLemma
  <2>3. ~w.panic /\ w.s.pgdir # 0
    BY <1>1, <1>6, <2>2 DEF Good
  <2>4. CASE w.ok
    <3>1. copyuvm(t, s, n) = w
      BY <1>4, <1>6, <2>4
    <3>2. Mapped(w.s, n)
      BY <2>2, <2>4 DEF First, Mapped
    <3> HIDE DEF w
    <3> QED
      BY <2>2, <2>3, <2>4, <3>1, <3>2
  <2>5. CASE ~w.ok
    <3> HIDE DEF w
    <3> DEFINE y == freevm(w)
    <3>1. Good(y, K) /\ y.s = NoSpace
      BY <2>2, <2>3, FreevmLemma
    <3> HIDE DEF y
    <3>2. Good(Fail(y), K) /\ Fail(y).s = NoSpace /\ ~Fail(y).ok
      BY <3>1, FailType DEF Good, Parts
    <3>3. copyuvm(t, s, n) = Fail(y)
      BY <1>4, <1>6, <2>3, <2>5 DEF y
    <3> QED
      BY <3>2, <3>3
  <2> QED
    BY <2>4, <2>5
<1> QED
  BY <1>5, <1>6

-----------------------------------------------------------------------------
(* exec()                                                                  *)

LoadType == [t : CallType, sz : Nat]

\* A load that has panicked nowhere, into the space with page directory d.
LoadGood(l, K, d) ==
    /\ l \in LoadType /\ Good(l.t, K) /\ l.t.s.pgdir = d
    /\ l.t.ok => l.sz < KERNBASE /\ Mapped(l.t.s, l.sz)

\* The load l with the call t.
LEMMA WithCall ==
  ASSUME NEW l \in LoadType, NEW t \in CallType
  PROVE  LET m == [l EXCEPT !.t = t] IN m \in LoadType /\ m.t = t /\ m.sz = l.sz
BY DEF LoadType

\* exec() may give up at any point of the loading.
LEMMA LoadFails ==
  ASSUME NEW l, NEW K, NEW d, LoadGood(l, K, d)
  PROVE  LoadGood([l EXCEPT !.t = Fail(@)], K, d) /\ ~[l EXCEPT !.t = Fail(@)].t.ok
<1>1. l \in LoadType /\ l.t \in CallType /\ Good(l.t, K)
  BY DEF LoadGood, Good
<1>2. [l EXCEPT !.t = Fail(@)] = [l EXCEPT !.t = Fail(l.t)]
  BY <1>1 DEF LoadType
<1> DEFINE u == Fail(l.t)
           m == [l EXCEPT !.t = u]
<1>3. Good(u, K) /\ u.s = l.t.s /\ ~u.ok /\ u \in CallType
  BY <1>1, FailType DEF Good, Parts
<1> HIDE DEF u
<1>4. m \in LoadType /\ m.t = u
  BY <1>1, <1>3, WithCall
<1> QED
  BY <1>2, <1>3, <1>4 DEF LoadGood, u

\* loaduvm() keeps the type of a loading,
LEMMA LoadedType ==
  ASSUME NEW l \in LoadType, NEW ph
  PROVE  Loaded(l, ph) \in LoadType
<1>1. l.t \in CallType
  BY DEF LoadType
<1>2. Fail(l.t) \in CallType /\ Panic(l.t) \in CallType
  BY <1>1, FailType
<1>3. [l EXCEPT !.t = Fail(@)] = [l EXCEPT !.t = Fail(l.t)]
      /\ [l EXCEPT !.t = Panic(@)] = [l EXCEPT !.t = Panic(l.t)]
  BY DEF LoadType
<1>4. [l EXCEPT !.t = Fail(@)] \in LoadType /\ [l EXCEPT !.t = Panic(@)] \in LoadType
  BY <1>2, <1>3, WithCall
<1> QED
  BY <1>4 DEF Loaded

\* and so does a whole segment.
LEMMA SegmentType ==
  ASSUME NEW l \in LoadType, NEW ph, NEW end \in Nat
  PROVE  Segment(l, ph, end) \in LoadType
<1>1. l.t \in CallType /\ l.sz \in Nat
  BY DEF LoadType
<1> DEFINE m == [t |-> allocuvm(l.t, l.sz, end), sz |-> AllocSize(l.sz, end)]
<1>2. m \in LoadType
  BY <1>1, AllocType DEF LoadType
<1>3. [l EXCEPT !.t = Fail(@)] = [l EXCEPT !.t = Fail(l.t)]
  BY DEF LoadType
<1>4. [l EXCEPT !.t = Fail(@)] \in LoadType
  BY <1>1, <1>3, FailType, WithCall
<1>5. Segment(l, ph, end) = IF ~l.t.ok \/ ph.memsz < ph.filesz \/ end < ph.vaddr
                            THEN [l EXCEPT !.t = Fail(@)] ELSE Loaded(m, ph)
  BY DEF Segment
<1> HIDE DEF m
<1> QED
  BY <1>2, <1>4, <1>5, LoadedType

\* The end of a segment, as the 32 bits of the machine compute it.
LEMMA EndType ==
  ASSUME NEW ph \in Header
  PROVE  /\ (ph.vaddr + ph.memsz) % Wrap \in Nat
         /\ (ph.vaddr + ph.memsz) % Wrap >= ph.vaddr =>
               (ph.vaddr + ph.memsz) % Wrap = ph.vaddr + ph.memsz
         /\ ph.vaddr \in Nat /\ ph.memsz \in Nat /\ ph.filesz \in Nat
<1>1. Wrap \in Nat \ {0}
  BY VmAssumption DEF Wrap
<1>2. ph.vaddr \in 0..(Wrap - 1) /\ ph.memsz \in 0..(Wrap - 1) /\ ph.filesz \in 0..(Wrap - 1)
  BY DEF Header
<1>3. \A a, b \in 0..(Wrap - 1) :
         (a + b) % Wrap \in Nat /\ (a + b) % Wrap = IF a + b < Wrap THEN a + b ELSE a + b - Wrap
  BY <1>1
<1>4. \A a, b \in 0..(Wrap - 1) : (a + b) % Wrap >= a => (a + b) % Wrap = a + b
  BY <1>1, <1>3
<1> DEFINE a == ph.vaddr
           b == ph.memsz
           c == ph.filesz
<1>5. a \in 0..(Wrap - 1) /\ b \in 0..(Wrap - 1) /\ c \in 0..(Wrap - 1)
  BY <1>2
<1> HIDE DEF a, b, c
<1>6. /\ (a + b) % Wrap \in Nat
      /\ (a + b) % Wrap >= a => (a + b) % Wrap = a + b
  BY <1>3, <1>4, <1>5
<1>7. a \in Nat /\ b \in Nat /\ c \in Nat
  BY <1>1, <1>5
<1> QED
  BY <1>6, <1>7 DEF a, b, c

\* loaduvm() finds every page of the segment mapped: its panic is not reached.
LEMMA LoadedLemma ==
  ASSUME NEW l, NEW K, NEW d, LoadGood(l, K, d), NEW ph \in Header,
         l.t.ok => ph.vaddr + ph.filesz <= l.sz
  PROVE  LoadGood(Loaded(l, ph), K, d)
<1>1. CASE ~l.t.ok \/ l.sz = 0 \/ ph.vaddr % PGSIZE # 0
  <2>1. Loaded(l, ph) = [l EXCEPT !.t = Fail(@)]
    BY <1>1 DEF Loaded
  <2> QED
    BY <2>1, LoadFails
<1>2. CASE ~(~l.t.ok \/ l.sz = 0 \/ ph.vaddr % PGSIZE # 0)
  <2>1. l.sz \in Nat /\ l.sz < KERNBASE /\ Mapped(l.t.s, l.sz)
    BY <1>2 DEF LoadGood, LoadType
  <2>2. ASSUME NEW a \in PagesOf(ph.vaddr, ph.filesz) PROVE l.t.s.page[a] # 0
    <3>1. PICK b \in ph.vaddr..(ph.vaddr + ph.filesz - 1) : a = b \div PGSIZE
      BY DEF PagesOf
    <3>2. b \in Nat /\ b < l.sz
      BY <1>2, <2>1, <3>1, EndType
    <3>3. a \in Nat /\ a < Npages(l.sz)
      BY <2>1, <3>1, <3>2, PageOfByte
    <3>4. Npages(l.sz) \in Nat /\ (0..(Npages(l.sz) - 1)) \subseteq UPages
      <4>1. l.sz <= KERNBASE
        BY <2>1, VmAssumption
      <4> QED
        BY <2>1, <4>1, NpagesIs, NpagesExact
    <3>5. a \in UPages
      BY <3>3, <3>4
    <3> QED
      BY <2>1, <3>3, <3>5 DEF Mapped
  <2>3. Loaded(l, ph) = IF ph.short THEN [l EXCEPT !.t = Fail(@)] ELSE l
    BY <1>2, <2>2 DEF Loaded
  <2> QED
    BY <2>3, LoadFails
<1> QED
  BY <1>1, <1>2

\* A segment keeps the loading good.
LEMMA SegmentLemma ==
  ASSUME NEW l, NEW K \in SUBSET Frames, NEW d, LoadGood(l, K, d), NEW ph \in Header
  PROVE  LoadGood(LoadSegment(l, ph), K, d)
<1> DEFINE end == (ph.vaddr + ph.memsz) % Wrap
           m == [t |-> allocuvm(l.t, l.sz, end), sz |-> AllocSize(l.sz, end)]
<1>1. end \in Nat /\ ph.vaddr \in Nat /\ ph.memsz \in Nat /\ ph.filesz \in Nat
      /\ (end >= ph.vaddr => end = ph.vaddr + ph.memsz)
  BY EndType
<1> HIDE DEF end
<1>2. CASE ~l.t.ok \/ ph.memsz < ph.filesz \/ end < ph.vaddr
  <2>1. LoadSegment(l, ph) = [l EXCEPT !.t = Fail(@)]
    BY <1>2 DEF LoadSegment, Segment, end
  <2> QED
    BY <2>1, LoadFails
<1>3. CASE ~(~l.t.ok \/ ph.memsz < ph.filesz \/ end < ph.vaddr)
  <2>1. LoadSegment(l, ph) = Loaded(m, ph)
    BY <1>3 DEF LoadSegment, Segment, end
  <2>2. /\ l.t \in CallType /\ l.sz \in Nat /\ l.sz < KERNBASE
        /\ Good(l.t, K) /\ Mapped(l.t.s, l.sz) /\ l.t.s.pgdir = d
    BY <1>3 DEF LoadGood, LoadType
  <2> DEFINE u == allocuvm(l.t, l.sz, end)
             z == AllocSize(l.sz, end)
  <2>3. u \in CallType /\ z \in Nat
    BY <1>1, <2>2, AllocType
  <2>4. /\ Good(u, K) /\ u.s.pgdir = l.t.s.pgdir
        /\ u.ok => Mapped(u.s, z) /\ z < KERNBASE /\ end <= z
    BY <1>1, <1>3, <2>2, AllocLemma
  <2> HIDE DEF u, z
  <2>5. m.t = u /\ m.sz = z /\ m \in LoadType
    BY <2>3 DEF LoadType, u, z
  <2> HIDE DEF m
  <2>6. LoadGood(m, K, d)
    BY <2>2, <2>4, <2>5 DEF LoadGood
  <2>7. m.t.ok => ph.vaddr + ph.filesz <= m.sz
    BY <1>1, <1>3, <2>3, <2>4, <2>5
  <2> QED
    BY <2>1, <2>6, <2>7, LoadedLemma
<1> QED
  BY <1>2, <1>3

LoadTo(f, t, prog) ==
    f = [k \in 0..Len(prog) |-> IF k = 0 THEN [t |-> t, sz |-> 0] ELSE LoadSegment(f[k - 1], prog[k])]

\* The loop of exec() over the program headers, as a function of the turn.
LEMMA LoadIs ==
  ASSUME NEW t \in CallType, NEW prog \in Seq(Header)
  PROVE  \E f : LoadTo(f, t, prog) /\ Load(t, prog) = f[Len(prog)]
<1> DEFINE n == Len(prog)
           x0 == [t |-> t, sz |-> 0]
<1>1. Load(t, prog) = (CHOOSE f : LoadTo(f, t, prog))[Len(prog)]
  BY DEF Load, LoadTo
<1> DEFINE g == [x \in (1..n) \X LoadType |-> LoadSegment(x[2], prog[x[1]])]
<1>2. n \in Nat /\ x0 \in LoadType
  BY DEF LoadType
<1>3. g \in [(1..n) \X LoadType -> LoadType]
  <2>1. ASSUME NEW k \in 1..n, NEW l \in LoadType
        PROVE  LoadSegment(l, prog[k]) \in LoadType
    <3>1. prog[k] \in Header
      OBVIOUS
    <3> QED
      BY <3>1, EndType, SegmentType DEF LoadSegment
  <2> QED
    BY <2>1
<1> HIDE DEF n, x0
<1>4. PICK f \in [0..n -> LoadType] : Turns(f, n, x0, g)
  <2> HIDE DEF g
  <2> QED
    BY <1>2, <1>3, LoopType
<1>5. LoadTo(f, t, prog)
  <2>1. ASSUME NEW k \in 0..n
        PROVE  f[k] = IF k = 0 THEN x0 ELSE LoadSegment(f[k - 1], prog[k])
    <3>1. f[k] = IF k = 0 THEN x0 ELSE g[<<k, f[k - 1]>>]
      <4> HIDE DEF g
      <4> QED
        BY <1>4 DEF Turns
    <3>2. k # 0 => <<k, f[k - 1]>> \in (1..n) \X LoadType
      BY <1>2
    <3> QED
      BY <3>1, <3>2
  <2>2. f = [k \in 0..n |-> f[k]]
    OBVIOUS
  <2> QED
    BY <2>1, <2>2 DEF LoadTo, n, x0
<1>6. LoadTo(CHOOSE h : LoadTo(h, t, prog), t, prog)
  BY <1>5
<1> QED
  BY <1>1, <1>6

\* exec() loads any program, well formed or not, without losing a page or a panic.
LEMMA LoadLemma ==
  ASSUME NEW t, NEW K \in SUBSET Frames, Good(t, K), t.s.page = NoSpace.page,
         NEW prog \in Seq(Header)
  PROVE  LoadGood(Load(t, prog), K, t.s.pgdir)
<1>1. t \in CallType
  BY DEF Good
<1>2. PICK f : LoadTo(f, t, prog) /\ Load(t, prog) = f[Len(prog)]
  BY <1>1, LoadIs
<1> DEFINE n == Len(prog)
<1>3. \A k \in 0..n : f[k] = IF k = 0 THEN [t |-> t, sz |-> 0] ELSE LoadSegment(f[k - 1], prog[k])
  BY <1>2 DEF LoadTo
<1>4. n \in Nat /\ \A k \in 1..n : prog[k] \in Header
  OBVIOUS
<1> HIDE DEF n
<1> DEFINE S == {k \in 0..n : LoadGood(f[k], K, t.s.pgdir)}
<1>5. 0 \in S
  <2>1. 0 \in 0..n
    BY <1>4
  <2> DEFINE x == [t |-> t, sz |-> 0]
  <2>2. f[0] = x
    BY <1>3, <2>1
  <2>3. x \in LoadType /\ x.t = t /\ x.sz = 0
    BY <1>1 DEF LoadType
  <2> HIDE DEF x
  <2>4. Mapped(t.s, 0) /\ 0 < KERNBASE
    <3>1. UPages \subseteq Nat
      BY Sizes
    <3>2. \A a \in UPages : t.s.page[a] = 0
      BY NoSpaceType
    <3>3. \A a \in UPages : ~(a < Npages(0))
      <4>1. Npages(0) = 0
        BY NpagesExact
      <4> QED
        BY <3>1, <4>1
    <3>4. Mapped(t.s, 0)
      BY <3>2, <3>3 DEF Mapped
    <3> QED
      BY <3>4, VmAssumption
  <2>5. LoadGood(x, K, t.s.pgdir)
    BY <2>3, <2>4 DEF LoadGood
  <2> QED
    BY <2>1, <2>2, <2>5
<1>6. ASSUME NEW k \in 1..n, k - 1 \in S
      PROVE  k \in S
  <2>1. k \in 0..n /\ f[k] = LoadSegment(f[k - 1], prog[k]) /\ LoadGood(f[k - 1], K, t.s.pgdir)
    BY <1>3, <1>4, <1>6
  <2> QED
    BY <1>4, <2>1, SegmentLemma
<1>7. n \in S
  <2> HIDE DEF S
  <2> QED
    BY <1>4, <1>5, <1>6, Counting
<1> QED
  BY <1>2, <1>7 DEF n

\* Fewer pages are for the user.
LEMMA FewerUser ==
  ASSUME NEW t, NEW K, Good(t, K), NEW U
  PROVE  LET u == [t EXCEPT !.s.user = t.s.user \ U] IN
         /\ Good(u, K) /\ u.ok = t.ok /\ u.s.pgdir = t.s.pgdir /\ u.s.page = t.s.page
<1> DEFINE V == t.s.user \ U
           s == [t.s EXCEPT !.user = V]
           u == [t EXCEPT !.s = s]
<1>1. t \in CallType /\ Once(t.s) /\ Parts(t, K) /\ ~t.panic
  BY DEF Good
<1>2. t.s \in Spaces /\ V \in SUBSET UPages
  BY <1>1 DEF CallType, Spaces
<1>3. V \subseteq t.s.user
  OBVIOUS
<1>4. [t EXCEPT !.s.user = V] = u
  BY <1>1 DEF CallType, Spaces
<1> HIDE DEF V
<1>5. /\ s \in Spaces /\ s.user = V /\ s.pgdir = t.s.pgdir
      /\ s.page = t.s.page /\ s.table = t.s.table
  BY <1>2 DEF Spaces
<1> HIDE DEF s
<1>6. u \in CallType /\ u.s = s /\ u.ok = t.ok /\ u.panic = t.panic /\ u.free = t.free
  BY <1>1, <1>5 DEF CallType
<1> HIDE DEF u
<1>7. Once(u.s)
  BY <1>1, <1>3, <1>5, <1>6 DEF Once
<1>8. \A f : In(u.s, f) <=> In(t.s, f)
  BY <1>5, <1>6 DEF In
<1>9. Good(u, K)
  BY <1>1, <1>6, <1>7, <1>8 DEF Good, Parts
<1> QED
  BY <1>4, <1>5, <1>6, <1>9 DEF V

\* The guard page takes a page from the user and nothing else.
LEMMA GuardLemma ==
  ASSUME NEW l, NEW K, NEW d, LoadGood(l, K, d), NEW low
  PROVE  LoadGood(Guard(l, low), K, d)
<1> DEFINE U == {low \div PGSIZE}
           u == [l.t EXCEPT !.s.user = l.t.s.user \ U]
           m == [l EXCEPT !.t = u]
<1>1. l \in LoadType /\ Good(l.t, K) /\ l.t \in CallType
  BY DEF LoadGood, LoadType
<1>2. Guard(l, low) = m
  BY <1>1 DEF Guard, LoadType, CallType, Spaces
<1> HIDE DEF U
<1>3. Good(u, K) /\ u.ok = l.t.ok /\ u.s.pgdir = l.t.s.pgdir /\ u.s.page = l.t.s.page
  BY <1>1, FewerUser
<1> HIDE DEF u
<1>4. u \in CallType
  BY <1>3 DEF Good
<1>5. m \in LoadType /\ m.t = u /\ m.sz = l.sz
  BY <1>1, <1>4, WithCall
<1> HIDE DEF m
<1> QED
  BY <1>2, <1>3, <1>5 DEF LoadGood, Mapped

\* The stack above the program.
LEMMA StackLemma ==
  ASSUME NEW l, NEW K \in SUBSET Frames, NEW d, LoadGood(l, K, d)
  PROVE  LoadGood(WithStack(l), K, d)
<1> DEFINE low == PGROUNDUP(l.sz)
           top == low + 2 * PGSIZE
           u == allocuvm(l.t, low, top)
           m == [t |-> u, sz |-> top]
           w == Guard(m, low)
<1>1. CASE ~l.t.ok
  <2>1. WithStack(l) = l
    BY <1>1 DEF WithStack, Stack
  <2> QED
    BY <2>1
<1>2. CASE l.t.ok
  <2>1. /\ l \in LoadType /\ l.t \in CallType /\ l.sz \in Nat /\ l.sz < KERNBASE
        /\ Good(l.t, K) /\ Mapped(l.t.s, l.sz) /\ l.t.s.pgdir = d
    BY <1>2 DEF LoadGood, LoadType
  <2>2. PGSIZE \in Nat \ {0} /\ KERNBASE \in Nat
    BY VmAssumption
  <2>3. Npages(l.sz) \in Nat /\ low = Npages(l.sz) * PGSIZE
    BY <2>1, NpagesIs
  <2>4. WithStack(l) = w
    BY <1>2 DEF WithStack, Stack
  <2> HIDE DEF low
  <2>5. low \in Nat
    BY <2>2, <2>3
  <2>6. Npages(low) = Npages(l.sz)
    BY <2>3, NpagesExact
  <2>7. Mapped(l.t.s, low)
    BY <2>1, <2>6 DEF Mapped
  <2>8. top \in Nat /\ low <= top /\ AllocSize(low, top) = top
    BY <2>2, <2>5 DEF AllocSize
  <2> HIDE DEF top
  <2>9. /\ Good(u, K) /\ u.s.pgdir = l.t.s.pgdir
        /\ u.ok => Mapped(u.s, top) /\ top < KERNBASE
    BY <1>2, <2>1, <2>5, <2>7, <2>8, AllocLemma
  <2> HIDE DEF u
  <2>10. m \in LoadType /\ m.t = u /\ m.sz = top
    BY <2>8, <2>9 DEF LoadType, Good
  <2> HIDE DEF m
  <2>11. LoadGood(m, K, d)
    BY <2>1, <2>9, <2>10 DEF LoadGood
  <2>12. LoadGood(w, K, d)
    BY <2>11, GuardLemma
  <2> QED
    BY <2>4, <2>12
<1> QED
  BY <1>1, <1>2

\* The arguments change nothing but whether exec() goes on.
LEMMA ArgumentsLemma ==
  ASSUME NEW l, NEW K \in SUBSET Frames, NEW d, LoadGood(l, K, d), NEW n
  PROVE  LoadGood(Arguments(l, n), K, d)
<1>1. Arguments(l, n) \in {l, [l EXCEPT !.t = Fail(@)]}
  BY DEF Arguments
<1> QED
  BY <1>1, LoadFails

\* exec() up to "Commit to the user image"
LEMMA BuildLemma ==
  ASSUME NEW t, NEW K \in SUBSET Frames, Good(t, K), t.ok, t.s = NoSpace,
         NEW prog \in Seq(Header), NEW n
  PROVE  LET l == Arguments(Image(setupkvm(t), prog), n) IN
         /\ l.sz \in Nat /\ Good(l.t, K)
         /\ l.t.ok => l.t.s.pgdir # 0 /\ l.sz < KERNBASE /\ Mapped(l.t.s, l.sz)
         /\ l.t.s.pgdir = 0 => l.t.s = NoSpace
<1> DEFINE v == setupkvm(t)
<1>1. /\ Good(v, K) /\ v.s.page = NoSpace.page
      /\ IF v.ok THEN v.s.pgdir # 0 ELSE v.s = NoSpace
  BY SetupkvmLemma
<1> HIDE DEF v
<1>2. CASE ~v.ok
  <2>1. Arguments(Image(v, prog), n) = [t |-> v, sz |-> 0]
    BY <1>2 DEF Image, Arguments
  <2> QED
    BY <1>1, <1>2, <2>1 DEF v
<1>3. CASE v.ok
  <2>1. Image(v, prog) = WithStack(Load(v, prog))
    BY <1>3 DEF Image
  <2>2. LoadGood(Load(v, prog), K, v.s.pgdir)
    BY <1>1, LoadLemma
  <2>3. LoadGood(Arguments(Image(v, prog), n), K, v.s.pgdir)
    BY <2>1, <2>2, StackLemma, ArgumentsLemma
  <2> QED
    BY <1>1, <1>3, <2>3 DEF LoadGood, LoadType, v
<1> QED
  BY <1>2, <1>3

-----------------------------------------------------------------------------
(* The memory of all processes                                             *)

\* Process p has page f of memory.
Own(sp, ks, p, f) == In(sp[p], f) \/ ks[p] = f

\* Each page of memory is free or has one use in one process.
MemOK(fr, sp, ks) ==
    /\ fr \in SUBSET Frames /\ sp \in [Procs -> Spaces] /\ ks \in [Procs -> FrameOr0]
    /\ \A p \in Procs : Once(sp[p]) /\ (ks[p] # 0 => ~In(sp[p], ks[p]))
    /\ \A p, q \in Procs, f \in Frames : Own(sp, ks, p, f) /\ Own(sp, ks, q, f) => p = q
    /\ \A f \in Frames : f \in fr <=> \A p \in Procs : ~Own(sp, ks, p, f)

\* What the other processes have.
Others(fr, sp, ks, p) == {f \in Frames : f \notin fr /\ ~Own(sp, ks, p, f)}

\* What p has when its space is s, its kernel stack is k and F is free.
Fits(fr, sp, ks, p, s, k, F) ==
    /\ s \in Spaces /\ Once(s) /\ k \in FrameOr0 /\ F \in SUBSET Frames
    /\ k # 0 => k \notin Others(fr, sp, ks, p) /\ ~In(s, k)
    /\ \A f \in Frames :
          /\ f \in F <=> f \notin Others(fr, sp, ks, p) /\ ~In(s, f) /\ f # k
          /\ f \in Others(fr, sp, ks, p) => ~In(s, f)

\* A call that changes what p has.
LEMMA Commit ==
  ASSUME NEW fr, NEW sp, NEW ks, MemOK(fr, sp, ks), NEW p \in Procs,
         NEW s, NEW k, NEW F, Fits(fr, sp, ks, p, s, k, F)
  PROVE  MemOK(F, [sp EXCEPT ![p] = s], [ks EXCEPT ![p] = k])
<1> DEFINE sp2 == [sp EXCEPT ![p] = s]
           ks2 == [ks EXCEPT ![p] = k]
           R == Others(fr, sp, ks, p)
<1>1. /\ fr \in SUBSET Frames /\ sp \in [Procs -> Spaces] /\ ks \in [Procs -> FrameOr0]
      /\ \A q \in Procs : Once(sp[q]) /\ (ks[q] # 0 => ~In(sp[q], ks[q]))
      /\ \A q, r \in Procs, f \in Frames : Own(sp, ks, q, f) /\ Own(sp, ks, r, f) => q = r
      /\ \A f \in Frames : f \in fr <=> \A q \in Procs : ~Own(sp, ks, q, f)
  BY DEF MemOK
<1>2. \A q \in Procs : /\ q # p => sp2[q] = sp[q] /\ ks2[q] = ks[q]
                       /\ q = p => sp2[q] = s /\ ks2[q] = k
  BY <1>1
<1>3. sp2 \in [Procs -> Spaces] /\ ks2 \in [Procs -> FrameOr0]
  BY <1>1 DEF Fits
<1> HIDE DEF sp2, ks2
<1>4. \A f \in Frames : f \in R <=> \E q \in Procs : q # p /\ Own(sp, ks, q, f)
  BY <1>1 DEF Others
<1> HIDE DEF R
<1>5. /\ \A f \in Frames : f \in F <=> f \notin R /\ ~In(s, f) /\ f # k
      /\ \A f \in Frames : f \in R => ~In(s, f)
      /\ k # 0 => k \notin R /\ ~In(s, k)
      /\ Once(s) /\ F \in SUBSET Frames
  BY DEF Fits, R
<1>6. 0 \notin Frames
  BY VmAssumption
<1>7. \A f \in Frames : Own(sp2, ks2, p, f) <=> In(s, f) \/ f = k
  BY <1>2 DEF Own
<1>8. \A f \in Frames, q \in Procs : q # p => (Own(sp2, ks2, q, f) <=> Own(sp, ks, q, f))
  BY <1>2 DEF Own
<1>9. \A q \in Procs : Once(sp2[q]) /\ (ks2[q] # 0 => ~In(sp2[q], ks2[q]))
  BY <1>1, <1>2, <1>5
<1>10. \A f \in Frames : f \in R => ~Own(sp2, ks2, p, f)
  BY <1>5, <1>6, <1>7
<1>11. \A q, r \in Procs, f \in Frames : Own(sp2, ks2, q, f) /\ Own(sp2, ks2, r, f) => q = r
  BY <1>1, <1>4, <1>8, <1>10
<1>12. \A f \in Frames : f \in F <=> \A q \in Procs : ~Own(sp2, ks2, q, f)
  BY <1>4, <1>5, <1>7, <1>8
<1> QED
  BY <1>3, <1>5, <1>9, <1>11, <1>12 DEF MemOK, sp2, ks2

\* The call that works on the space of p, and what it has nothing to do with.
Kept(fr, sp, p) == {f \in Frames : f \notin fr /\ ~In(sp[p], f)}

\* What a call for process p must leave alone.
LEMMA KeptIs ==
  ASSUME NEW fr, NEW sp, NEW ks, MemOK(fr, sp, ks), NEW p \in Procs
  PROVE  /\ Kept(fr, sp, p) \in SUBSET Frames
         /\ \A f \in Frames : f \in Others(fr, sp, ks, p) <=> f \in Kept(fr, sp, p) /\ f # ks[p]
         /\ ks[p] # 0 => ks[p] \in Kept(fr, sp, p) /\ ks[p] \in Frames
         /\ ks[p] \notin Others(fr, sp, ks, p)
         /\ \A f \in Frames : f \in fr => ~Own(sp, ks, p, f)
<1>1. ks[p] \in FrameOr0
  BY DEF MemOK
<1>2. \A f \in Frames : f \in Others(fr, sp, ks, p) <=> f \in Kept(fr, sp, p) /\ f # ks[p]
  BY DEF Others, Kept, Own
<1>3. ks[p] # 0 => ks[p] \in Frames
  BY <1>1 DEF FrameOr0
<1>4. ks[p] # 0 => ~In(sp[p], ks[p]) /\ ks[p] \notin fr
  <2>1. ks[p] # 0 => Own(sp, ks, p, ks[p])
    BY DEF Own
  <2> QED
    BY <1>3, <2>1 DEF MemOK
<1>5. \A f \in Frames : f \in fr => ~Own(sp, ks, p, f)
  BY DEF MemOK
<1> QED
  BY <1>2, <1>3, <1>4, <1>5 DEF Kept, Others, Own

\* A call that starts in the address space of its process is good,
LEMMA CallGood ==
  ASSUME MemOK(free, space, kstack), NEW p \in Procs, NEW k \in Int
  PROVE  /\ Good(Call(k, space[p]), Kept(free, space, p)) /\ Call(k, space[p]).ok
         /\ Call(k, space[p]).s = space[p] /\ Call(k, space[p]).free = free
<1> DEFINE t == Call(k, space[p])
<1>1. /\ free \in SUBSET Frames /\ space[p] \in Spaces /\ Once(space[p])
  BY DEF MemOK
<1>2. /\ t \in CallType /\ t.free = free /\ t.s = space[p] /\ t.ok /\ ~t.panic
  BY <1>1 DEF Call, CallType, FrameOr0
<1> HIDE DEF t
<1>3. \A f \in Frames : f \in free => ~In(space[p], f)
  BY KeptIs DEF Own
<1>4. Parts(t, Kept(free, space, p))
  BY <1>2, <1>3 DEF Parts, Kept
<1> QED
  BY <1>1, <1>2, <1>4 DEF Good, t

\* and so is one that starts with no address space.
LEMMA NewCallGood ==
  ASSUME MemOK(free, space, kstack), NEW k \in Int
  PROVE  /\ Good(Call(k, NoSpace), Frames \ free) /\ Call(k, NoSpace).ok
         /\ Call(k, NoSpace).s = NoSpace /\ Call(k, NoSpace).free = free
<1> DEFINE t == Call(k, NoSpace)
<1>1. free \in SUBSET Frames
  BY DEF MemOK
<1>2. /\ t \in CallType /\ t.free = free /\ t.s = NoSpace /\ t.ok /\ ~t.panic
  BY <1>1, NoSpaceType DEF Call, CallType, FrameOr0
<1> HIDE DEF t
<1>3. Parts(t, Frames \ free)
  BY <1>1, <1>2, NoSpaceType DEF Parts
<1> QED
  BY <1>2, <1>3, NoSpaceType DEF Good, t

\* A call on the space of p that ends well.
LEMMA GoodFits ==
  ASSUME NEW fr, NEW sp, NEW ks, MemOK(fr, sp, ks), NEW p \in Procs,
         NEW t, Good(t, Kept(fr, sp, p))
  PROVE  Fits(fr, sp, ks, p, t.s, ks[p], t.free)
<1> DEFINE K == Kept(fr, sp, p)
           R == Others(fr, sp, ks, p)
<1>1. /\ \A f \in Frames : f \in R <=> f \in K /\ f # ks[p]
      /\ ks[p] # 0 => ks[p] \in K /\ ks[p] \in Frames
      /\ ks[p] \notin R
  BY KeptIs
<1>2. t \in CallType /\ Once(t.s) /\ Parts(t, K)
  BY DEF Good
<1> HIDE DEF K, R
<1>3. t.s \in Spaces /\ t.free \in SUBSET Frames /\ ks[p] \in FrameOr0
  BY <1>2 DEF CallType, MemOK
<1>4. \A f \in Frames : f \in t.free <=> f \notin R /\ ~In(t.s, f) /\ f # ks[p]
  BY <1>1, <1>2, VmAssumption DEF Parts
<1>5. \A f \in Frames : f \in R => ~In(t.s, f)
  BY <1>1, <1>2 DEF Parts
<1>6. ks[p] # 0 => ks[p] \notin R /\ ~In(t.s, ks[p])
  BY <1>1, <1>2 DEF Parts
<1> QED
  BY <1>2, <1>3, <1>4, <1>5, <1>6 DEF Fits, R

-----------------------------------------------------------------------------
(* The inductive invariant                                                 *)

\* A process has a space and a kernel stack from fork() to wait().
Living ==
    \A p \in Procs :
        /\ state[p] = "unused" => space[p] = NoSpace /\ kstack[p] = 0
        /\ state[p] # "unused" => space[p].pgdir # 0 /\ kstack[p] # 0

\* The pages below its size are mapped as long as it can run.
Sized == \A p \in Procs : sz[p] < KERNBASE /\ (Runs(p) => Mapped(space[p], sz[p]))

VmInv ==
    /\ MemOK(free, space, kstack)
    /\ sz \in [Procs -> Nat] /\ state \in [Procs -> {"unused", "alive", "zombie"}]
    /\ Living /\ Sized /\ NoPanic

\* What FailureUndone says of a step.
Undoes ==
    ~last'.ok /\ ~last'.stray =>
         /\ sz' = sz /\ state' = state /\ kstack' = kstack
         /\ last'.call \in {"exec", "fork"} => UNCHANGED <<free, space>>
         /\ last'.call = "sbrk" =>
              /\ \A q \in Procs \ {last'.p} : space'[q] = space[q]
              /\ ~last'.whole => space'[last'.p].page = space[last'.p].page

\* What the end of a call records.
LEMMA EndsIs ==
  ASSUME NEW p, NEW call, NEW t, Ends(p, call, t)
  PROVE  last'.ok = t.ok /\ last'.panic = t.panic /\ last'.call = call
BY DEF Ends, Result

\* What the other spaces hold.
LEMMA UnfreeIs ==
  ASSUME MemOK(free, space, kstack)
  PROVE  Frames \ free \in SUBSET Frames /\ Frames \ (Frames \ free) = free
BY DEF MemOK

\* A failed call without a space has given back all it had.
LEMMA NoSpaceFree ==
  ASSUME NEW t, NEW K \in SUBSET Frames, Good(t, K), t.s = NoSpace
  PROVE  t.free = Frames \ K
BY NoSpaceType DEF Good, Parts, CallType

\* exec() keeps the invariant, and undoes what it did if it fails.
LEMMA ExecStep ==
  ASSUME VmInv, NEW p \in Procs, NEW prog \in Programs, NEW n, NEW k \in Int, exec(p, prog, n, k)
  PROVE  VmInv' /\ Undoes
<1> DEFINE K == Frames \ free
           m == Image(setupkvm(Call(k, NoSpace)), prog)
           l == Arguments(m, n)
<1>1. Runs(p) /\ state' = state /\ kstack' = kstack /\ MemOK(free, space, kstack)
  BY DEF exec, VmInv
<1>2. prog \in Seq(Header)
  BY VmAssumption
<1>3. K \in SUBSET Frames /\ Frames \ K = free
  BY <1>1, UnfreeIs
<1>4. /\ Good(Call(k, NoSpace), K) /\ Call(k, NoSpace).ok
      /\ Call(k, NoSpace).s = NoSpace /\ Call(k, NoSpace).free = free
  BY <1>1, NewCallGood
<1>5. /\ l.sz \in Nat /\ Good(l.t, K)
      /\ l.t.ok => l.t.s.pgdir # 0 /\ l.sz < KERNBASE /\ Mapped(l.t.s, l.sz)
      /\ l.t.s.pgdir = 0 => l.t.s = NoSpace
  BY <1>2, <1>3, <1>4, BuildLemma
<1>6. \/ /\ l.t.ok
         /\ \E old \in {freevm([l.t EXCEPT !.s = space[p]])} :
               free' = old.free /\ Ends(p, "exec", old)
         /\ space' = [space EXCEPT ![p] = l.t.s]
         /\ sz' = [sz EXCEPT ![p] = l.sz]
      \/ /\ ~l.t.ok
         /\ free' = IF l.t.s.pgdir # 0 THEN freevm(l.t).free ELSE l.t.free
         /\ \E stray \in Strays(m, n) : last' = [Result(p, "exec", l.t) EXCEPT !.stray = stray]
         /\ UNCHANGED <<space, sz>>
  BY DEF exec
<1> HIDE DEF K, l
<1>7. l.t \in CallType /\ ~l.t.panic
  BY <1>5 DEF Good
<1>8. CASE ~l.t.ok
  <2>1. free' = free
    <3>1. CASE l.t.s.pgdir # 0
      BY <1>3, <1>5, <1>6, <1>8, <3>1, FreevmLemma
    <3>2. CASE l.t.s.pgdir = 0
      BY <1>3, <1>5, <1>6, <1>8, <3>2, NoSpaceFree
    <3> QED
      BY <3>1, <3>2
  <2>2. space' = space /\ sz' = sz
    BY <1>6, <1>8
  <2>3. last'.panic = l.t.panic /\ last'.call = "exec"
    BY <1>6, <1>8 DEF Result
  <2>4. VmInv'
    BY <1>1, <1>7, <2>1, <2>2, <2>3 DEF VmInv, Living, Sized, NoPanic, Runs
  <2> QED
    BY <1>1, <2>1, <2>2, <2>3, <2>4 DEF Undoes
<1>9. CASE l.t.ok
  <2> DEFINE s == space[p]
             x == [l.t EXCEPT !.s = s]
             R == Kept(free, space, p)
             L == {f \in Frames : f \notin l.t.free /\ ~In(s, f)}
             old == freevm(x)
  <2>1. s \in Spaces /\ Once(s)
    BY <1>1 DEF MemOK
  <2>2. \A f \in Frames : f \in free => ~In(s, f)
    BY <1>1, KeptIs DEF Own
  <2>3. \A f \in Frames : /\ f \in l.t.free <=> f \in free /\ ~In(l.t.s, f)
                          /\ f \notin free => ~In(l.t.s, f)
    BY <1>5 DEF Good, Parts, K
  <2>4. x \in CallType /\ x.s = s /\ x.free = l.t.free /\ x.ok = l.t.ok /\ ~x.panic
    BY <1>7, <2>1 DEF CallType
  <2>5. Good(x, L) /\ L \in SUBSET Frames
    <3> HIDE DEF x, s
    <3>1. Parts(x, L)
      BY <2>2, <2>3, <2>4 DEF Parts
    <3> QED
      BY <2>1, <2>4, <3>1 DEF Good
  <2>6. s.pgdir # 0
    BY <1>1 DEF VmInv, Living, Runs
  <2>7. Good(old, L) /\ old.ok = x.ok /\ old.free = Frames \ L
    <3> HIDE DEF x, L, s
    <3> QED
      BY <2>4, <2>5, <2>6, FreevmLemma
  <2>8. /\ free' = old.free /\ Ends(p, "exec", old)
        /\ space' = [space EXCEPT ![p] = l.t.s] /\ sz' = [sz EXCEPT ![p] = l.sz]
    BY <1>6, <1>9
  <2> HIDE DEF old, x
  <2>9. last'.ok /\ ~last'.panic
    <3> HIDE DEF L, s
    <3>1. last'.ok = old.ok /\ last'.panic = old.panic
      BY <2>8, EndsIs
    <3>2. ~old.panic
      BY <2>7 DEF Good
    <3>3. old.ok
      BY <1>9, <2>4, <2>7
    <3> QED
      BY <3>1, <3>2, <3>3
  <2> DEFINE F == Frames \ L
             y == [l.t EXCEPT !.free = F]
  <2>10. y \in CallType /\ y.s = l.t.s /\ y.free = F /\ ~y.panic
    BY <1>7 DEF CallType
  <2>11. \A f \in Frames : /\ f \in F <=> f \notin R /\ ~In(l.t.s, f)
                           /\ f \in R => ~In(l.t.s, f)
    BY <2>2, <2>3 DEF Kept
  <2>12. Good(y, R)
    <3> HIDE DEF y, F, R
    <3> QED
      BY <1>5, <2>10, <2>11 DEF Good, Parts
  <2>13. Fits(free, space, kstack, p, y.s, kstack[p], y.free)
    BY <1>1, <2>12, GoodFits
  <2>14. MemOK(F, [space EXCEPT ![p] = l.t.s], [kstack EXCEPT ![p] = kstack[p]])
    <3> HIDE DEF F
    <3> QED
      BY <1>1, <2>10, <2>13, Commit
  <2>15. [kstack EXCEPT ![p] = kstack[p]] = kstack
    BY <1>1 DEF MemOK
  <2>16. MemOK(free', space', kstack')
    BY <1>1, <2>7, <2>8, <2>14, <2>15
  <2> HIDE DEF s, L, F, y, R
  <2>17. \A q \in Procs : /\ q # p => space'[q] = space[q] /\ sz'[q] = sz[q]
                          /\ q = p => space'[q] = l.t.s /\ sz'[q] = l.sz
    BY <1>1, <2>8 DEF MemOK, VmInv
  <2>18. Living' /\ Sized'
    BY <1>1, <1>5, <1>9, <2>17 DEF VmInv, Living, Sized, Runs
  <2>19. sz' \in [Procs -> Nat]
    BY <1>5, <2>8 DEF VmInv
  <2> QED
    BY <1>1, <2>9, <2>16, <2>18, <2>19 DEF VmInv, NoPanic, Undoes
<1> QED
  BY <1>8, <1>9

\* The size that sbrk() asks for, as the 32 bits of the machine compute it.
LEMMA NewSize ==
  ASSUME NEW z \in Nat, z < KERNBASE, NEW n \in Ints
  PROVE  LET m == (z + n) % Wrap IN
         /\ m \in Nat
         /\ n > 0 => m > z
         /\ n < 0 => (m >= z /\ z + n < 0) \/ (m = z + n /\ m < z)
<1>1. KERNBASE \in Nat /\ KERNBASE > 0 /\ Wrap = 2 * KERNBASE
  BY VmAssumption DEF Wrap
<1>2. n \in Int /\ -KERNBASE <= n /\ n <= KERNBASE - 1
  BY <1>1 DEF Ints
<1>3. CASE z + n >= 0
  <2>1. z + n \in 0..(Wrap - 1)
    BY <1>1, <1>2, <1>3
  <2>2. (z + n) % Wrap = z + n
    BY <1>1, <2>1
  <2> QED
    BY <1>2, <1>3, <2>2
<1>4. CASE z + n < 0
  <2>1. z + n + Wrap \in 0..(Wrap - 1) /\ z + n + Wrap >= z
    BY <1>1, <1>2, <1>4
  <2>2. (z + n) % Wrap = z + n + Wrap
    <3>1. z + n \in Int /\ -1 \in Int /\ z + n = (-1) * Wrap + (z + n + Wrap)
          /\ Wrap \in Nat \ {0}
      BY <1>1, <1>2
    <3> QED
      BY <2>1, <3>1, ModUnique
  <2> QED
    BY <1>2, <1>4, <2>1, <2>2
<1> QED
  BY <1>2, <1>3, <1>4

\* The least of two numbers.
LEMMA MinOfTwo ==
  ASSUME NEW a \in Nat, NEW b \in Nat
  PROVE  Min({a, b}) = IF a <= b THEN a ELSE b
BY DEF Min

\* sbrk(): all pages as asked for, or as before, or none left.
LEMMA GrownLemma ==
  ASSUME VmInv, NEW p \in Procs, Runs(p), NEW n \in Ints, NEW k \in Int
  PROVE  LET l == Grown(p, (sz[p] + n) % Wrap, n, k) IN
         /\ Good(l.t, Kept(free, space, p)) /\ l.t.s.pgdir # 0
         /\ l.t.ok /\ l.sz # 0 => l.sz \in Nat /\ l.sz < KERNBASE /\ Mapped(l.t.s, l.sz)
         /\ l.t.ok /\ l.sz = 0 => l.t.s.page = NoSpace.page /\ n = -sz[p]
         /\ ~l.t.ok => l.t.s.page = space[p].page
<1> DEFINE m == (sz[p] + n) % Wrap
           K == Kept(free, space, p)
           z == sz[p]
           l == Grown(p, m, n, k)
<1>1. /\ MemOK(free, space, kstack) /\ z \in Nat /\ z < KERNBASE /\ Mapped(space[p], z)
      /\ space[p].pgdir # 0 /\ space[p] \in Spaces
  BY DEF VmInv, Sized, Living, Runs, MemOK
<1>2. K \in SUBSET Frames
  BY DEF Kept
<1>3. /\ m \in Nat
      /\ n > 0 => m > z
      /\ n < 0 => (m >= z /\ z + n < 0) \/ (m = z + n /\ m < z)
  BY <1>1, NewSize
<1>4. z # 0
  <2>1. space[p].page[0] # 0 /\ 0 \in UPages
    BY <1>1 DEF VmInv, MemOK, Once, Runs, Spaces
  <2>2. 0 < Npages(z)
    BY <1>1, <2>1 DEF Mapped
  <2>3. Npages(0) = 0
    BY NpagesExact
  <2> QED
    BY <2>2, <2>3
<1>5. n \in Int /\ KERNBASE \in Nat
  BY VmAssumption DEF Ints
<1> HIDE DEF m, K
<1>6. CASE n > 0
  <2> DEFINE t == Call(k, space[p])
             u == allocuvm(t, z, m)
             y == AllocSize(z, m)
  <2>1. l.t = u /\ l.sz = y
    BY <1>6 DEF Grown
  <2>2. Good(t, K) /\ t.ok /\ t.s = space[p]
    BY <1>1, CallGood DEF K
  <2>3. y = m /\ y # 0
    BY <1>1, <1>3, <1>5, <1>6 DEF AllocSize
  <2> HIDE DEF t, y, l
  <2>4. /\ Good(u, K) /\ u.s.pgdir = t.s.pgdir
        /\ u.ok => Mapped(u.s, y) /\ y \in Nat /\ y < KERNBASE
        /\ ~u.ok => u.s.page = t.s.page
    BY <1>1, <1>2, <1>3, <2>2, AllocLemma DEF y
  <2> HIDE DEF u
  <2> QED
    BY <1>1, <2>1, <2>2, <2>3, <2>4 DEF K, l, m
<1>7. CASE n < 0
  <2> DEFINE t == Call(0, space[p])
             u == deallocuvm(t, z, m)
             y == Min({z, m})
  <2>1. l.t = u /\ l.sz = y
    BY <1>5, <1>7 DEF Grown
  <2>2. Good(t, K) /\ t.ok /\ t.s = space[p]
    BY <1>1, CallGood DEF K
  <2>3. y = IF z <= m THEN z ELSE m
    BY <1>1, <1>3, MinOfTwo
  <2> HIDE DEF t, y, l
  <2>4. Good(u, K) /\ u.ok /\ u.s.page = Cut(t.s, Npages(m), Npages(z)) /\ u.s.pgdir = t.s.pgdir
    <3>1. z <= KERNBASE
      BY <1>1, <1>5
    <3>2. m \in Nat /\ z \in Nat
      BY <1>1, <1>3
    <3> HIDE DEF z
    <3> QED
      BY <1>2, <2>2, <3>1, <3>2, DeallocLemma
  <2> HIDE DEF u
  <2>5. UPages \subseteq Nat /\ Npages(m) \in Nat /\ Npages(z) \in Nat
    <3>1. UPages \subseteq Nat
      BY Sizes
    <3>2. Npages(m) \in Nat /\ Npages(z) \in Nat
      BY <1>1, <1>3, NpagesIs
    <3> QED
      BY <3>1, <3>2
  <2>6. \A a \in UPages : space[p].page[a] # 0 <=> a < Npages(z)
    BY <1>1 DEF Mapped
  <2>7. \A a \in UPages : u.s.page[a] = IF Npages(m) <= a /\ a < Npages(z) THEN 0 ELSE space[p].page[a]
    BY <2>2, <2>4 DEF Cut
  <2>8. CASE z <= m
    <3>1. Npages(z) <= Npages(m)
      BY <1>1, <1>3, <2>8, NpagesMonotone
    <3>2. \A a \in UPages : u.s.page[a] = space[p].page[a]
      BY <2>5, <2>7, <3>1
    <3>3. Mapped(u.s, z)
      BY <2>6, <3>2 DEF Mapped
    <3> QED
      BY <1>1, <1>4, <2>1, <2>2, <2>3, <2>4, <2>8, <3>3 DEF K, l, m
  <2>9. CASE ~(z <= m)
    <3>1. Npages(m) <= Npages(z)
      BY <1>1, <1>3, <2>9, NpagesMonotone
    <3>2. \A a \in UPages : u.s.page[a] # 0 <=> a < Npages(m)
      BY <2>5, <2>6, <2>7, <3>1
    <3>3. Mapped(u.s, m)
      BY <3>2 DEF Mapped
    <3>4. m = 0 => u.s.page = NoSpace.page
      <4>1. SUFFICES ASSUME m = 0 PROVE u.s.page = [a \in UPages |-> 0]
        BY NoSpaceType
      <4>2. Npages(m) = 0
        BY <4>1, NpagesExact
      <4>3. \A a \in UPages : u.s.page[a] = 0
        BY <2>5, <3>2, <4>2
      <4>4. u.s.page = [a \in UPages |-> u.s.page[a]]
        BY <2>4 DEF Cut
      <4> QED
        BY <4>3, <4>4
    <3>5. y = m /\ m < KERNBASE
      BY <1>1, <1>3, <1>5, <2>3, <2>9
    <3>6. m = 0 => n = -sz[p]
      <4>1. m = sz[p] + n
        BY <1>1, <1>3, <1>5, <1>7, <2>9
      <4> QED
        BY <1>1, <1>5, <4>1
    <3> QED
      BY <1>1, <1>3, <2>1, <2>2, <2>4, <3>3, <3>4, <3>5, <3>6 DEF K, l, m
  <2> QED
    BY <2>8, <2>9
<1>8. CASE n = 0
  <2> DEFINE t == Call(0, space[p])
  <2>1. l.t = t /\ l.sz = z
    BY <1>8 DEF Grown
  <2>2. Good(t, K) /\ t.ok /\ t.s = space[p]
    BY <1>1, CallGood DEF K
  <2> HIDE DEF t, l
  <2>3. Good(l.t, K) /\ l.t.s.pgdir # 0 /\ l.t.ok /\ l.sz # 0
    BY <1>1, <1>4, <2>1, <2>2
  <2>4. l.sz \in Nat /\ l.sz < KERNBASE /\ Mapped(l.t.s, l.sz)
    BY <1>1, <2>1, <2>2
  <2> QED
    BY <2>3, <2>4 DEF K, l, m
<1>9. n > 0 \/ n < 0 \/ n = 0
  BY <1>5
<1> QED
  BY <1>6, <1>7, <1>8, <1>9, Zenon

\* growproc() keeps the invariant, and undoes what it did if it fails.
LEMMA GrowStep ==
  ASSUME VmInv, NEW p \in Procs, NEW n \in Ints, NEW k \in Int, growproc(p, n, k)
  PROVE  VmInv' /\ Undoes
<1> DEFINE l == Grown(p, (sz[p] + n) % Wrap, n, k)
           z == IF l.t.ok /\ l.sz # 0 THEN l.sz ELSE sz[p]
           e == IF l.sz = 0 THEN Fail(l.t) ELSE l.t
<1>1. Runs(p) /\ state' = state /\ kstack' = kstack /\ MemOK(free, space, kstack)
      /\ sz \in [Procs -> Nat]
  BY DEF growproc, VmInv
<1>2. /\ free' = l.t.free /\ space' = [space EXCEPT ![p] = l.t.s]
      /\ sz' = [sz EXCEPT ![p] = z]
      /\ last' = [Result(p, "sbrk", e) EXCEPT !.whole = (n = -sz[p])]
  BY <1>1 DEF growproc
<1>3. /\ Good(l.t, Kept(free, space, p)) /\ l.t.s.pgdir # 0
      /\ l.t.ok /\ l.sz # 0 => l.sz \in Nat /\ l.sz < KERNBASE /\ Mapped(l.t.s, l.sz)
      /\ l.t.ok /\ l.sz = 0 => l.t.s.page = NoSpace.page /\ n = -sz[p]
      /\ ~l.t.ok => l.t.s.page = space[p].page
  BY <1>1, GrownLemma
<1> HIDE DEF l
<1>4. l.t \in CallType /\ ~l.t.panic /\ Once(l.t.s) /\ l.t.s \in Spaces
  BY <1>3 DEF Good, CallType
<1>5. ~e.panic /\ (e.ok <=> l.t.ok /\ l.sz # 0)
  BY <1>4, FailType
<1> HIDE DEF e
<1>6. /\ last'.ok = e.ok /\ last'.panic = e.panic /\ last'.call = "sbrk"
      /\ last'.p = p /\ last'.whole = (n = -sz[p])
  BY <1>2 DEF Result
<1>7. MemOK(free', space', kstack')
  <2>1. Fits(free, space, kstack, p, l.t.s, kstack[p], l.t.free)
    BY <1>1, <1>3, GoodFits
  <2>2. MemOK(l.t.free, [space EXCEPT ![p] = l.t.s], [kstack EXCEPT ![p] = kstack[p]])
    BY <1>1, <2>1, Commit
  <2>3. [kstack EXCEPT ![p] = kstack[p]] = kstack
    BY <1>1 DEF MemOK
  <2> QED
    BY <1>1, <1>2, <2>2, <2>3
<1>8. z \in Nat /\ z < KERNBASE
  BY <1>1, <1>3 DEF VmInv, Sized
<1>9. state[p] = "alive" /\ 0 \in l.t.s.user => Mapped(l.t.s, z)
  <2>1. SUFFICES ASSUME 0 \in l.t.s.user PROVE Mapped(l.t.s, z)
    OBVIOUS
  <2>2. l.t.s.page[0] # 0 /\ 0 \in UPages
    BY <1>4, <2>1 DEF Once, Spaces
  <2>3. CASE l.t.ok /\ l.sz # 0
    BY <1>3, <2>3
  <2>4. CASE l.t.ok /\ l.sz = 0
    BY <1>3, <2>2, <2>4, NoSpaceType
  <2>5. CASE ~l.t.ok
    BY <1>1, <1>3, <2>5 DEF VmInv, Sized, Mapped
  <2> QED
    BY <2>3, <2>4, <2>5
<1>10. (~e.ok => z = sz[p]) /\ (~e.ok => n = -sz[p] \/ l.t.s.page = space[p].page)
  BY <1>3, <1>5
<1> HIDE DEF z
<1>11. \A q \in Procs : /\ q # p => space'[q] = space[q] /\ sz'[q] = sz[q]
                        /\ q = p => space'[q] = l.t.s /\ sz'[q] = z
  BY <1>1, <1>2 DEF MemOK
<1>12. Living'
  BY <1>1, <1>3, <1>11 DEF VmInv, Living, Runs
<1>13. Sized'
  BY <1>1, <1>8, <1>9, <1>11 DEF VmInv, Sized, Runs
<1>14. sz' \in [Procs -> Nat] /\ (z = sz[p] => sz' = sz)
  BY <1>1, <1>2, <1>8
<1>15. VmInv'
  BY <1>1, <1>5, <1>6, <1>7, <1>12, <1>13, <1>14 DEF VmInv, NoPanic
<1>16. Undoes
  BY <1>1, <1>6, <1>10, <1>11, <1>14 DEF Undoes
<1> QED
  BY <1>15, <1>16

\* fork() keeps the invariant, and undoes what it did if it fails.
LEMMA ForkStep ==
  ASSUME VmInv, NEW p \in Procs, NEW c \in Procs, NEW k \in Int, fork(p, c, k)
  PROVE  VmInv' /\ Undoes
<1> DEFINE K == Frames \ free
           stack == kalloc(Call(k, NoSpace))
           g == stack.got
           t == IF stack.ok THEN copyuvm(stack, space[p], sz[p]) ELSE stack
<1>1. /\ Runs(p) /\ state[c] = "unused" /\ MemOK(free, space, kstack)
      /\ sz[p] \in Nat /\ sz[p] < KERNBASE /\ Mapped(space[p], sz[p])
      /\ space[c] = NoSpace /\ kstack[c] = 0
  BY DEF fork, VmInv, Sized, Living
<1>2. K \in SUBSET Frames /\ Frames \ K = free
  BY <1>1, UnfreeIs
<1>3. /\ Good(Call(k, NoSpace), K) /\ Call(k, NoSpace).ok /\ Call(k, NoSpace).s = NoSpace
  BY <1>1, NewCallGood
<1>4. /\ stack.s = NoSpace
      /\ ~stack.ok => Good(stack, K)
      /\ stack.ok => g \in Frames \ K /\ Good(stack, K \cup {g})
  BY <1>2, <1>3, KallocLemma
<1>5. \/ /\ t.ok
         /\ free' = t.free
         /\ kstack' = [kstack EXCEPT ![c] = g]
         /\ space' = [space EXCEPT ![c] = t.s]
         /\ sz' = [sz EXCEPT ![c] = sz[p]]
         /\ state' = [state EXCEPT ![c] = "alive"]
         /\ Ends(p, "fork", t)
      \/ /\ ~t.ok
         /\ free' = IF stack.ok THEN kfree(t, {g}).free ELSE free
         /\ Ends(p, "fork", t)
         /\ UNCHANGED <<kstack, space, sz, state>>
  BY DEF fork
<1> HIDE DEF K, stack
<1>6. stack.ok => /\ Good(t, K \cup {g})
                  /\ t.ok => t.s.pgdir # 0 /\ Mapped(t.s, sz[p])
                  /\ ~t.ok => t.s = NoSpace
  <2>1. SUFFICES ASSUME stack.ok
                 PROVE  /\ Good(t, K \cup {g})
                        /\ t.ok => t.s.pgdir # 0 /\ Mapped(t.s, sz[p])
                        /\ ~t.ok => t.s = NoSpace
    OBVIOUS
  <2>2. t = copyuvm(stack, space[p], sz[p]) /\ K \cup {g} \in SUBSET Frames
    BY <1>2, <1>4, <2>1
  <2> QED
    BY <1>1, <1>4, <2>1, <2>2, CopyuvmLemma
<1>7. ~stack.ok => t = stack /\ ~t.ok
  OBVIOUS
<1>8. ~t.panic
  BY <1>4, <1>6, <1>7 DEF Good
<1> HIDE DEF t
<1>9. CASE ~t.ok
  <2>1. free' = free
    <3>1. CASE stack.ok
      <4> DEFINE u == kfree(t, {g})
      <4>1. K \cup {g} \in SUBSET Frames /\ g \in K \cup {g} /\ (K \cup {g}) \ {g} = K
        BY <1>2, <1>4, <3>1
      <4>2. Good(u, (K \cup {g}) \ {g}) /\ u.s = t.s
        BY <1>6, <3>1, <4>1, KfreeLemma
      <4>3. free' = u.free
        BY <1>5, <1>9, <3>1
      <4> HIDE DEF u
      <4> QED
        BY <1>2, <1>6, <1>9, <3>1, <4>1, <4>2, <4>3, NoSpaceFree
    <3>2. CASE ~stack.ok
      BY <1>5, <1>9, <3>2
    <3> QED
      BY <3>1, <3>2
  <2>2. UNCHANGED <<kstack, space, sz, state>> /\ Ends(p, "fork", t)
    BY <1>5, <1>9
  <2>3. last'.panic = t.panic /\ last'.call = "fork"
    BY <2>2, EndsIs
  <2>4. VmInv'
    BY <1>8, <2>1, <2>2, <2>3 DEF VmInv, Living, Sized, NoPanic, Runs
  <2> QED
    BY <2>1, <2>2, <2>3, <2>4 DEF Undoes
<1>10. CASE t.ok
  <2>1. stack.ok /\ g \in Frames \ K /\ Good(t, K \cup {g}) /\ t.s.pgdir # 0 /\ Mapped(t.s, sz[p])
    BY <1>4, <1>6, <1>7, <1>10
  <2>2. /\ free' = t.free /\ kstack' = [kstack EXCEPT ![c] = g]
        /\ space' = [space EXCEPT ![c] = t.s] /\ sz' = [sz EXCEPT ![c] = sz[p]]
        /\ state' = [state EXCEPT ![c] = "alive"] /\ Ends(p, "fork", t)
    BY <1>5, <1>10
  <2>3. last'.ok = t.ok /\ last'.panic = t.panic
    BY <2>2, EndsIs
  <2> DEFINE R == Others(free, space, kstack, c)
  <2>4. R = K
    <3>1. \A f \in Frames : ~Own(space, kstack, c, f)
      BY <1>1, NoSpaceType, VmAssumption DEF Own
    <3> QED
      BY <3>1 DEF Others, K
  <2>5. g # 0 /\ g \in Frames
    BY <2>1, VmAssumption
  <2>6. t \in CallType /\ Once(t.s) /\ Parts(t, K \cup {g})
    BY <2>1 DEF Good
  <2>7. Fits(free, space, kstack, c, t.s, g, t.free)
    <3> HIDE DEF R, g
    <3>1. t.s \in Spaces /\ t.free \in SUBSET Frames /\ g \in FrameOr0
      BY <2>5, <2>6 DEF CallType, FrameOr0
    <3>2. \A f \in Frames : /\ f \in t.free <=> f \notin K /\ ~In(t.s, f) /\ f # g
                            /\ f \in K => ~In(t.s, f)
      BY <2>6 DEF Parts
    <3>3. g \notin K /\ ~In(t.s, g)
      BY <2>1, <2>5, <2>6 DEF Parts
    <3> QED
      BY <2>4, <2>6, <3>1, <3>2, <3>3 DEF Fits, R
  <2>8. MemOK(free', space', kstack')
    BY <1>1, <2>2, <2>7, Commit
  <2> HIDE DEF g
  <2>9. \A q \in Procs :
           /\ q # c => space'[q] = space[q] /\ sz'[q] = sz[q] /\ kstack'[q] = kstack[q]
                       /\ state'[q] = state[q]
           /\ q = c => space'[q] = t.s /\ sz'[q] = sz[p] /\ kstack'[q] = g /\ state'[q] = "alive"
    BY <2>2 DEF MemOK, VmInv
  <2>10. Living'
    BY <2>1, <2>5, <2>9 DEF VmInv, Living
  <2>11. Sized'
    BY <1>1, <2>1, <2>9 DEF VmInv, Sized, Runs
  <2>12. sz' \in [Procs -> Nat] /\ state' \in [Procs -> {"unused", "alive", "zombie"}]
    BY <1>1, <2>2 DEF VmInv
  <2> QED
    BY <1>8, <1>10, <2>3, <2>8, <2>10, <2>11, <2>12 DEF VmInv, NoPanic, Undoes
<1> QED
  BY <1>9, <1>10

\* exit() keeps the invariant.
LEMMA ExitStep ==
  ASSUME VmInv, NEW p \in Procs, exit(p)
  PROVE  VmInv' /\ Undoes
<1>1. /\ state[p] = "alive" /\ state' = [state EXCEPT ![p] = "zombie"]
      /\ Ends(p, "exit", Call(0, NoSpace)) /\ UNCHANGED <<free, space, kstack, sz>>
  BY DEF exit
<1>2. last'.ok /\ ~last'.panic
  <2>1. Call(0, NoSpace).ok /\ ~Call(0, NoSpace).panic
    BY DEF Call
  <2> QED
    BY <1>1, <2>1, EndsIs
<1>3. \A q \in Procs : /\ q # p => state'[q] = state[q]
                       /\ q = p => state'[q] = "zombie"
  BY <1>1 DEF VmInv
<1>4. Living' /\ Sized'
  BY <1>1, <1>3 DEF VmInv, Living, Sized, Runs
<1>5. state' \in [Procs -> {"unused", "alive", "zombie"}]
  BY <1>1 DEF VmInv
<1> QED
  BY <1>1, <1>2, <1>4, <1>5 DEF VmInv, NoPanic, Undoes

\* wait() keeps the invariant: it frees the pages of the child, each once.
LEMMA WaitStep ==
  ASSUME VmInv, NEW c \in Procs, wait(c)
  PROVE  VmInv' /\ Undoes
<1> DEFINE K == Kept(free, space, c)
           t == Call(0, space[c])
           g == kstack[c]
           u == kfree(t, {g})
           v == freevm(u)
           R == Others(free, space, kstack, c)
<1>1. /\ state[c] = "zombie" /\ free' = v.free /\ Ends(c, "wait", v)
      /\ space' = [space EXCEPT ![c] = NoSpace] /\ kstack' = [kstack EXCEPT ![c] = 0]
      /\ sz' = [sz EXCEPT ![c] = 0] /\ state' = [state EXCEPT ![c] = "unused"]
      /\ MemOK(free, space, kstack)
  BY DEF wait, VmInv
<1>2. g # 0 /\ space[c].pgdir # 0
  BY <1>1 DEF VmInv, Living
<1>3. Good(t, K) /\ t.ok /\ t.s = space[c]
  BY <1>1, CallGood
<1>4. /\ K \in SUBSET Frames /\ g \in K
      /\ \A f \in Frames : f \in R <=> f \in K /\ f # g
  BY <1>1, <1>2, KeptIs
<1> HIDE DEF t, K
<1>5. Good(u, K \ {g}) /\ u.s = t.s /\ u.ok = t.ok
  BY <1>3, <1>4, KfreeLemma
<1>6. K \ {g} \in SUBSET Frames
  BY <1>4
<1> HIDE DEF u
<1>7. Good(v, K \ {g}) /\ v.ok = u.ok /\ v.free = Frames \ (K \ {g})
  <2> DEFINE L == K \ {g}
  <2>1. Good(u, L) /\ L \in SUBSET Frames /\ u.s.pgdir # 0
    BY <1>2, <1>3, <1>5, <1>6
  <2> HIDE DEF L
  <2>2. Good(v, L) /\ v.ok = u.ok /\ v.free = Frames \ L
    BY <2>1, FreevmLemma
  <2> QED
    BY <2>2 DEF L
<1> HIDE DEF v
<1>8. last'.ok /\ ~last'.panic
  BY <1>1, <1>3, <1>5, <1>7, EndsIs DEF Good
<1>9. Fits(free, space, kstack, c, NoSpace, 0, v.free)
  <2> HIDE DEF g, R
  <2>1. \A f \in Frames : f \in v.free <=> f \notin R /\ ~In(NoSpace, f) /\ f # 0
    BY <1>4, <1>7, NoSpaceType, VmAssumption
  <2>2. v.free \in SUBSET Frames /\ 0 \in FrameOr0
    BY <1>7 DEF FrameOr0
  <2> QED
    BY <2>1, <2>2, NoSpaceType DEF Fits, R
<1>10. MemOK(free', space', kstack')
  BY <1>1, <1>9, Commit
<1>11. \A q \in Procs :
         /\ q # c => space'[q] = space[q] /\ sz'[q] = sz[q] /\ kstack'[q] = kstack[q]
                     /\ state'[q] = state[q]
         /\ q = c => space'[q] = NoSpace /\ sz'[q] = 0 /\ kstack'[q] = 0 /\ state'[q] = "unused"
  BY <1>1 DEF MemOK, VmInv
<1>12. Living'
  BY <1>11 DEF VmInv, Living
<1>13. Sized'
  <2>1. 0 < KERNBASE
    BY VmAssumption
  <2> QED
    BY <1>11, <2>1 DEF VmInv, Sized, Runs
<1>14. sz' \in [Procs -> Nat] /\ state' \in [Procs -> {"unused", "alive", "zombie"}]
  BY <1>1 DEF VmInv
<1> QED
  BY <1>8, <1>10, <1>12, <1>13, <1>14 DEF VmInv, NoPanic, Undoes

\* userinit()
LEMMA InitInv ==
  ASSUME Init
  PROVE  VmInv
<1> DEFINE t0 == [free |-> Frames, s |-> NoSpace, left |-> Cardinality(Frames),
                  got |-> 0, ok |-> TRUE, panic |-> FALSE]
           g == Boot.got
           v == setupkvm(Boot)
           u == Start
           z == [p \in Procs |-> IF p = InitProc THEN PGSIZE ELSE 0]
<1>1. Boot = kalloc(t0)
  BY DEF Boot
<1>2. Good(t0, {}) /\ t0.ok /\ t0.s = NoSpace
  <2>1. Cardinality(Frames) \in Int
    BY FS_CardinalityType, VmAssumption
  <2>2. t0 \in CallType
    BY <2>1, NoSpaceType DEF CallType, FrameOr0
  <2>3. Parts(t0, {})
    BY NoSpaceType DEF Parts
  <2> QED
    BY <2>2, <2>3, NoSpaceType DEF Good
<1> HIDE DEF t0
<1>3. u.ok /\ Boot.ok /\ u = Page(v, 0)
  BY DEF Init, Start
<1>4. Boot.s = NoSpace /\ g \in Frames /\ Good(Boot, {g})
  <2>1. /\ Boot.s = t0.s
        /\ Boot.ok => g \in Frames \ {} /\ Good(Boot, {} \cup {g})
    BY <1>1, <1>2, KallocLemma
  <2>2. {} \cup {g} = {g}
    OBVIOUS
  <2> QED
    BY <1>2, <1>3, <2>1, <2>2
<1>5. /\ Good(v, {g}) /\ v.s.page = NoSpace.page
      /\ IF v.ok THEN v.s.pgdir # 0 ELSE v.s = NoSpace
  BY <1>3, <1>4, SetupkvmLemma
<1> HIDE DEF v, u
<1>6. 0 \in UPages /\ UPages \subseteq Nat
  BY Sizes
<1>7. v.ok
  BY <1>3 DEF Page
<1>8. Adds(v, u, 0, TRUE) /\ Good(u, {g})
  <2>1. u = NewPage(kalloc(v), 0, TRUE)
    BY <1>3, <1>7 DEF Page
  <2>2. v.s.page[0] = 0 /\ {g} \in SUBSET Frames
    BY <1>4, <1>5, <1>6, NoSpaceType
  <2> QED
    BY <1>5, <1>6, <1>7, <2>1, <2>2, AddLemma
<1>9. u.s.pgdir # 0 /\ Mapped(u.s, PGSIZE)
  <2>1. PICK f \in Frames : u.s.page = [NoSpace.page EXCEPT ![0] = f]
    BY <1>3, <1>5, <1>8 DEF Adds
  <2>2. f # 0
    BY VmAssumption
  <2>3. \A a \in UPages : u.s.page[a] = IF a = 0 THEN f ELSE 0
    BY <2>1, NoSpaceType
  <2>4. Npages(PGSIZE) = 1
    <3>1. 1 * PGSIZE = PGSIZE
      BY VmAssumption
    <3> QED
      BY <3>1, NpagesExact
  <2>5. \A a \in UPages : a < 1 <=> a = 0
    BY <1>6
  <2> QED
    BY <1>5, <1>7, <1>8, <2>2, <2>3, <2>4, <2>5 DEF Mapped, Adds
<1>10. /\ free = u.free /\ sz = z
       /\ space = [p \in Procs |-> IF p = InitProc THEN u.s ELSE NoSpace]
       /\ kstack = [p \in Procs |-> IF p = InitProc THEN g ELSE 0]
       /\ state = [p \in Procs |-> IF p = InitProc THEN "alive" ELSE "unused"]
       /\ last.panic = u.panic
  BY DEF Init, u, Result
<1> HIDE DEF g
<1>11. u \in CallType /\ Once(u.s) /\ Parts(u, {g})
  BY <1>8 DEF Good
<1>12. InitProc \in Procs /\ 0 \notin Frames /\ PGSIZE \in Nat /\ PGSIZE < KERNBASE
       /\ KERNBASE \in Nat /\ 0 < KERNBASE
  BY VmAssumption
<1>13. u.s \in Spaces /\ u.free \in SUBSET Frames /\ g \in FrameOr0 /\ 0 \in FrameOr0
  BY <1>4, <1>11 DEF CallType, FrameOr0
<1>14. \A p \in Procs : /\ p = InitProc => space[p] = u.s /\ kstack[p] = g /\ state[p] = "alive"
                                           /\ sz[p] = PGSIZE
                        /\ p # InitProc => space[p] = NoSpace /\ kstack[p] = 0
                                           /\ state[p] = "unused" /\ sz[p] = 0
  BY <1>10
<1>15. MemOK(free, space, kstack)
  <2>1. space \in [Procs -> Spaces] /\ kstack \in [Procs -> FrameOr0]
    BY <1>10, <1>13, NoSpaceType
  <2>2. \A p \in Procs : Once(space[p]) /\ (kstack[p] # 0 => ~In(space[p], kstack[p]))
    BY <1>4, <1>11, <1>14, NoSpaceType DEF Parts
  <2>3. \A p \in Procs, f \in Frames : Own(space, kstack, p, f) => p = InitProc
    BY <1>12, <1>14, NoSpaceType DEF Own
  <2>4. \A f \in Frames : Own(space, kstack, InitProc, f) <=> In(u.s, f) \/ f = g
    BY <1>12, <1>14 DEF Own
  <2>5. \A f \in Frames : f \in free <=> ~In(u.s, f) /\ f # g
    BY <1>10, <1>11 DEF Parts
  <2>6. \A f \in Frames : f \in free <=> \A p \in Procs : ~Own(space, kstack, p, f)
    BY <1>12, <2>3, <2>4, <2>5
  <2> QED
    BY <1>10, <1>13, <2>1, <2>2, <2>3, <2>6 DEF MemOK
<1>16. Living
  BY <1>4, <1>9, <1>12, <1>14 DEF Living
<1>17. Sized
  BY <1>9, <1>12, <1>14 DEF Sized, Runs
<1>18. sz \in [Procs -> Nat] /\ state \in [Procs -> {"unused", "alive", "zombie"}]
  BY <1>10, <1>12
<1>19. ~last.panic
  BY <1>8, <1>10 DEF Good
<1> QED
  BY <1>15, <1>16, <1>17, <1>18, <1>19 DEF VmInv, NoPanic

\* Every step keeps the invariant, and undoes what fails.
LEMMA StepInv ==
  ASSUME VmInv, Next
  PROVE  VmInv' /\ Undoes
<1>1. \A k \in 0..Cardinality(free) : k \in Int
  <2>1. IsFiniteSet(free)
    BY FS_Subset, VmAssumption DEF VmInv, MemOK
  <2>2. Cardinality(free) \in Nat
    BY <2>1, FS_CardinalityType
  <2> QED
    BY <2>2
<1>2. ASSUME NEW p \in Procs, NEW k \in 0..Cardinality(free), NEW prog \in Programs,
             NEW n \in ArgSizes(p), exec(p, prog, n, k)
      PROVE  VmInv' /\ Undoes
  BY <1>1, <1>2, ExecStep
<1>3. ASSUME NEW p \in Procs, NEW k \in 0..Cardinality(free), NEW n \in Ints, growproc(p, n, k)
      PROVE  VmInv' /\ Undoes
  BY <1>1, <1>3, GrowStep
<1>4. ASSUME NEW p \in Procs, NEW k \in 0..Cardinality(free), NEW c \in Procs, fork(p, c, k)
      PROVE  VmInv' /\ Undoes
  BY <1>1, <1>4, ForkStep
<1>5. ASSUME NEW p \in Procs, exit(p) \/ wait(p)
      PROVE  VmInv' /\ Undoes
  BY <1>5, ExitStep, WaitStep
<1> QED
  BY <1>2, <1>3, <1>4, <1>5 DEF Next

\* Whatever programs run and wherever memory runs out, the free pages and
\* what each process has are as the code expects them.
THEOREM VmInvariant == Spec => []VmInv
<1>1. Init => VmInv
  BY InitInv
<1>2. VmInv /\ [Next]_vars => VmInv'
  <2>1. VmInv /\ Next => VmInv'
    BY StepInv
  <2>2. VmInv /\ UNCHANGED vars => VmInv'
    BY DEF VmInv, vars, Living, Sized, NoPanic, Runs
  <2> QED
    BY <2>1, <2>2
<1> QED
  BY <1>1, <1>2, PTL DEF Spec

\* NoPanic for any number of processes, pages and programs: none of the
\* panics of kfree(), mappages(), copyuvm() and loaduvm() can happen.
THEOREM VmNoPanic == Spec => []NoPanic
<1>1. VmInv => NoPanic
  BY DEF VmInv
<1> QED
  BY <1>1, VmInvariant, PTL

\* FailureUndone for any number of processes, pages and programs: exec(),
\* fork() and sbrk() undo what they did when memory runs out or a file is
\* refused.  Excepted are sbrk() of exactly minus the size, which removes the
\* pages of its caller and then fails, and the exec() whose copyout() has
\* written through a null page table entry.
THEOREM VmFailureUndone == Spec => FailureUndone
<1>1. VmInv /\ [Next]_vars => [Undoes]_vars
  BY StepInv
<1> QED
  BY <1>1, VmInvariant, PTL DEF Spec, FailureUndone, Undoes

\* AcceptedMapped for all sizes: what argptr() accepts is below the size of
\* the process, although the sum may wrap around, and all of it is mapped.
THEOREM VmAcceptedMapped == Spec => []AcceptedMapped
<1>1. VmInv => AcceptedMapped
  <2>1. SUFFICES ASSUME VmInv, NEW p \in Procs, Runs(p), NEW a \in 0..Wrap - 1,
                        NEW n \in 0..KERNBASE - 1, argptr(p, a, n), NEW b \in PagesOf(a, n)
                 PROVE  b \in UPages /\ space[p].page[b] # 0
    BY DEF AcceptedMapped
  <2> DEFINE z == sz[p]
  <2>2. z \in Nat /\ z < KERNBASE /\ Mapped(space[p], z)
    BY <2>1 DEF VmInv, Sized
  <2>3. a < z /\ (a + n) % Wrap <= z
    BY <2>1 DEF argptr
  <2> HIDE DEF z
  <2>4. KERNBASE \in Nat /\ KERNBASE > 0 /\ Wrap = 2 * KERNBASE
    BY VmAssumption DEF Wrap
  <2>5. a \in Nat /\ n \in Nat /\ a + n \in 0..(Wrap - 1)
    BY <2>2, <2>3, <2>4
  <2>6. (a + n) % Wrap = a + n
    BY <2>4, <2>5
  <2>7. PICK c \in a..(a + n - 1) : b = c \div PGSIZE
    BY DEF PagesOf
  <2>8. c \in Nat /\ c < z
    BY <2>2, <2>3, <2>5, <2>6, <2>7
  <2>9. b \in Nat /\ b < Npages(z)
    BY <2>2, <2>7, <2>8, PageOfByte
  <2>10. Npages(z) \in Nat /\ (0..(Npages(z) - 1)) \subseteq UPages
    <3>1. z <= KERNBASE
      BY <2>2, <2>4
    <3> QED
      BY <2>2, <3>1, NpagesIs, NpagesExact
  <2>11. b \in UPages
    BY <2>9, <2>10
  <2> QED
    BY <2>2, <2>9, <2>11 DEF Mapped
<1> QED
  BY <1>1, VmInvariant, PTL

\* Holds and FrameOf name each page that a process has once.
LEMMA UsesIs ==
  ASSUME MemOK(free, space, kstack)
  PROVE  /\ \A p \in Procs : \A u \in Holds(p) :
                FrameOf(p, u) \in Frames /\ Own(space, kstack, p, FrameOf(p, u))
         /\ \A p \in Procs, f \in Frames :
                Own(space, kstack, p, f) => \E u \in Holds(p) : FrameOf(p, u) = f
         /\ \A p \in Procs : \A u, v \in Holds(p) : FrameOf(p, u) = FrameOf(p, v) => u = v
<1>1. SUFFICES ASSUME NEW p \in Procs
               PROVE  /\ \A u \in Holds(p) :
                            FrameOf(p, u) \in Frames /\ Own(space, kstack, p, FrameOf(p, u))
                      /\ \A f \in Frames :
                            Own(space, kstack, p, f) => \E u \in Holds(p) : FrameOf(p, u) = f
                      /\ \A u, v \in Holds(p) : FrameOf(p, u) = FrameOf(p, v) => u = v
  OBVIOUS
<1> DEFINE s == space[p]
           g == kstack[p]
<1>2. s \in Spaces /\ g \in FrameOr0 /\ Once(s) /\ (g # 0 => ~In(s, g))
  BY DEF MemOK
<1>3. ASSUME NEW u \in Holds(p)
      PROVE  \/ u = <<"kstack", 0>> /\ FrameOf(p, u) = g /\ g # 0
             \/ u = <<"pgdir", 0>> /\ FrameOf(p, u) = s.pgdir /\ s.pgdir # 0
             \/ \E d \in Tables : u = <<"table", d>> /\ FrameOf(p, u) = s.table[d] /\ s.table[d] # 0
             \/ \E a \in UPages : u = <<"page", a>> /\ FrameOf(p, u) = s.page[a] /\ s.page[a] # 0
  <2>1. CASE u = <<"kstack", 0>>
    BY <2>1 DEF Holds, FrameOf
  <2>2. CASE u = <<"pgdir", 0>>
    BY <2>2 DEF Holds, FrameOf
  <2>3. CASE u \in {"table"} \X Tables
    <3>1. PICK d \in Tables : u = <<"table", d>>
      BY <2>3
    <3>2. u[1] = "table" /\ u[2] = d
      BY <3>1
    <3>3. FrameOf(p, u) = s.table[d] /\ s.table[d] # 0
      BY <3>2 DEF Holds, FrameOf
    <3> QED
      BY <3>1, <3>3
  <2>4. CASE u \in {"page"} \X UPages
    <3>1. PICK a \in UPages : u = <<"page", a>>
      BY <2>4
    <3>2. u[1] = "page" /\ u[2] = a
      BY <3>1
    <3>3. FrameOf(p, u) = s.page[a] /\ s.page[a] # 0
      BY <3>2 DEF Holds, FrameOf
    <3> QED
      BY <3>1, <3>3
  <2> QED
    BY <2>1, <2>2, <2>3, <2>4 DEF Holds
<1>4. /\ g # 0 => <<"kstack", 0>> \in Holds(p) /\ FrameOf(p, <<"kstack", 0>>) = g
      /\ s.pgdir # 0 => <<"pgdir", 0>> \in Holds(p) /\ FrameOf(p, <<"pgdir", 0>>) = s.pgdir
      /\ \A d \in Tables : s.table[d] # 0 =>
            <<"table", d>> \in Holds(p) /\ FrameOf(p, <<"table", d>>) = s.table[d]
      /\ \A a \in UPages : s.page[a] # 0 =>
            <<"page", a>> \in Holds(p) /\ FrameOf(p, <<"page", a>>) = s.page[a]
  BY DEF Holds, FrameOf
<1>5. ASSUME NEW u \in Holds(p)
      PROVE  FrameOf(p, u) \in Frames /\ Own(space, kstack, p, FrameOf(p, u))
  BY <1>2, <1>3 DEF Own, In, Spaces, FrameOr0
<1>6. ASSUME NEW f \in Frames, Own(space, kstack, p, f)
      PROVE  \E u \in Holds(p) : FrameOf(p, u) = f
  <2>1. f # 0
    BY VmAssumption
  <2> HIDE DEF s, g
  <2>2. CASE g = f
    BY <1>4, <2>1, <2>2
  <2>3. CASE s.pgdir = f
    BY <1>4, <2>1, <2>3
  <2>4. ASSUME NEW d \in Tables, s.table[d] = f PROVE \E u \in Holds(p) : FrameOf(p, u) = f
    BY <1>4, <2>1, <2>4
  <2>5. ASSUME NEW a \in UPages, s.page[a] = f PROVE \E u \in Holds(p) : FrameOf(p, u) = f
    BY <1>4, <2>1, <2>5
  <2> QED
    BY <1>6, <2>2, <2>3, <2>4, <2>5 DEF Own, In, s, g
<1>7. ASSUME NEW u \in Holds(p), NEW v \in Holds(p), FrameOf(p, u) = FrameOf(p, v)
      PROVE  u = v
  <2> DEFINE f == FrameOf(p, u)
  <2> HIDE DEF s, g
  <2>1. CASE u = <<"kstack", 0>> /\ f = g /\ g # 0
    BY <1>2, <1>3, <1>7, <2>1 DEF In
  <2>2. CASE u = <<"pgdir", 0>> /\ f = s.pgdir /\ s.pgdir # 0
    BY <1>2, <1>3, <1>7, <2>2 DEF In, Once
  <2>3. CASE \E d \in Tables : u = <<"table", d>> /\ f = s.table[d] /\ s.table[d] # 0
    BY <1>2, <1>3, <1>7, <2>3 DEF In, Once
  <2>4. CASE \E a \in UPages : u = <<"page", a>> /\ f = s.page[a] /\ s.page[a] # 0
    BY <1>2, <1>3, <1>7, <2>4 DEF In, Once
  <2> QED
    BY <1>3, <2>1, <2>2, <2>3, <2>4
<1> QED
  BY <1>5, <1>6, <1>7

\* FramesOwned for any number of processes, pages and programs: no page of
\* memory is lost, freed twice or shared.
THEOREM VmFramesOwned == Spec => []FramesOwned
<1>1. VmInv => FramesOwned
  <2>1. SUFFICES ASSUME VmInv PROVE FramesOwned
    OBVIOUS
  <2> DEFINE uses == UNION {{<<p, u>> : u \in Holds(p)} : p \in Procs}
             used == {FrameOf(x[1], x[2]) : x \in uses}
             g == [x \in uses |-> FrameOf(x[1], x[2])]
  <2>2. MemOK(free, space, kstack)
    BY <2>1 DEF VmInv
  <2>3. \A x \in uses : x[1] \in Procs /\ x[2] \in Holds(x[1]) /\ x = <<x[1], x[2]>>
    OBVIOUS
  <2>4. \A p \in Procs : \A u \in Holds(p) : <<p, u>> \in uses
    OBVIOUS
  <2> HIDE DEF uses
  <2>5. \A f \in Frames : f \in used <=> \E p \in Procs : Own(space, kstack, p, f)
    <3>1. SUFFICES ASSUME NEW f \in Frames
                   PROVE  f \in used <=> \E p \in Procs : Own(space, kstack, p, f)
      OBVIOUS
    <3>2. ASSUME f \in used PROVE \E p \in Procs : Own(space, kstack, p, f)
      <4>1. PICK x \in uses : f = FrameOf(x[1], x[2])
        BY <3>2
      <4>2. x[1] \in Procs /\ x[2] \in Holds(x[1])
        BY <2>3
      <4> QED
        BY <2>2, <4>1, <4>2, UsesIs
    <3>3. ASSUME NEW p \in Procs, Own(space, kstack, p, f) PROVE f \in used
      <4>1. PICK u \in Holds(p) : FrameOf(p, u) = f
        BY <2>2, <3>3, UsesIs
      <4>2. <<p, u>> \in uses /\ <<p, u>>[1] = p /\ <<p, u>>[2] = u
        BY <2>4
      <4> QED
        BY <4>1, <4>2
    <3> QED
      BY <3>2, <3>3
  <2>6. used \subseteq Frames
    BY <2>2, <2>3, UsesIs
  <2>7. free = Frames \ used
    <3> HIDE DEF used
    <3> QED
      BY <2>2, <2>5 DEF MemOK
  <2>8. ASSUME NEW x \in uses, NEW y \in uses, g[x] = g[y]
        PROVE  x = y
    <3> DEFINE f == FrameOf(x[1], x[2])
    <3>1. f = FrameOf(y[1], y[2])
      BY <2>8
    <3>2. f \in Frames /\ Own(space, kstack, x[1], f) /\ Own(space, kstack, y[1], f)
      BY <2>2, <2>3, <3>1, UsesIs
    <3>3. x[1] = y[1]
      BY <2>2, <2>3, <3>2 DEF MemOK
    <3>4. x[2] = y[2]
      BY <2>2, <2>3, <3>1, <3>3, UsesIs
    <3> QED
      BY <2>3, <3>3, <3>4
  <2>9. g \in Injection(uses, used)
    <3>1. g \in [uses -> used]
      OBVIOUS
    <3> QED
      BY <2>8, <3>1 DEF Injection, IsInjective
  <2>10. g \in Surjection(uses, used)
    BY DEF Surjection
  <2>11. IsFiniteSet(used)
    BY <2>6, FS_Subset, VmAssumption
  <2>12. Cardinality(uses) = Cardinality(used)
    <3> HIDE DEF g, used
    <3> QED
      BY <2>9, <2>10, <2>11, FS_Injection
  <2> QED
    BY <2>7, <2>12 DEF FramesOwned, uses
<1> QED
  BY <1>1, VmInvariant, PTL
=============================================================================
