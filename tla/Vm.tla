--------------------------------- MODULE Vm ---------------------------------
(***************************************************************************)
(* Physical pages (kalloc.c), address spaces (vm.c) and the calls that     *)
(* build, change and free them: exec, sbrk, fork, exit and wait, and the   *)
(* check of arguments in syscall.c.                                        *)
(*                                                                         *)
(* An address space belongs to one process and the free list has a lock of *)
(* its own, so that what other processes can do to a call is to take the   *)
(* pages it needs: a call is one action and kalloc() may fail at any point *)
(* of it.  Which free page kalloc() takes is of no importance.             *)
(***************************************************************************)
EXTENDS Integers, Sequences, FiniteSets, FiniteSetsExt

CONSTANTS Procs, InitProc,
          Frames,        \* physical pages
          PGSIZE, KERNBASE,
          NPTENTRIES,    \* pages that one page table maps
          KTables,       \* page tables that kmap[] fills; the others are a hole
          Programs       \* executable files: sequences of program headers

Wrap    == 2 * KERNBASE                 \* 2^32
UPages  == 0..KERNBASE \div PGSIZE - 1
Tables  == 0..(Wrap \div PGSIZE) \div NPTENTRIES - 1
UTables == 0..(KERNBASE \div PGSIZE) \div NPTENTRIES - 1
Ints    == -KERNBASE..KERNBASE - 1

\* struct proghdr; short: readi() finds less than filesz bytes.
Header == [vaddr : 0..Wrap - 1, memsz : 0..Wrap - 1, filesz : 0..Wrap - 1, short : BOOLEAN]

ASSUME VmAssumption ==
    /\ InitProc \in Procs /\ Frames \subseteq Nat \ {0} /\ IsFiniteSet(Frames)
    /\ PGSIZE \in Nat \ {0} /\ NPTENTRIES \in Nat \ {0}
    /\ KERNBASE \in Nat /\ KERNBASE > PGSIZE /\ KERNBASE % (PGSIZE * NPTENTRIES) = 0
    /\ KTables \subseteq Tables \ UTables /\ Programs \subseteq Seq(Header)

VARIABLES
    free,     \* kmem.freelist
    space,    \* p->pgdir with its tables and pages, see NoSpace
    kstack,   \* p->kstack
    sz,       \* p->sz
    state,    \* "unused", "alive" or "zombie"
    last      \* how the last call ended, see Result

vars == <<free, space, kstack, sz, state, last>>

\* The page directory, the page tables and the user pages; 0: not present.
NoSpace == [pgdir |-> 0, table |-> [d \in Tables |-> 0],
            page |-> [a \in UPages |-> 0], user |-> {}]

\* Faulty: rounds down.
BadPGROUNDUP(a) == (a \div PGSIZE) * PGSIZE

PGROUNDUP(a) == ((a + PGSIZE - 1) \div PGSIZE) * PGSIZE
PDX(a)       == a \div NPTENTRIES

\* How many pages a process of size n has.
Npages(n) == PGROUNDUP(n) \div PGSIZE

-----------------------------------------------------------------------------
(* kalloc.c and vm.c.  A call that is under way is a record t: the free    *)
(* pages, the address space that it works on, how many more times kalloc() *)
(* succeeds, the page that it got last, whether all went well, and whether *)
(* it has hit a panic.  The operators named Bad... are faulty variants of  *)
(* what follows them; nothing uses them.                                   *)

Call(k, s) == [free |-> free, s |-> s, left |-> k, got |-> 0, ok |-> TRUE, panic |-> FALSE]

Fail(t)  == [t EXCEPT !.ok = FALSE]
Panic(t) == [t EXCEPT !.ok = FALSE, !.panic = TRUE]

\* kalloc() of page t.got
kalloc(t) == IF t.left = 0 \/ t.free = {} THEN Fail(t)
             ELSE [t EXCEPT !.got = Min(t.free), !.free = @ \ {Min(@)}, !.left = @ - 1]

\* kfree() of the pages in F: it panics on what is not a page.
kfree(t, F) == IF F \subseteq Frames \ t.free THEN [t EXCEPT !.free = @ \cup F] ELSE Panic(t)

\* walkpgdir() with alloc: page table d.
SetTable(t, d) == IF t.ok THEN [t EXCEPT !.s.table[d] = t.got] ELSE t
Walk(t, d) == IF t.s.table[d] # 0 THEN t ELSE SetTable(kalloc(t), d)

\* mappages() of page a to t.got, which stays there if it fails.
SetPage(t, a, f, user) ==
    IF ~t.ok THEN [t EXCEPT !.got = f]
    ELSE IF t.s.page[a] # 0 THEN Panic(t)
    ELSE [t EXCEPT !.s.page[a] = f, !.s.user = IF user THEN @ \cup {a} ELSE @]
mappages(t, a, user) == SetPage(Walk(t, PDX(a)), a, t.got, user)

\* deallocuvm()
RemovePages(t, gone) ==
    [kfree(t, {t.s.page[a] : a \in gone}) EXCEPT
       !.s.page = [a \in UPages |-> IF a \in gone THEN 0 ELSE @[a]],
       !.s.user = @ \ gone]
deallocuvm(t, oldsz, newsz) ==
    IF newsz >= oldsz THEN t
    ELSE RemovePages(t, {a \in Npages(newsz)..Npages(oldsz) - 1 : t.s.page[a] # 0})

\* Faulty: the page tables are not freed.
BadFreeTables(t) == [kfree(t, {t.s.pgdir}) EXCEPT !.s = NoSpace]

\* freevm()
FreeTables(t) == [kfree(t, ({t.s.table[d] : d \in Tables} \ {0}) \cup {t.s.pgdir}) EXCEPT
                    !.s = NoSpace]
freevm(t) == FreeTables(deallocuvm(t, KERNBASE, 0))

\* Page directory t.got for setupkvm(), and page tables for the kernel's half.
KernelTable(t, d) == IF t.ok /\ d \in KTables THEN Walk(t, d) ELSE t
Undone(t) == IF t.ok \/ t.panic THEN t ELSE Fail(freevm(t))
KernelTables(t) ==
    LET first == Cardinality(UTables)
        n == Cardinality(Tables) - first
        upto[k \in 0..n] == IF k = 0 THEN t ELSE KernelTable(upto[k - 1], first + k - 1)
    IN upto[n]
KernelHalf(t) ==
    IF ~t.ok THEN t
    ELSE Undone(KernelTables([t EXCEPT !.s = [NoSpace EXCEPT !.pgdir = t.got]]))
setupkvm(t) == KernelHalf(kalloc(t))

\* Faulty: the page that could not be mapped is not given back.
BadGiveBack(t) == t

\* kfree() of a page that mappages() could not map.
GiveBack(t) == IF t.ok \/ t.panic THEN t ELSE kfree(t, {t.got})

\* A page for allocuvm() or copyuvm(), where only the latter may want one
\* that is not for the user.
NewPage(t, a, user) == IF t.ok THEN GiveBack(mappages(t, a, user)) ELSE t
Page(t, a) == IF t.ok THEN NewPage(kalloc(t), a, TRUE) ELSE t

\* The n pages from page lo on.
AllocPages(t, lo, n) ==
    LET upto[k \in 0..n] == IF k = 0 THEN t ELSE Page(upto[k - 1], lo + k - 1)
    IN upto[n]

\* allocuvm(): the pages, and the size that it returns.
UndoAlloc(t, oldsz, newsz) ==
    IF t.ok \/ t.panic THEN t ELSE Fail(deallocuvm(t, newsz, oldsz))
allocuvm(t, oldsz, newsz) ==
    IF newsz >= KERNBASE THEN Fail(t)
    ELSE IF newsz < oldsz THEN t
    ELSE UndoAlloc(AllocPages(t, Npages(oldsz), Npages(newsz) - Npages(oldsz)), oldsz, newsz)
AllocSize(oldsz, newsz) == IF newsz < oldsz THEN oldsz ELSE newsz

\* copyuvm() of the first n pages of s, into a new space.
Copy(t, s, a) ==
    IF ~t.ok THEN t
    ELSE IF s.page[a] = 0 THEN Panic(t)
    ELSE NewPage(kalloc(t), a, a \in s.user)
CopyPages(t, s, n) ==
    LET upto[k \in 0..n] == IF k = 0 THEN t ELSE Copy(upto[k - 1], s, k - 1)
    IN upto[n]
CopyInto(t, s, n) == IF t.ok THEN Undone(CopyPages(t, s, n)) ELSE t
copyuvm(t, s, n)  == CopyInto(setupkvm(t), s, Npages(n))

\* Pages of the bytes from va on.
PagesOf(va, n) == {b \div PGSIZE : b \in va..va + n - 1}

\* The bytes, counted from va on, that are not in a user page.  Addresses
\* are 32 bits wide.
Blocked(s, va, n) == {i \in 0..n - 1 : ((va + i) % Wrap) \div PGSIZE \notin s.user}

\* copyout() succeeds
Copyout(s, va, n) == Blocked(s, va, n) = {}

\* copyout() comes to a page without a page table: uva2ka() reads the entry
\* through the null pointer that walkpgdir() returns.
NullPte(s, va, n) ==
    /\ ~Copyout(s, va, n)
    /\ s.table[PDX(((va + Min(Blocked(s, va, n))) % Wrap) \div PGSIZE)] = 0

-----------------------------------------------------------------------------
(* exec.c.  A load under way is a call t and the size so far.              *)

\* loaduvm() of a program header; readi() may fail.
Loaded(l, ph) ==
    IF ~l.t.ok \/ l.sz = 0 \/ ph.vaddr % PGSIZE # 0 THEN [l EXCEPT !.t = Fail(@)]
    ELSE IF \E a \in PagesOf(ph.vaddr, ph.filesz) : l.t.s.page[a] = 0
    THEN [l EXCEPT !.t = Panic(@)]
    ELSE IF ph.short THEN [l EXCEPT !.t = Fail(@)] ELSE l

\* The segment that ends at end.
Segment(l, ph, end) ==
    IF ~l.t.ok \/ ph.memsz < ph.filesz \/ end < ph.vaddr THEN [l EXCEPT !.t = Fail(@)]
    ELSE Loaded([t |-> allocuvm(l.t, l.sz, end), sz |-> AllocSize(l.sz, end)], ph)
LoadSegment(l, ph) == Segment(l, ph, (ph.vaddr + ph.memsz) % Wrap)

\* Two pages from low on, the first inaccessible.
Guard(l, low) == [l EXCEPT !.t.s.user = @ \ {low \div PGSIZE}]
Stack(l, low) ==
    IF ~l.t.ok THEN l
    ELSE Guard([t |-> allocuvm(l.t, low, low + 2 * PGSIZE), sz |-> low + 2 * PGSIZE], low)
WithStack(l) == Stack(l, PGROUNDUP(l.sz))

\* exec() from setupkvm() up to "Commit to the user image".
Load(t, prog) ==
    LET upto[k \in 0..Len(prog)] ==
            IF k = 0 THEN [t |-> t, sz |-> 0] ELSE LoadSegment(upto[k - 1], prog[k])
    IN upto[Len(prog)]
Image(t, prog) == IF t.ok THEN WithStack(Load(t, prog)) ELSE [t |-> t, sz |-> 0]

\* n bytes of arguments go below sp, which is unsigned.
Sp(l, n) == (l.sz - n) % Wrap
Arguments(l, n) ==
    IF l.t.ok /\ ~Copyout(l.t.s, Sp(l, n), n) THEN [l EXCEPT !.t = Fail(@)] ELSE l

\* What the word at address 0, which is code of the caller, makes of a null
\* entry: copyout() fails, or it writes to a page that the word names.
Strays(l, n) ==
    IF l.t.ok /\ NullPte(l.t.s, Sp(l, n), n) THEN BOOLEAN ELSE {FALSE}

-----------------------------------------------------------------------------
(* The calls.  k: how many times kalloc() succeeds.                        *)

\* The code of p, in page 0, can be run.
Runs(p) == state[p] = "alive" /\ 0 \in space[p].user

\* Call of p: its outcome; stray: copyout() has written to a page that need
\* not be its own; whole: it was sbrk() of minus the size.
Result(p, call, t) == [p |-> p, call |-> call, ok |-> t.ok, panic |-> t.panic,
                       stray |-> FALSE, whole |-> FALSE]
Ends(p, call, t) == last' = Result(p, call, t)

\* exec(); the first process executes a program that has code.
exec(p, prog, n, k) ==
    /\ Runs(p) /\ (p = InitProc => prog # <<>>)
    /\ \E m \in {Image(setupkvm(Call(k, NoSpace)), prog)} : \E l \in {Arguments(m, n)} :
          \/ /\ l.t.ok
             /\ \E old \in {freevm([l.t EXCEPT !.s = space[p]])} :
                   free' = old.free /\ Ends(p, "exec", old)
             /\ space' = [space EXCEPT ![p] = l.t.s]
             /\ sz' = [sz EXCEPT ![p] = l.sz]
          \/ /\ ~l.t.ok
             /\ free' = IF l.t.s.pgdir # 0 THEN freevm(l.t).free ELSE l.t.free
             /\ \E stray \in Strays(m, n) :
                   last' = [Result(p, "exec", l.t) EXCEPT !.stray = stray]
             /\ UNCHANGED <<space, sz>>
    /\ UNCHANGED <<kstack, state>>

\* growproc(); a new size of 0 counts as an error.
Grown(p, newsz, n, k) ==
    IF n > 0 THEN [t |-> allocuvm(Call(k, space[p]), sz[p], newsz),
                   sz |-> AllocSize(sz[p], newsz)]
    ELSE IF n < 0 THEN [t |-> deallocuvm(Call(0, space[p]), sz[p], newsz),
                        sz |-> Min({sz[p], newsz})]
    ELSE [t |-> Call(0, space[p]), sz |-> sz[p]]

growproc(p, n, k) ==
    /\ Runs(p) /\ p # InitProc
    /\ \E l \in {Grown(p, (sz[p] + n) % Wrap, n, k)} :
          /\ free' = l.t.free
          /\ space' = [space EXCEPT ![p] = l.t.s]
          /\ sz' = [sz EXCEPT ![p] = IF l.t.ok /\ l.sz # 0 THEN l.sz ELSE @]
          /\ last' = [Result(p, "sbrk", IF l.sz = 0 THEN Fail(l.t) ELSE l.t) EXCEPT
                         !.whole = (n = -sz[p])]
    /\ UNCHANGED <<kstack, state>>

\* The memory of a child: allocproc() and copyuvm()
fork(p, c, k) ==
    /\ Runs(p) /\ state[c] = "unused"
    /\ \E stack \in {kalloc(Call(k, NoSpace))} :
       \E t \in {IF stack.ok THEN copyuvm(stack, space[p], sz[p]) ELSE stack} :
          \/ /\ t.ok
             /\ free' = t.free
             /\ kstack' = [kstack EXCEPT ![c] = stack.got]
             /\ space' = [space EXCEPT ![c] = t.s]
             /\ sz' = [sz EXCEPT ![c] = sz[p]]
             /\ state' = [state EXCEPT ![c] = "alive"]
             /\ Ends(p, "fork", t)
          \/ /\ ~t.ok
             /\ free' = IF stack.ok THEN kfree(t, {stack.got}).free ELSE free
             /\ Ends(p, "fork", t)
             /\ UNCHANGED <<kstack, space, sz, state>>

\* exit(), also by the trap when p cannot run its code.
exit(p) ==
    /\ state[p] = "alive" /\ p # InitProc
    /\ state' = [state EXCEPT ![p] = "zombie"]
    /\ Ends(p, "exit", Call(0, NoSpace))
    /\ UNCHANGED <<free, space, kstack, sz>>

\* wait() frees what child c had.
wait(c) ==
    /\ state[c] = "zombie"
    /\ \E t \in {freevm(kfree(Call(0, space[c]), {kstack[c]}))} :
          free' = t.free /\ Ends(c, "wait", t)
    /\ space' = [space EXCEPT ![c] = NoSpace]
    /\ kstack' = [kstack EXCEPT ![c] = 0]
    /\ sz' = [sz EXCEPT ![c] = 0]
    /\ state' = [state EXCEPT ![c] = "unused"]

\* userinit(): the kernel stack, the space and one page of code.  It panics
\* when there is no memory for them.
Boot  == kalloc([free |-> Frames, s |-> NoSpace, left |-> Cardinality(Frames),
                 got |-> 0, ok |-> TRUE, panic |-> FALSE])
Start == IF Boot.ok THEN Page(setupkvm(Boot), 0) ELSE Boot

Init ==
    /\ Start.ok
    /\ free = Start.free
    /\ space = [p \in Procs |-> IF p = InitProc THEN Start.s ELSE NoSpace]
    /\ kstack = [p \in Procs |-> IF p = InitProc THEN Boot.got ELSE 0]
    /\ sz = [p \in Procs |-> IF p = InitProc THEN PGSIZE ELSE 0]
    /\ state = [p \in Procs |-> IF p = InitProc THEN "alive" ELSE "unused"]
    /\ last = Result(InitProc, "userinit", Start)

\* The arguments of exec(): some that fit on the stack page, and then one
\* string of the caller.
ArgSizes(p) == 1..PGSIZE + sz[p]

\* After a stray write nothing is known of memory, and the model ends.
Next ==
    /\ ~last.stray
    /\ \/ \E p \in Procs, k \in 0..Cardinality(free) :
             \/ \E prog \in Programs, n \in ArgSizes(p) : exec(p, prog, n, k)
             \/ \E n \in Ints : growproc(p, n, k)
             \/ \E c \in Procs : fork(p, c, k)
       \/ \E p \in Procs : exit(p) \/ wait(p)

Spec == Init /\ [][Next]_vars

-----------------------------------------------------------------------------
(* Properties                                                              *)

\* The pages that process p has, by use.
Holds(p) ==
    {u \in {<<"kstack", 0>>, <<"pgdir", 0>>} \cup ({"table"} \X Tables) \cup ({"page"} \X UPages) :
        CASE u[1] = "kstack" -> kstack[p] # 0 [] u[1] = "pgdir" -> space[p].pgdir # 0
          [] u[1] = "table" -> space[p].table[u[2]] # 0 [] u[1] = "page" -> space[p].page[u[2]] # 0}
FrameOf(p, u) ==
    CASE u[1] = "kstack" -> kstack[p] [] u[1] = "pgdir" -> space[p].pgdir
      [] u[1] = "table" -> space[p].table[u[2]] [] u[1] = "page" -> space[p].page[u[2]]

\* A page of memory is free or has one use in one process, wherever a call
\* ran out of memory: none is lost, freed twice or shared.
FramesOwned ==
    LET uses == UNION {{<<p, u>> : u \in Holds(p)} : p \in Procs}
        used == {FrameOf(x[1], x[2]) : x \in uses}
    IN Cardinality(used) = Cardinality(uses) /\ free = Frames \ used

\* None of the panics "remap", "copyuvm: page not present", "loaduvm:
\* address should exist" and "kfree".
NoPanic == ~last.panic

\* Faulty: only the end is compared.
BadArgptr(p, a, n) == (a + n) % Wrap <= sz[p]

\* argptr(), and fetchint() with its size: n bytes at a are accepted.
argptr(p, a, n) == a < sz[p] /\ (a + n) % Wrap <= sz[p]

\* What the check of arguments accepts can be read and written by the
\* kernel without a fault, for every size that the calls can produce.
AcceptedMapped ==
    \A p \in Procs : Runs(p) =>
        \A a \in 0..Wrap - 1, n \in 0..KERNBASE - 1 :
            argptr(p, a, n) => \A b \in PagesOf(a, n) : b \in UPages /\ space[p].page[b] # 0

\* A call that fails leaves memory as it was: exec() and fork() to the last
\* page, sbrk() the spaces of the others and the pages of the caller.  The
\* code has two exceptions.  sbrk() of minus the size removes all pages of
\* the caller and then reports an error.  And exec() may have written to a
\* page of anyone before it failed, see CopyoutOwn.
FailureUndone ==
    [][~last'.ok /\ ~last'.stray =>
         /\ sz' = sz /\ state' = state /\ kstack' = kstack
         /\ last'.call \in {"exec", "fork"} => UNCHANGED <<free, space>>
         /\ last'.call = "sbrk" =>
              /\ \A q \in Procs \ {last'.p} : space'[q] = space[q]
              /\ ~last'.whole => space'[last'.p].page = space[last'.p].page]_vars

\* copyout() writes to pages with PTE_U of the address space that exec()
\* builds and to no other, as its comment says.  The code does not keep
\* this: with an argument longer than the new image and the devices' part of
\* the address space together sp wraps into the hole of kmap[], and
\* uva2ka() takes the word at address 0 for the page table entry.
CopyoutOwn == ~last.stray
=============================================================================
