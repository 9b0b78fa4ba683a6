# A TLA+ development of Customized-xv6

The repository is a variant of xv6 (x86) whose scheduler is chosen when the
kernel is built (`SCHEDULER=DEFAULT | FCFS | PBS | MLFQ`), with new system
calls (`waitx`, `set_priority`, `getpinfo`) and the rest of xv6 around it.  The
modules here model the parts of the kernel that are concurrent, that must
survive a crash, that must undo what they did when something runs out, or that
this variant has rewritten.  TLC checks them on small
instances; TLAPS proves most of their invariants, and the refinements,
for every size.

## Inventory

| component | state | operations | who it talks to |
|---|---|---|---|
| process table (`proc.c`) | `ptable.proc[]`: state, pid, parent, chan, killed, kstack; `nextpid`; `c->proc`; `ptable.lock` | `allocproc`, `fork`, `exit`, `wait`, `waitx`, `sleep`, `wakeup`, `kill`, `yield`, `sched` | every blocking part of the kernel, through `sleep`/`wakeup`; `trap()` |
| trap handling (`trap.c`) | `ticks` | system call entry and return, faults, the clock branch of each policy | calls `exit`, `yield`, `wakeup`, `aging`, `check_priority` |
| table-scanning schedulers (`proc.c`) | scan position, `mxprt`, `mx2`, `priority`, `ctime` | the DEFAULT, FCFS and PBS branches of `scheduler()`, `set_priority`, `check_priority` | process table, clock |
| MLFQ (`proc.c`, `trap.c`) | `q0..q4`, `cnt[]`, `qno`, `rrtime[]`, `aging_time` | the MLFQ branch of `scheduler()`, `aging()`, demotion and preemption in `trap()`, the append of `allocproc()` | process table, clock |
| write-ahead log (`log.c`) | `log.lh`, `outstanding`, `committing`; header and data blocks on the disk | `begin_op`, `log_write`, `end_op`, `commit`, `recover_from_log` | buffer cache, every file system call |
| spin locks, sleep locks | `locked`, owner, `ncli`, `intena`, the interrupt flag | `acquire`, `release`, `pushcli`, `popcli`, `acquiresleep`, `releasesleep` | everything |
| buffer cache, disk driver (`bio.c`, `ide.c`) | LRU list, `refcnt`, `B_VALID`, `B_DIRTY`; `idequeue` | `bget`, `bread`, `bwrite`, `brelse`; `iderw`, `ideintr` | log, inode layer |
| inode layer (`fs.c`) | inode cache (`ref`, `valid`, locks), inodes, bitmap, blocks, directories | `iget`, `ilock`, `iput`, `ialloc`, `balloc`, `bmap`, `itrunc`, `readi`, `writei`, `dirlookup`, `dirlink`, `namex` | log, buffer cache |
| file table and calls (`file.c`, `sysfile.c`) | `ftable`, `ofile[]`, `cwd` | `filealloc`, `filedup`, `fileclose`, `fileread`, `filewrite`; `open`, `link`, `unlink`, `mkdir`, `mknod`, `chdir`, `dup`, `pipe` | inode layer, pipes, `fork`, `exit` |
| pipes (`pipe.c`) | ring buffer, `nread`, `nwrite`, two open flags | `pipealloc`, `pipewrite`, `piperead`, `pipeclose` | file table, `sleep`/`wakeup` |
| console (`console.c`) | input ring `r`, `w`, `e`; `cons.lock` | `consoleintr`, `consoleread`, `consolewrite`, `cprintf` | interrupts, scheduler, process table |
| memory (`kalloc.c`, `vm.c`, `exec.c`) | free list, page directories and tables, `sz` | `kalloc`, `kfree`, `allocuvm`, `deallocuvm`, `copyuvm`, `freevm`, `exec`, `growproc` | fork, exit, wait |
| system call arguments (`syscall.c`) | none | `fetchint`, `fetchstr`, `argptr` | address spaces |

What is hard here:

* **Hand-over of `ptable.lock`.**  `sched()` switches to the scheduler with the
  lock held, and a dispatched process releases a lock it never took.  The two
  halves run on different stacks, and another CPU may free one of the stacks.
* **Sleep and wake-up.**  A parent's `wait()` races the `exit()` and `kill()` of
  its children, and a zombie may change parent while the new parent sleeps.
* **A scan that is interrupted.**  `scheduler()` keeps its position and `mxprt`
  in its frame while the processes it runs change the table.
* **Queues beside the table.**  MLFQ keeps entries in arrays that `wait()` does
  not clean up and `allocproc()` appends to without looking.
* **Crashes.**  The machine may stop between any two block writes of `commit()`
  and of recovery.
* **Inodes that go away.**  A name is looked up under one lock and used under
  another; `iput()` tests, frees and counts down in three sections.
* **Locks of two inodes.**  Calls lock a directory and an entry of it, and
  `iput()` locks an inode again while its caller holds another.
* **Running out.**  Memory, descriptors, files and pipes may be exhausted in the
  middle of a call that has got some of what it needs.
* **Arithmetic at the edge.**  Sizes that are no multiple of a page, sums that
  wrap at 2^32, ring indices that overflow.
* **Interrupt masking.**  `pushcli()` counts per CPU, while a process that holds
  `ptable.lock` leaves the CPU to another one.

PROJECT.json lists the hazards with the line at which each one bites.

## Modules

| module | what it is |
|---|---|
| `Proc` | process table, scheduler hand-over and trap, any number of CPUs, any policy |
| `ProcProofs` | the inductive invariant of `Proc` and its proof |
| `MCProc` | symmetry for TLC |
| `Sched` | the DEFAULT, FCFS and PBS scans |
| `SchedTurns` | `Sched` with a history variable: who had a turn while a process waited |
| `SchedProofs` | the proofs about `Sched` and `SchedTurns` |
| `Mlfq`, `MCMlfq` | the multilevel feedback queue, one CPU |
| `MlfqProofs` | the proofs about `Mlfq` |
| `Processes` | the processes, a constant that the layers of the file system share |
| `AtomicDisk` | what the log promises: a disk that changes atomically |
| `Log`, `MCLog` | the log, implementing `AtomicDisk` |
| `BlockStore` | what the buffer cache promises: blocks as variables, used by one process at a time |
| `Bcache` | buffer cache, sleep locks and disk driver, implementing `BlockStore` |
| `Fifo` | what a pipe promises: a bounded queue of bytes |
| `Pipe`, `MCPipe` | a pipe shared by several processes, implementing `Fifo` |
| `PipeProofs` | the proofs about `Pipe` and that it implements `Fifo` |
| `SysFile`, `MCSysFile` | inode cache, directories and the system calls on names, a step per lock |
| `Inode` | the contents of inodes: bitmap, blocks, direct and indirect addresses, as operators |
| `Streams` | what files promise: sequences of words, and places in them that descriptors share |
| `File`, `MCFile` | file table and descriptors above `Inode`, implementing `Streams` |
| `FsProofs` | the proofs about `Log` and `SysFile`, and that `Log` implements `AtomicDisk` |
| `BlockProofs` | the proofs about `Bcache` and `File`, and that they implement `BlockStore` and `Streams` |
| `Vm`, `MCVm` | physical pages, address spaces, exec, sbrk, and the checks of arguments |
| `VmProofs` | the proofs about `Vm` |
| `Spinlock` | spin locks and the masking of interrupts, as steps of a CPU |
| `LineInput` | what the console promises: a line editor of bounded size |
| `Console`, `MCConsole` | console, scheduler and interrupts above `Spinlock`, implementing `LineInput` |
| `ConsoleProofs` | the proofs about `Console` and `Spinlock`, and that `Console` implements `LineInput` |

Operators whose name starts with `Bad` are faulty variants of the operator that
follows them (a dropped guard, a missing wake-up).  Nothing uses them; each
property of a passing run is violated when one of them takes the place of the
original, and PROJECT.json says which.

### Proc

`state`, `pid`, `parent`, `chan`, `killed` are the fields of `struct proc`;
`kstack[s]` says whether the slot owns a kernel stack; `lock` is the CPU that
holds `ptable.lock`; `cpuproc` is `c->proc`; `cpc[c]` says whether CPU `c` is in
`scheduler()` (before, in or after the scan) or runs its process; `pc[s]` says
where process `s` is; `np[s]` is the slot its `fork()` is filling.

A critical section without a context switch is one action.  A section that ends
in `sched()` leaves the lock with the CPU: `yield`, `sleep`, `WaitSleep` and
`exit` end in control "swtch", then `SchedBack` clears `c->proc`, the scan goes
on (`Dispatch`) or ends (`SchedRelease`), and a dispatched process releases the
lock in `Resume` or goes on with the scan of `wait()` under the inherited lock.
`fork()` is two sections with the lock free between them (`allocproc`, `fork`)
or ends in `ForkFail`, which gives the slot back without the lock, as the code
does.  `np->parent = curproc`, which `fork()` assigns without the lock, is part of
the second section: until then `np` is an EMBRYO of this `fork()`, whose parent
nobody looks at.  `kill` looks for the pid only, not for the state, as the code
does.

The policy is left open (any RUNNABLE slot), so what holds here holds for all
four builds, with one exception: PBS leaves `c->proc` set when it breaks out of
its scan.  `Sched` models that (`Back`).

Left out: address spaces, open files, registers, and the statistics fields.

Assumptions: `KillPids` does not contain 1 (a killed init makes `exit()` panic
by design), and init never calls `exit()` and does not fault.

### Sched and SchedTurns

One action per piece of `scheduler()` between two context switches: `Acquire`
(with the first loop of PBS, which computes `mxprt`), `Dispatch` (the scan up to
the first slot it stops at), `Back` (what follows `swtch()`: the second look of
PBS with `mx2`, `c->proc = 0`, the end of FCFS) and `Release`.  `Tick` is the
clock branch of `trap()`; PBS decides in `check_priority()`, releases the lock
and only then calls `yield()`, so `yield` is a second action.  The interrupt may
also come in the idle loop of `scheduler()`.  `trap()` takes `c->proc` for the
process it interrupted; there is none in the idle loop, but the `break` of PBS
leaves one (`Back`), and when another CPU runs it the idle loop makes it yield
(control "stray", then "lost", after which the model says nothing of that CPU).
`policy` is the build flag, chosen once in `Init`.  `MXPRT` and `MX2` stand for the
constants 200 and 101, scaled down.  Priorities given by `fork()` (pid/2) and by
`set_priority()` are any member of `Prios`; init's, 60, is below `MX2`.

### Mlfq

`queue[l]` holds the entries of `q<l>`.  A clock interrupt is one action, since
it runs with interrupts off on the only CPU: `ticks++`, `wakeup(&ticks)` (a set
`W` of the sleepers), `aging()` over the table, then demotion (`TickSlice`),
preemption or nothing (`TickInSlice`), or the exit of a killed process
(`TickKilled`).  The searches keep what the code does when nothing is found
(position 1 here, entry 0 there), and demotion from level 0 keeps the last
match, the others the first.

### Log and AtomicDisk

`home`, `hdr` and `logd` are the disk; `cache` is what `bread()` returns.  The
sections of `log.lock` are one action each.  `log_write()` is two actions, since
it looks at `log.lh.n` before it takes the lock: `log_write`, with the change of the
buffer and the test, and `log_append`; between them the process has the buffer
locked (`appending`).  `commit()` is one action per block written.  A transaction
that is longer than the log is written on into `Behind`, the home block that
follows the log on the disk.  `Crash` may happen in every state, recovery included.  `AtomicDisk`
is a disk whose durable contents change in one step while no call is active.
The refinement maps its `disk` to what recovery would make of the present disk,
`mem` to the cache (to the recovered disk during recovery) and `active` to
`outstanding`.  `Atomic` asks for a step of `AtomicDisk` whenever the transaction
fits in the log (`WithinLog`); that it always fits is not so, see `LogOverrun.cfg`.

### Bcache and BlockStore

The sections of `bcache.lock`, of `idelock` and of the spin lock in a sleep lock
are one action each: `bget_cached`, `bget_recycle` or `bget_panic`, then
`acquiresleep` (again after each wake-up), then `bread`, which calls `iderw` if
the buffer is not valid.  `Change` is a caller's write to `b->data`; it must be
followed by `log_write` (only its effect on the buffer, B_DIRTY) or `bwrite`,
the rule the callers in `fs.c` and `log.c` keep.  `brelse` is two sections.
`sent` is what `idestart()` handed to the disk; it becomes durable at the
interrupt.  `kill` wakes a sleeper at any time, which the `while` loops must
survive.  Blocks have one content in `BlockStore`: that of the valid buffer, or
that of the disk.  Left out: several buffers per process, read errors.

### Pipe and Fifo

`data`, `nread`, `nwrite`, `readopen`, `writeopen` are the fields of `struct
pipe`; the counters wrap at `Wrap` (2^32 in the code).  `p->lock` is held from
the beginning of a call, or from a wake-up, to the return or to the next sleep,
and each such stretch is one action (`WriteEnd`, `WriteFail`, `WriteSleep`,
`ReadEmpty`, `ReadEnd`), except at its end: `kill()` does not take the lock, so
it may come between the test of `p->killed` and `sleep()` (control "tosleep").
A process killed there sleeps on until the other side moves; the model has this
behaviour and no property denies it.  `pipeclose` includes the `close()` of a
descriptor that is not the last of its end.  `Fifo` has a queue, the bytes each
writer has still to put in, and what each reader got last.

A writer that is killed and then fills the pipe returns -1 without
`wakeup(&p->nread)`: a reader that was asleep sleeps on although there are bytes
to read, until another writer writes or closes.  `SleepJustified` names this
exception.

### SysFile

`dinode` and `dir` are the disk as `log_write()` has been told; `inum`, `ref`,
`valid`, `inode` and `owner` are the entries of the inode cache with their sleep
locks; `cwd` and `file` are the references a process keeps between calls;
`st[p]` is the call process `p` is in: where it is, the rest of the path, and
the variables `dp` and `ip`.  A stretch between two acquisitions of an inode's
lock, or of `icache.lock` in `iput()`, is one action, so other processes come
in wherever they can in the code.  `namex()` is a loop of `NamexLock` and
`NamexStep`; `iput()` is `IputLock`, which looks at `nlink` and `ref`, `IputFree`,
`IputUnlock` and `IputDec`, and returns to where its caller goes on.  `create()`
(used by `open(O_CREATE)`, `mkdir` and `mknod`), `unlink`, `link`, `open`,
`chdir` and `close` have an action for each of their stretches, the failing
paths included.  The second path of `link()` may start at the root or at the
current directory.  The calls of each process are a parameter.  A panic is a place
a process stops at; `iget()` with a full cache and `ialloc()` with no free inode
stop the machine and are not taken.  Sizes, data, device numbers and the log are
left out.  Sleep locks are taken when they are free (their wake-ups are in
`Bcache`).

### Inode, File and Streams

`Inode` has the functions of `fs.c` that handle contents, as operators from one
file system (bitmap, blocks, inodes on the disk and in memory) to the next.  A
block that is free holds `Junk`, numbers of blocks, as a block that served as an
indirect one may: a `balloc()` that did not clear it would show.  The loops of
`readi()` and `writei()` over blocks are recursive functions of the turn.  A
write for which the disk has no room (`Room`) takes no step, as `balloc()`
panics; until it is tried, another process may free blocks.  `File` adds
`ftable`, `ofile`, pipes by their two ends, and processes that fork and exit
(`Exit`, then `ExitClose` for one descriptor after the other).
An action is what runs under `ftable.lock` or under one lock of an inode: a
`fileclose()` first frees the entry and then, in a later step taken from
`work[p]`, lets the inode or the pipe go, and a long write is one action per
chunk of `filewrite()`.  `pipe()` has each of its failures.  There is one name;
paths and the steps inside `iput()` are in `SysFile`.  Every file is opened for
reading and writing: the mode given to `open()` and the refusals of `fileread()` and
`filewrite()` are left out, which only adds behaviours.  `Streams` has files as
sequences of words, places in them that several descriptors may share, and
reads and writes that move a place.

### Vm

An address space belongs to one process, and other processes can only take the
pages that a call needs, so a call is one action and `kalloc()` fails after any
number of successes (`k`).  The state of a call under way is a record that the
operators, named as the functions of `vm.c`, pass on: the free pages, the address
space, the last page got, and whether it has failed or hit a panic.  Numbers are
those of a small machine: `Wrap` stands for 2^32, `KERNBASE` is half of it.
`setupkvm` makes the page tables in `KTables`, those that `kmap[]` needs; between the
memory and the devices of the kernel's half is a hole without tables.
The loops over pages, tables and program headers are recursive functions of the
turn.  The machine starts if there is memory for the first process (`Start.ok`;
else `userinit()` panics).
`exec` takes the program headers from a set of files, among them such as it must
refuse, and arguments of any length that fits on the stack page and in the memory of
the caller (`ArgSizes`).  `sp` is unsigned and wraps (`Sp`), so `copyout()` may begin
below the stack page, among the devices or in the hole.  There `uva2ka()` reads the
page table entry through the null pointer that `walkpgdir()` returns (`NullPte`):
the word at address 0 of the caller is taken for it, and `copyout()` fails or writes
to the page that the word names.  Which of the two is a free choice (`Strays`);
after a stray write nothing is known of memory, and the model ends.  `growproc`
takes every integer of the machine; `fork` starts with the kernel stack.  A process whose first page is gone cannot make calls any more
(`Runs`).

### Spinlock, Console and LineInput

`Spinlock` has the interrupt flag, `ncli` and `intena` of each CPU; `acquire()`
is two steps, `pushcli()` with the test for a lock already held, and the
successful exchange.  In `Console` a CPU runs its scheduler or a process, and
the handler of an interrupt on top of it; an action is a step of what is on top.
The scheduler prints the name of the process it has chosen, with `ptable.lock`
held, as in the code; a clock interrupt makes a process yield inside the handler,
with interrupts off, and `sched()` saves and restores `intena` (`Switch`,
`Restored`).  A clock interrupt inside a system call is left out: where it can
come the process holds no lock, and running later has the same effect.
`consoleintr()` takes one character per action.  The indices wrap at `WRAP`;
cells outside the part of the ring in use are cleared, since nobody reads them.
A killed process leaves at its next clock interrupt and a new one takes its
place.  `LineInput` has the finished lines and the line that is being edited.

## Runs

Passing:

| run | instance | shows |
|---|---|---|
| `proc` | 2 CPUs, 3 slots, pids up to 4 (slots are reused), kills of pids 0, 2, 3 | `TypeOK`, `CpuInv`, `StackSafe`, `NoMissedExit`, `Orphans`, `EmbryoOwned` |
| `proc_live` | 1 CPU, 3 slots, fair | `KilledExits`, `OrphansReaped` |
| `mlfq` | 2 slots, 3 levels, `time_age` 3, a slot taken up to 3 times, fair | `InOwnQueue`, `OneEntry` (which bounds every queue but `q0`), `StrictPriority`, `ReadyRuns` |
| `sched` | 1 CPU, 3 slots, 3 priorities, one of them above the limit of PBS, all three policies, fair | `RoundRobin` (DEFAULT), `BestFirst` (FCFS by age, PBS by priority), `Preemptive` (PBS), `NeverIdle` (for PBS with priorities up to the limit) |
| `log` | 3 processes, 4 blocks, 2 contents, calls of 1 block, a log of 3 blocks with its header | `NoMissedWakeup`, `Reservation`, refinement of `AtomicDisk` where the transaction fits (`Atomic`) |
| `bcache` | 2 processes, 2 buffers, 3 blocks, 2 contents, fair disk | `RefcntExact`, `NoMissedWakeup`, `IoEnds`, refinement of `BlockStore` (`Transparent`) |
| `pipe` | 1 reader, 2 writers, a ring of 2 bytes, counters modulo 4, messages of 1 and 3 bytes, fair | `SleepJustified`, `ClosedEnds`, refinement of `Fifo` (`IsFifo`) |
| `sysfile` | 2 processes, 3 inodes, 3 cache entries, 2 names; one makes and links, the other removes and opens | `RefExact`, `CacheCoherent`, `NlinkCovers`, `NamesSafe` (no panic on paths without `..`) |
| `file` | 2 processes, 2 inodes, 7 blocks of 2 words, 1 direct and 2 indirect addresses, 3 files, 2 descriptors, 1 pipe | `RefsExact`, `BlocksOwned`, refinement of `Streams` (`IsStreams`) |
| `vm` | 2 processes, 20 pages of 2 bytes, 32 addresses, page tables of 2 entries, 11 executables | `FramesOwned`, `NoPanic`, `AcceptedMapped`, `FailureUndone` |
| `console` | 1 CPU, 2 processes, a ring of 3, indices modulo 6 | `CliMatched`, `SleepJustified`, refinement of `LineInput` (`IsLineInput`) |

One run in which the code disagrees with what the repository says of it:

| run | property | what happens |
|---|---|---|
| `sysfile_deadlock` | `NoCircularWait` | `create()` has the new inode locked when `iunlockput(dp)` comes to lock the directory again in `iput()`; a process that has locked the directory and waits for the new inode waits for ever (`sysfile.c:280`, `fs.c:334`), while `fs.c:149` says that the separation of `iget()` and `ilock()` helps avoid deadlock |

### Counterexamples

Where the code does not keep what one would expect of it, a property of a passing
run that depends on it names the exception, and a configuration of its own shows
what happens: TLC reports the property below as violated, in seconds.

| configuration, module | property | what happens |
|---|---|---|
| `ProcBorn.cfg`, `MCProc` | `BornAlive` | `kill()` compares pids without looking at the state (`proc.c:1128`): pid 0, or the pid of a fork that failed, marks a free slot, and `allocproc()` does not clear `killed`; the next process of the slot is born killed, while `proc.c:1120` says "Kill the process with the given pid" |
| `SchedIdle.cfg`, `Sched` | `WorkConserving` | PBS looks for the best priority from 200 downwards (`proc.c:760`): a process above (pid/2 from pid 402 on, or by `set_priority`) is never chosen though the CPU is idle; `proc.c:682` says "choose a process to run" |
| `SchedStray.cfg`, `Sched` | `Executed` | two CPUs: the `break` of PBS (`proc.c:798`) skips `c->proc = 0`, and a clock interrupt of the idle loop gives up a process that the other CPU executes; `proc.h:11` says "The process running on this cpu or null" |
| `LogPanic.cfg`, `MCLog` | `LogNoPanic` | `mkfs` makes the log LOGSIZE blocks with its header (`mkfs.c:25`), so `log_write()` panics at LOGSIZE-1 (`log.c:218`), while `begin_op()` counts on LOGSIZE data blocks, as `param.h:11` says |
| `LogOverrun.cfg`, `MCLog` | `WithinLog` | two calls pass the test of `log_write()`, made without the lock (`log.c:218`), when one data block is left: `write_log()` goes on into the first block of inodes (`mkfs.c:102`) |
| `SysFileDotdot.cfg`, `MCSysFile` | `NoPanic` | a process stands in a directory that is removed together with its parent: `..` names the freed inode, and `ilock()` panics (`fs.c:309`), while `fs.c:150` says that what `iget()` returns remains valid |
| `VmStray.cfg`, `MCVm` | `CopyoutOwn` | an argument of `exec()` longer than the new image and the device space together makes `sp` wrap (`exec.c:75`) into the hole of `kmap[]`, and `uva2ka()` dereferences a null pointer (`vm.c:355`); `vm.c:364` says that it "ensures this only works for PTE_U pages" |
| `ConsoleDeadlock.cfg`, `MCConsole` | `NoLockCycle` | two CPUs: a scheduler prints with `ptable.lock` held (`proc.c:710`, `747`, `782`, `822`), and `consoleintr()` and `consoleread()` take `ptable.lock` with `cons.lock` held; `spinlock.c:21` says that `acquire()` spins "until the lock is acquired" |

### Bounds

*Proc.*  Three slots are init, a parent and a child; pids up to 4 let a slot be
taken again after a reap.  A zombie that reaches an init which its exiting
parent does not wake anyway needs a fourth slot (a grandparent); an instance
with four slots takes TLC several minutes, and the case is covered by the
theorem `ExitsNoticed`, which holds for every size.  Two CPUs are
enough for every pair of racing sections, as every property relates at most two
processes and the lock.  *Mlfq.*  Three levels have a first, an inner and a last
one, which is what the code distinguishes; a slot taken three times leaves two
stale entries; with three slots the run does not finish in minutes.  *Sched.*
Priority 0 lies below `MX2`=2, 3 lies above it and is `MXPRT`, and 4 lies
above that, where the search of PBS does not find it; `ctime` takes two values,
which is enough to order two processes against their slots.  *Bcache.*  Three blocks compete for two buffers, so
buffers are recycled, and two processes can both be in the disk queue, wait for
one buffer, and find both buffers pinned (the panic, which is why this run does
not check for deadlock: a panicked machine stops).  *Pipe.*  A message longer
than the ring makes a writer sleep in the middle, two writers are woken at once
by the one reader, and the counters wrap after two rounds; two readers with one
writer have been checked as well.  *Log.*  LOGSIZE is three
times MAXOPBLOCKS, as in `param.h`: three calls are admitted, and one that comes back
while the others are still at work must wait; two can pass the test for the last data
block together.  Calls of two blocks in a log of four, with three processes (2.4
million states) and with two, have been checked as well.  *SysFile.*  The root, one directory or file and
one thing in it, all with entries in the cache; two processes are enough for a
race of two calls, and inodes are freed and allocated again.  Deadlock is not
checked here, since two calls may wait for each other (`sysfile_deadlock`).
*File.*  A file has a direct block, an indirect one, and two behind it; a write
of 5 words is three chunks, ends inside a block, and a second one meets the
limit of 6 words; files, descriptors and, with two files of full size, blocks
run out (the panic, which is why this run does not check for deadlock).  `Programs` splits the calls
into three mixes: contents, a shared offset, and descriptors.  *Vm.*  Four user
page tables, two of the kernel at the ends of its half, and two in the hole between
them; enough memory for one process and a copy, and every call may find any smaller
amount; sizes are not rounded, so every offset in a page occurs; an argument of
`exec()` may be a stack page longer than the caller, which takes `sp` through the
device space into the hole.  Deadlock is not checked, since the model ends after a
stray write.  *Console.*  The ring fills, the indices wrap after two rounds,
and both processes may wait for one line.  One CPU is what the Makefile starts
(`CPUS := 1`); with two, two locks are taken in opposite orders
(`ConsoleDeadlock.cfg`).

### Fairness

`Proc` (one CPU): the scheduler and a process that holds `ptable.lock` keep
going (weak); the clock interrupt makes a running process yield (weak); the scan
of the table reaches a RUNNABLE slot that is offered again and again, as DEFAULT
does (strong); a killed process that is on the CPU again and again gets on with
leaving the kernel (strong); init's loop in `init.c` calls `wait()` for ever;
the events slept for (disk, ticks) come.  `Sched`: scheduler, clock and the
yield that follows are weakly fair.  `Bcache`: the disk answers (weak), and a
process that is woken in `iderw()` runs, even if `kill()` interferes (strong).  `Mlfq`: the scheduler dispatches (weak),
and a process cannot for ever leave the CPU between two clock interrupts
(strong on the tick that meets a process).  `Pipe`: a
process that is awake in a call gets on with it (weak).  `Log`, `SysFile`, `File`, `Vm` and `Console`
have safety properties and no fairness.

## Proofs

Everything below is proved for every value of the constants that satisfies the
named assumption of the module (`ProcAssumption`, `LogAssumption` and so on;
TLC evaluates them in the runs).  The assumptions say what the code's own
constants satisfy: sizes are not zero, special values such as `NULL` are no
members of the other sets, the size of a ring divides the range of its unsigned
indices, a call writes no more than the log holds.

| module | theorems (property) |
|---|---|
| `ProcProofs` | `TypeCorrect` (`TypeOK`), `HandOver` (`CpuInv`), `StacksInUse` (`StackSafe`), `OneForkPerEmbryo` (`EmbryoOwned`), `ParentsAlive` (`Orphans`), `ExitsNoticed` (`NoMissedExit`), `InitNeverExits` |
| `FsProofs`: log | `ReservationHolds` (`Reservation`), `WakeupsComplete` (`NoMissedWakeup`), `CommitAlone`, `LogIsAtomic` (`Atomic`), `RoomyLogSuffices` (`WithinLog`, for a larger log), `RoomyLogIsAtomic` |
| `FsProofs`: inode cache | `SysFileInvariant`, `SysFileRefExact` (`RefExact`), `SysFileLocking`, `SysFileCacheCoherent` (`CacheCoherent`) |
| `BlockProofs`: file table and blocks | `FileInvariant`, `FileRefsExact` (`RefsExact`), `FileDiskInvariant`, `FileBlocksOwned` (`BlocksOwned`), `FileImplementsStreams` (`IsStreams`) |
| `VmProofs` | `VmInvariant`, `VmFramesOwned` (`FramesOwned`), `VmNoPanic` (`NoPanic`), `VmAcceptedMapped` (`AcceptedMapped`), `VmFailureUndone` (`FailureUndone`) |
| `BlockProofs`: buffers | `RefcntsExact` (`RefcntExact`), `WakeupsComplete` (`NoMissedWakeup`), `CacheIsTransparent` (`Transparent`) |
| `PipeProofs` | `SleepersJustified` (`SleepJustified`), `PipeIsFifo` (`IsFifo`) |
| `SchedProofs` | `BestFirstHolds` (`BestFirst`), `RoundRobinHolds` (`RoundRobin`, one CPU), `LeftOverHarmless` (`Executed`, one CPU) |
| `MlfqProofs` | `AlwaysQueued` (`InOwnQueue`), `EntriesUnique` (`OneEntry`), `HighestLevelFirst` (`StrictPriority`) |
| `ConsoleProofs` | `MaskingMatched` (`CliMatched`), `SleepersJustified` (`SleepJustified`), `ConsoleIsLineInput` (`IsLineInput`) |

Each module has an inductive invariant `IInv`, a lemma per action that says the
action keeps it, the theorem `Invariance`, and the results read off from there.
`TypeCorrect` of `FsProofs`, `BlockProofs` and `PipeProofs` is about the type
invariant that is part of `IInv`.  `FsProofs` and `BlockProofs` extend two layers
of the file system each, which is why `SysFile` and `File` have names of their own
for what other modules call `Init`, `Next` and `Spec`.

### Proc

None of the six properties is inductive alone.  `IInv` is their conjunction with

* `LiveStack`: a process that exists has a stack (else `Dispatch` could switch
  to none);
* `ZombieInExit`: a zombie is past any `fork()` (else reaping it would leave an
  embryo without owner);
* `InitAlive`: init is there, is not killed and is not on its way to `exit()`
  (else the orphans have no heir);
* `NotOwnParent`: else `exit()` could make a zombie a child of init without
  waking it;
* `WaitChan`: who sleeps in `wait()` sleeps on itself, the channel that `exit()`
  uses.

The arguments that carry weight: a process taken up by `Dispatch` is on no CPU,
since a CPU still switching away from it would hold the lock; a zombie reaped by
`WaitReap` is on no CPU for the same reason; in `exit`, a process asleep in
`wait()` that gets a new zombie child is the parent of the exiting process or
init, and both are woken.

### Log

`IInv` adds what each phase of `commit()` and of the recovery knows: `Control`
(`outstanding` counts the calls, none while `commit()` runs), `Header` (the
header on the disk lists a transaction only while it is installed), `Clean` (a
block outside the log is the same in the cache and at home), `Copied` (how far
`write_log()` and `install_trans()` have come), `Wrote` (what a call has written
is in the log) and `Compact` (no block twice).  With these every step of `Log`
is a step of `AtomicDisk` or changes nothing of it, as long as the transaction fits
in the log: the commit point is the write of the header, and installing, crashing
and recovering are invisible.  `CommitAlone` says how far a transaction that does
not fit can go: one block past the log, since it never exceeds `LOGSIZE` entries.

`Reservation` needs a count: a call that writes a block absorbed by the log gives
up one of its blocks without the log growing, a new block moves one from the
reserved to the used ones.  A call between the test and the append has reserved the
block it holds.  So it is the reservation, not the test of `log_write()`, that
bounds the transaction, and the bound is `LOGSIZE`.  With the log that `mkfs` makes,
`LogBlocks = LOGSIZE`, this is one block too many (`LogPanic.cfg`,
`LogOverrun.cfg`);
`RoomyLogSuffices` and `RoomyLogIsAtomic` show that under `LOGSIZE < LogBlocks` the
transaction always fits and `Log` implements `AtomicDisk` without exception.

### SysFile

`RefExact` counts, for an entry of the inode cache, the current directories, the
open files and the variables `dp`, `ip` and `put` of calls in progress that have
it.  The variables of a call keep their value from step to step, so the invariant
`RefInv` says of each label which of them hold a reference there and which are 0
(`Tidy`: `NoDp`, `NoIp`, and what remains after `iput()`), so that no assignment
overwrites a reference; that an inode has one entry (`Unique`; `iget()` takes a
free entry only when it found none); and that the counts are exact (`Counted`).  A step of a process
moves references between its own variables, and the lemma on such steps reduces
`Counted` to one equation per entry about that process (`Balanced`), which each of
the 27 actions is shown to satisfy.  Nothing is assumed of `Calls`: the theorem
covers the paths whose use of `..` leads to the panic of `SysFileDotdot.cfg`.

`CacheCoherent` follows from `CohInv`, on top of `RefInv`.  It says of each label
which of `dp`, `ip` and `put` are set (`Given`) and which of them the process has
locked (`Locks`): entries that are valid and differ from each other, also where
`create()` and `unlink()` lock a directory and an inode in it.  What a process has
locked is not being freed by another one, so it agrees with the disk (lemma
`LockedCopy`).  `Spared` says that `iput()` frees nobody's file or directory: it
saw `ref` 1, which by `RefInv` is its own reference.  The steps fall into four
kinds with a lemma each: those that only get or give up a reference
(`FetchStep`), `ilock()` with the read from the disk (`LockCoherent`), a change of
`nlink` followed by `iupdate()` (`NlinkCoherent`), and the two halves of freeing
(`FreeCoherent`); `ialloc()` remains, which may take an inode whose old entry
another `iput()` has not yet let go.  The entry that an `iput()` has written as
free and not yet marked invalid is exempt from agreeing, and so is one whose
`ilock()` found a free inode: `ilock()` sets `valid` before it panics
(`fs.c:308`-`310`), and after a panic nothing uses the copy.

### File

`FileInv` counts what refers to each resource: to a file the descriptors and the
`fileclose()` still to come, to an inode the files and the `iput()` to come, to an
end of a pipe the file that has it and the `pipeclose()` to come.  `RefsExact`
has one equation for both ends of a pipe, which is not inductive: closing the
write end twice would keep the sum.  The invariant has an equation for each end.
The rest is the type of a table entry (a free one has type FD_NONE, so that a
`fileclose()` of a file that `filealloc()` gave and nobody used gives back
nothing else) and of a work list (at most two items).  The lemma `FileBalanced`
reduces a step of one process to three balances; `fork()` needs that the number
of descriptors of the child is that of the parent, file by file.

`BlocksOwned` needs to know where the numbers of blocks are.  `Solid` says that
the disk is laid out by the sizes of its inodes: the first places of each one, as
many as its size takes (the direct ones, the indirect block, then the words in
it), have numbers of blocks in use, all different over all inodes, and the other
places are 0.  `DiskInv` adds that an inode with references is allocated and has a
good copy in memory, that a free inode is `NoInode`, and that at most one inode
has the name; `BusyInv` that a `filewrite()` between two chunks still has its file
open, so that nobody has freed or reused it.  During a call the layout is not
`Solid`: `bmap()` has put a block into the inode in memory, but `iupdate()` has not
written it.  `Fits` says it with the addresses in memory for the inode that is
locked and those of the disk for the others, and with a count of places of its
own; `bmap()` takes it from n blocks to n + 1, by one `balloc()` or two (`BmapIs`),
a turn of `writei()` keeps it together with what has been written so far
(`Stored`, `TurnIs`), and `WrittenIs` goes over the turns.  There the recursive
function is shown to exist, and induction over its turns is done with a least
number for which the claim fails.  `Room` is what each `balloc()` on the way needs
(`RoomIs`): blocks in use are as many as places taken.  `itrunc()` frees exactly
the blocks of the inode (`FreedIs`).  No assumption relates the size of the disk
to that of the files.

That `File` implements `Streams` rests on the same invariant.  The contents of a
file are the words at the ends of its places (`ContentIs`); a write changes those
from the offset on and no other file (`WordsPut`), reads and closes change none,
a new inode is empty, and the last `iput()` of an inode without a name removes the
file.  Each action has a lemma `Sim...` that makes it a step of `Streams` or one
that `Streams` does not see: the second half of a `fileclose()`, a failed call,
`iput()` of a file that still has a name or another reference.

### Vm

`VmInv` consists of `MemOK` (pages in use are different from each other and from
the free ones, and none is lost), `Living` (a process that exists has a
stack and a directory, an unused slot nothing), `Sized` (`sz` is below `KERNBASE`
and the pages mapped are those below it, as long as the process can run) and `NoPanic`.  Each operator has a lemma that says what it does to the record of a
call: which pages it takes, that a failing one has given back what it took, and
that it does not panic on a range that is empty or mapped, as `Sized` provides.  The loops are recursive functions of the turn; a turn at which the
lemma fails would have a least one (`LeastNumber`), which the step before it
contradicts.  `FailureUndone` follows since a failed call ends with the free pages
it began with.  It names the two exceptions of the code: `sbrk()` of exactly minus the
size, which takes away the caller's pages and no others, and an `exec()` whose
`copyout()` followed a null entry.  The other theorems hold of the states after such a
write in the sense that page tables and free list are what the calls made of them; what
the write destroys is outside the model.

### Bcache

`IInv` adds `Using` and `Locks` (who has which buffer, and where in the code),
`OneBuffer` (a block is in one buffer at most, else two processes would write two
copies), `Flags`, `Queue` (one entry of `idequeue` per request that is not
finished), `Sent` (what the disk works on is the head) and `Coherent` (a buffer
that is neither dirty nor just changed shows what is on the disk).  The order of
the list of buffers plays no part: `bget()` checks the buffer it takes.

### Pipe

`IInv` adds `RingOK` (the ring is never more than full) and `EndsOK` (an end is
open as long as a process has it, and a process in a call has it open).
`nread` and `nwrite` are remainders; the proof uses `Distance` and the other
lemmas on remainders to show that the slots in use are different as long as
`PIPESIZE` divides `Wrap`, which is why the assumption is there.

### Sched

`BestFirst` needs that nobody becomes better than `mxprt` while PBS scans
(`BestKnown`), which holds since the scan keeps `ptable.lock` and, back from the
process it ran, starts again if a better one is RUNNABLE.  `RoundRobin` needs to know where the scan is
relative to the waiting process and to those that had a turn (`Turn`).  It is
proved under the hypothesis `OneCPU`, the instance that `Sched.cfg` checks, and
is false with more: every CPU scans the table from a place of its own.
`LeftOverHarmless` has the same hypothesis: what PBS leaves in `c->proc` is not
RUNNING while the only CPU is idle, so `trap()` ignores it.  With two CPUs it is
false (`SchedStray.cfg`).

### Mlfq

`InOwnQueue` and `OneEntry` are parts of `Keeps`, a relation of queues, levels
and slots that also says that a slot never taken has no entry.  `Keeps` is shown
for every iteration of `aging()`.  The loop is a recursive function of the slot
number; the iterations at which `Keeps` fails would have a least number
(`LeastNumber`), which one iteration contradicts.  This takes the place of
induction, and nothing has to be known of what the loop computes.

### Console

`IInv` says for every CPU (`CpuOK`) what the label of the thread on top of it
says: which locks it holds, that `ncli` is the number of locks held or awaited,
when interrupts are on, and what `intena` will restore; further that a process
runs on one CPU or is where `sched()` left it, with a saved `intena` that is
true if it slept in a system call (`OnOK`), that what the scheduler has chosen
stays RUNNABLE while it prints (`NextOK`), and that nothing is there to read for
a process on its way to sleep (`DryOK`).  The theorems hold for any number of
CPUs; the opposite lock orders of `consoleintr()` and the schedulers
(`ConsoleDeadlock.cfg`) are not excluded by them.

The refinement of `LineInput` rests on `RingOK`, which does not depend on locks:
`r`, `w` and `e` follow each other within `INPUT_BUF`, and no newline is in the
line being typed, so ^U, which stops at a newline, stops at `w`.

### Only model-checked

* Liveness, which needs fairness: `KilledExits`, `OrphansReaped`, `ReadyRuns`,
  `NeverIdle`, `Preemptive`, `IoEnds`, `ClosedEnds`.
* `NlinkCovers` and `NamesSafe` of `SysFile`.  Both speak of the order in which calls
  of several processes count and name; `NamesSafe` is stated for calls without `..`,
  and `SysFileDotdot.cfg` shows what happens otherwise.

## Not modelled

Except in `Console` a section of a spin lock is one step.  MLFQ changes its
queues in `trap()` without a lock, which on several CPUs is a race; the model has
one CPU, the Makefile's default.  Start-up code, interrupt controllers,
descriptor tables (`seginit`, `switchuvm`), device registers, keyboard and serial
port, and `memide.c` are hardware detail.  `umalloc.c`, the shell and the user
programs are sequential clients of the kernel, and the tests were read for what
they expect.  `mkfs.c` is modelled by the size it gives to the log only.

### Met while reading, without a run

Where code and comments part, or where a property above has an exception:

* `allocproc()` appends a slot to `q0` although an entry of its previous process
  may still be there (`proc.c:327`); demotion removes one entry only, so the
  process keeps being run from level 0 and those behind it starve, against
  README.md:13 and README.md:15.  `StrictPriority` and `ReadyRuns` are therefore
  stated for tables without reuse.
* `mx2` of PBS starts at 101 (`proc.c:789`), so between priorities 101 and 200 the scan restarts
  after every turn.
* The scan of PBS restarts from the first slot whenever a better process became
  ready (`proc.c:797`), so among equals the lowest slot gets turn after turn,
  while README.md:22 says that they follow round robin.
* Two processes in `iput()` of an inode without links may each see the other's
  reference (`fs.c:335`-`339`): neither frees it, against the comment in
  `fs.c:327`.  `CacheCoherent` speaks of what is in use, not of this leak.
* `link(f, ".")` locks the current directory, and `dirlink()` finds `.` there and
  calls `iput()` of the same directory (`fs.c:560`), which waits for a lock its
  own process holds.
* `create()` in a directory that was removed after `nameiparent()` makes a name
  that nobody can find.
* `growproc()` of minus the whole size removes every page and then takes the 0
  of `deallocuvm()` for a failure (`proc.c:409`): it returns -1 and leaves `sz`.
  `FailureUndone` names the exception.
* `wait()` returns the variable `pid`, which it never assigns (`proc.c:540`,
  `proc.c:562`; the build in `kernel.asm` returns -1), although its comment says
  "return its pid".
* REPORT.md:21 says that a process that returns from I/O goes to the tail of its
  queue, but `wakeup1()` does not touch the queues; the waiting time reported by
  `waitx()` includes time asleep.

## Plan

1. done: `Proc`, `Sched`, `Mlfq`, `Log` with `AtomicDisk`, `Bcache` with
   `BlockStore`, `Pipe` with `Fifo`; proofs for `Proc`.
2. done: `SysFile`, `Inode` and `File` with `Streams`, `Vm`, `Spinlock` and
   `Console` with `LineInput`.
3. done: proofs about `Log`, `Bcache`, `Pipe`, `Sched`, `Mlfq` and `Console`, with
   the refinements of `AtomicDisk`, `BlockStore`, `Fifo` and `LineInput`.
4. done: proofs about `Vm`, of the reference counts of `SysFile` and `File`, of
   the coherence of the inode cache, of the blocks of the inodes, and the
   refinement of `Streams`.
