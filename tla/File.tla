-------------------------------- MODULE File --------------------------------
(***************************************************************************)
(* Open files (file.c, and open, close, dup, pipe, fork and exit as far as *)
(* they hold files) above the contents of inodes (module Inode).           *)
(*                                                                         *)
(* An action is what runs under ftable.lock or under one lock of an inode. *)
(* There is one path; the directories and the steps of iput() are in       *)
(* SysFile, the bytes of a pipe in Pipe.                                   *)
(***************************************************************************)
EXTENDS Inode, Processes

CONSTANTS InitProc,
          NFILE, NOFILE,
          Pipes,           \* pages that kalloc() may give to pipes
          Value,           \* Value[p]: the word that p writes
          Sizes,           \* lengths of the reads and writes
          Programs,        \* the calls that processes make, see prog
          MaxChunk         \* words that filewrite() writes in one transaction

Files == 1..NFILE
Fds   == 0..NOFILE - 1

ASSUME FileAssumption ==
    /\ InitProc \in Procs /\ IsFiniteSet(Procs)
    /\ NFILE \in Nat /\ NOFILE \in Nat \ {0} /\ 0 \notin Pipes
    /\ Programs \subseteq [Procs -> SUBSET {"open", "create", "unlink", "close", "dup",
                                           "pipe", "fork", "exit", "read", "write"}]
    /\ Value \in [Procs -> Nat \ {0}]
    /\ Sizes \subseteq Nat /\ MaxChunk \in Nat \ {0}

VARIABLES
    fs,        \* see Inode
    iref,      \* references to an inode in the cache
    ftable,    \* ref, type, ip, off, pipe and writable of each file
    pipe,      \* readopen and writeopen of each pipe; a free one has neither
    ofile,     \* ofile[p][fd]: a file or 0
    alive,     \* the processes that exist
    work,      \* what p has yet to give back before its call returns
    wr,        \* the filewrite() that p is in: the file and the words left
    prog       \* prog[p]: the calls that p makes

fileVars == <<fs, iref, ftable, pipe, ofile, alive, work, wr, prog>>

None == [ref |-> 0, type |-> "none", ip |-> 0, off |-> 0, pipe |-> 0, writable |-> FALSE]
NoWrite == [f |-> 0, n |-> 0]

\* p is between two system calls and makes the next.
Ready(p, op) == p \in alive /\ work[p] = <<>> /\ wr[p] = NoWrite /\ op \in prog[p]

\* Items of work[p].
CloseOf(f)   == [op |-> "fileclose", x |-> f, w |-> FALSE]
IputOf(i)    == [op |-> "iput", x |-> i, w |-> FALSE]
PipeOf(x, w) == [op |-> "pipeclose", x |-> x, w |-> w]

-----------------------------------------------------------------------------
(* Helpers.  The operators named Bad... are faulty variants of the         *)
(* operator that follows them; nothing uses them.                          *)

FreeFiles == {f \in Files : ftable[f].ref = 0}
FreeFds(p) == {fd \in Fds : ofile[p][fd] = 0}

\* iget() and ilock() of inode i.
Iget(s, i) == IF iref[i] = 0 THEN [s EXCEPT !.inode[i] = s.dinode[i]] ELSE s

\* The inodes that the path names, and the one that ialloc() takes.
Named == {i \in Inums : fs.dinode[i].nlink > 0}
FreeInum == Min({i \in Inums : ~fs.dinode[i].used})

\* The table after a filedup() for every descriptor of p.
Duped(p) == [f \in Files |-> [ftable[f] EXCEPT
               !.ref = @ + Cardinality({fd \in Fds : ofile[p][fd] = f})]]

-----------------------------------------------------------------------------
(* Giving back                                                             *)

\* Faulty: the file keeps its type.
BadClosed(f) == [ftable EXCEPT ![f].ref = @ - 1]

\* The table after fileclose(f).  What a closed file holds besides its type
\* is never read, and cleared here.
Closed(f) == IF ftable[f].ref > 1 THEN [ftable EXCEPT ![f].ref = @ - 1]
             ELSE [ftable EXCEPT ![f] = None]

\* fileclose() up to the release of ftable.lock, with the copy ff.
FileClose(p) ==
    LET f == Head(work[p]).x
        ff == ftable[f]
    IN /\ work[p] # <<>> /\ Head(work[p]).op = "fileclose"
       /\ ftable' = Closed(f)
       /\ work' = [work EXCEPT ![p] =
            IF ff.ref = 1 /\ ff.type = "inode" THEN <<IputOf(ff.ip)>> \o Tail(@)
            ELSE IF ff.ref = 1 /\ ff.type = "pipe"
            THEN <<PipeOf(ff.pipe, ff.writable)>> \o Tail(@)
            ELSE Tail(@)]
       /\ UNCHANGED <<fs, iref, pipe, ofile, alive, wr>>

\* iput()
Iput(p) ==
    LET i == Head(work[p]).x
        freed == [itrunc(fs, i) EXCEPT !.inode[i] = NoInode, !.dinode[i] = NoInode]
    IN /\ work[p] # <<>> /\ Head(work[p]).op = "iput"
       /\ fs' = IF fs.inode[i].nlink = 0 /\ iref[i] = 1 THEN freed ELSE fs
       /\ iref' = [iref EXCEPT ![i] = @ - 1]
       /\ work' = [work EXCEPT ![p] = Tail(@)]
       /\ UNCHANGED <<ftable, pipe, ofile, alive, wr>>

\* pipeclose()
PipeClose(p) ==
    LET it == Head(work[p])
    IN /\ work[p] # <<>> /\ it.op = "pipeclose"
       /\ pipe' = [pipe EXCEPT ![it.x] = @ \ {IF it.w THEN "write" ELSE "read"}]
       /\ work' = [work EXCEPT ![p] = Tail(@)]
       /\ UNCHANGED <<fs, iref, ftable, ofile, alive, wr>>

-----------------------------------------------------------------------------
(* System calls                                                            *)

\* sys_open() of inode i, which s has: filealloc() and fdalloc(), or undo.
OpenFile(p, s, i) ==
    LET f == Min(FreeFiles)
    IN /\ fs' = s
       /\ iref' = [iref EXCEPT ![i] = @ + 1]
       /\ IF FreeFiles = {} \/ FreeFds(p) = {}
          THEN /\ ftable' = IF FreeFiles = {} THEN ftable ELSE [ftable EXCEPT ![f].ref = 1]
               /\ work' = [work EXCEPT ![p] = IF FreeFiles = {} THEN <<IputOf(i)>>
                                              ELSE <<CloseOf(f), IputOf(i)>>]
               /\ UNCHANGED ofile
          ELSE /\ ofile' = [ofile EXCEPT ![p][Min(FreeFds(p))] = f]
               /\ ftable' = [ftable EXCEPT ![f] = [ref |-> 1, type |-> "inode", ip |-> i,
                                                   off |-> 0, pipe |-> 0, writable |-> TRUE]]
               /\ UNCHANGED work
       /\ UNCHANGED <<pipe, alive, wr>>

Open(p) == Ready(p, "open") /\ \E i \in Named : OpenFile(p, Iget(fs, i), i)

\* open() with O_CREATE: ialloc() and the first name.  Without a free inode
\* ialloc() panics.
Create(p) ==
    LET i == FreeInum
        new == [NoInode EXCEPT !.used = TRUE, !.nlink = 1]
    IN /\ Ready(p, "create") /\ Named = {} /\ \E j \in Inums : ~fs.dinode[j].used
       /\ OpenFile(p, [fs EXCEPT !.dinode[i] = new, !.inode[i] = new], i)

\* sys_unlink()
Unlink(p) ==
    /\ Ready(p, "unlink")
    /\ \E i \in Named :
          /\ fs' = iupdate([Iget(fs, i) EXCEPT !.inode[i].nlink = 0], i)
          /\ iref' = [iref EXCEPT ![i] = @ + 1]
          /\ work' = [work EXCEPT ![p] = <<IputOf(i)>>]
    /\ UNCHANGED <<ftable, pipe, ofile, alive, wr>>

\* sys_close()
Close(p, fd) ==
    /\ Ready(p, "close") /\ ofile[p][fd] # 0
    /\ ofile' = [ofile EXCEPT ![p][fd] = 0]
    /\ work' = [work EXCEPT ![p] = <<CloseOf(ofile[p][fd])>>]
    /\ UNCHANGED <<fs, iref, ftable, pipe, alive, wr>>

\* sys_dup()
Dup(p, fd) ==
    /\ Ready(p, "dup") /\ ofile[p][fd] # 0 /\ FreeFds(p) # {}
    /\ ofile' = [ofile EXCEPT ![p][Min(FreeFds(p))] = ofile[p][fd]]
    /\ ftable' = [ftable EXCEPT ![ofile[p][fd]].ref = @ + 1]
    /\ UNCHANGED <<fs, iref, pipe, alive, work, wr>>

\* sys_pipe() with pipealloc(); kalloc() may fail.
Pipe(p) ==
    LET f0 == Min(FreeFiles)
        f1 == Min(FreeFiles \ {f0})
        d0 == Min(FreeFds(p))
        d1 == Min(FreeFds(p) \ {d0})
        free == {x \in Pipes : pipe[x] = {}}
        End(x, w) == [ref |-> 1, type |-> "pipe", ip |-> 0, off |-> 0, pipe |-> x,
                      writable |-> w]
        Undo == [work EXCEPT ![p] = <<CloseOf(f0), CloseOf(f1)>>]
    IN /\ Ready(p, "pipe") /\ FreeFiles # {}
       /\ \/ /\ Cardinality(FreeFiles) = 1
             /\ ftable' = [ftable EXCEPT ![f0].ref = 1]
             /\ work' = [work EXCEPT ![p] = <<CloseOf(f0)>>]
             /\ UNCHANGED <<pipe, ofile>>
          \/ /\ Cardinality(FreeFiles) > 1
             /\ ftable' = [ftable EXCEPT ![f0].ref = 1, ![f1].ref = 1]
             /\ work' = Undo
             /\ UNCHANGED <<pipe, ofile>>
          \/ /\ Cardinality(FreeFiles) > 1
             /\ \E x \in free :
                  /\ pipe' = [pipe EXCEPT ![x] = {"read", "write"}]
                  /\ ftable' = [ftable EXCEPT ![f0] = End(x, FALSE), ![f1] = End(x, TRUE)]
                  /\ IF Cardinality(FreeFds(p)) > 1
                     THEN /\ ofile' = [ofile EXCEPT ![p][d0] = f0, ![p][d1] = f1]
                          /\ UNCHANGED work
                     ELSE work' = Undo /\ UNCHANGED ofile
       /\ UNCHANGED <<fs, iref, alive, wr>>

\* Where fork() copies ofile[]
Fork(p, c) ==
    /\ Ready(p, "fork") /\ c \notin alive /\ work[c] = <<>> /\ FreeFds(c) = Fds
    /\ alive' = alive \cup {c}
    /\ ofile' = [ofile EXCEPT ![c] = ofile[p]]
    /\ ftable' = Duped(p)
    /\ UNCHANGED <<fs, iref, pipe, work, wr>>

\* exit(), and its loop: fileclose() of one descriptor after the other.
Exit(p) ==
    /\ Ready(p, "exit") /\ p # InitProc
    /\ alive' = alive \ {p}
    /\ UNCHANGED <<fs, iref, ftable, pipe, ofile, work, wr>>

ExitClose(p) ==
    LET fd == Min(Fds \ FreeFds(p))
    IN /\ p \notin alive /\ work[p] = <<>> /\ FreeFds(p) # Fds
       /\ ofile' = [ofile EXCEPT ![p][fd] = 0]
       /\ work' = [work EXCEPT ![p] = <<CloseOf(ofile[p][fd])>>]
       /\ UNCHANGED <<fs, iref, ftable, pipe, alive, wr>>

\* fileread() of an inode
Read(p, fd, n) ==
    LET f == ofile[p][fd]
        i == ftable[f].ip
        r == ReadLen(fs, i, ftable[f].off, n)
    IN /\ Ready(p, "read") /\ f # 0 /\ ftable[f].type = "inode"
       /\ fs' = readi(fs, i, ftable[f].off, r)
       /\ ftable' = [ftable EXCEPT ![f].off = @ + r]
       /\ UNCHANGED <<iref, pipe, ofile, alive, work, wr>>

\* Faulty: the offset does not move.
BadMoved(f, n) == ftable

\* f->off += n
Moved(f, n) == [ftable EXCEPT ![f].off = @ + n]

\* The body of filewrite()'s loop with n words left.  Without room for them
\* balloc() panics, and no step follows.
Chunk(p, f, n) ==
    LET i == ftable[f].ip
        n1 == Min({n, MaxChunk})
    IN /\ IF WriteFails(fs, i, ftable[f].off, n1)
          THEN /\ wr' = [wr EXCEPT ![p] = NoWrite]
               /\ UNCHANGED <<fs, ftable>>
          ELSE /\ Room(fs, i, ftable[f].off + n1)
               /\ fs' = writei(fs, i, ftable[f].off, n1, Value[p])
               /\ ftable' = Moved(f, n1)
               /\ wr' = [wr EXCEPT ![p] = IF n1 = n THEN NoWrite ELSE [f |-> f, n |-> n - n1]]
       /\ UNCHANGED <<iref, pipe, ofile, alive, work>>

\* filewrite() of an inode
Write(p, fd, n) ==
    /\ Ready(p, "write") /\ ofile[p][fd] # 0 /\ ftable[ofile[p][fd]].type = "inode"
    /\ Chunk(p, ofile[p][fd], n)
WriteMore(p) == wr[p] # NoWrite /\ Chunk(p, wr[p].f, wr[p].n)

-----------------------------------------------------------------------------
FileInit ==
    /\ fs = Blank
    /\ iref = [i \in Inums |-> 0]
    /\ ftable = [f \in Files |-> None]
    /\ pipe = [x \in Pipes |-> {}]
    /\ ofile = [p \in Procs |-> [fd \in Fds |-> 0]]
    /\ alive = {InitProc}
    /\ work = [p \in Procs |-> <<>>]
    /\ wr = [p \in Procs |-> NoWrite]
    /\ prog \in Programs

FileStep(p) ==
    \/ FileClose(p) \/ Iput(p) \/ PipeClose(p) \/ WriteMore(p)
    \/ Open(p) \/ Create(p) \/ Unlink(p) \/ Pipe(p) \/ Exit(p) \/ ExitClose(p)
    \/ \E c \in Procs : Fork(p, c)
    \/ \E fd \in Fds : Close(p, fd) \/ Dup(p, fd)
    \/ \E fd \in Fds, n \in Sizes : Read(p, fd, n) \/ Write(p, fd, n)

FileNext == (\E p \in Procs : FileStep(p)) /\ UNCHANGED prog

FileSpec == FileInit /\ [][FileNext]_fileVars

-----------------------------------------------------------------------------
(* Properties                                                              *)

\* The items of kind op in the work of all processes that concern x.
Pending(op, x) == {e \in Procs \X (1..2) :
    e[2] \in DOMAIN work[e[1]] /\ work[e[1]][e[2]].op = op /\ work[e[1]][e[2]].x = x}

\* Counts are exact on every path, the failing ones included: a file has as
\* many references as descriptors, an inode as many as files, and an end of
\* a pipe is open as long as a file has it, or a process is about to close.
RefsExact ==
    /\ \A f \in Files : ftable[f].ref = Cardinality(Pending("fileclose", f)) +
          Cardinality({e \in Procs \X Fds : ofile[e[1]][e[2]] = f})
    /\ \A i \in Inums : iref[i] = Cardinality(Pending("iput", i)) +
          Cardinality({f \in Files : ftable[f].type = "inode" /\ ftable[f].ip = i})
    /\ \A x \in Pipes : Cardinality(pipe[x]) = Cardinality(Pending("pipeclose", x)) +
          Cardinality({f \in Files : ftable[f].type = "pipe" /\ ftable[f].pipe = x})

\* What is marked in the bitmap belongs to exactly one inode on the disk, and
\* nothing else does: no block is shared, lost or freed twice.  The copies
\* in memory agree with the disk, although not every write ends in
\* iupdate().
BlocksOwned ==
    /\ \A i \in Inums : iref[i] > 0 => fs.inode[i] = fs.dinode[i]
    /\ LET d == [fs EXCEPT !.inode = fs.dinode]
       IN /\ fs.used = UNION {BlocksOf(d, i) : i \in Inums}
          /\ \A i, j \in Inums : i # j => BlocksOf(d, i) \cap BlocksOf(d, j) = {}
          /\ \A i \in Inums : Cardinality(BlocksOf(d, i)) =
                 LET n == (d.inode[i].size + BSIZE - 1) \div BSIZE
                 IN IF n > NDIRECT THEN n + 1 ELSE n

\* What module Streams speaks of.
StreamExist   == {i \in Inums : fs.dinode[i].used}
StreamContent == [i \in Inums |->
    ReadData([fs EXCEPT !.inode = fs.dinode], i, 0, fs.dinode[i].size)]
StreamName    == IF Named = {} THEN 0 ELSE Min(Named)
StreamPlace   == [f \in Files |-> IF ftable[f].type = "inode"
                                 THEN [ip |-> ftable[f].ip, off |-> ftable[f].off]
                                 ELSE [ip |-> 0, off |-> 0]]
StreamFds     == [p \in Procs |-> [fd \in Fds |->
    IF ofile[p][fd] # 0 /\ ftable[ofile[p][fd]].type = "inode" THEN ofile[p][fd] ELSE 0]]

\* For whoever uses them files are sequences of words and open files places
\* in them.
Abstractly == INSTANCE Streams WITH Limit <- MAXFILE * BSIZE,
    exist <- StreamExist, content <- StreamContent, name <- StreamName,
    place <- StreamPlace, fds <- StreamFds
IsStreams == Abstractly!Spec
=============================================================================
