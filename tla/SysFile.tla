------------------------------ MODULE SysFile -------------------------------
(***************************************************************************)
(* The inode cache and the directories of fs.c under the system calls of   *)
(* sysfile.c that work on names: open, mkdir, mknod, unlink, link, chdir,  *)
(* and the close of a file.                                                *)
(*                                                                         *)
(* A stretch of code between two acquisitions of an inode's sleep lock, or *)
(* of icache.lock in iget() and iput(), is one action: the processes meet  *)
(* in the fields that these locks protect.  Blocks go through the log, so  *)
(* what is on the disk is what log_write() has been told.                  *)
(***************************************************************************)
EXTENDS Naturals, Sequences, FiniteSets, FiniteSetsExt, Processes

CONSTANTS Inumbers,         \* numbers of the inodes on the disk
          NINODE,        \* size of the inode cache
          Names,         \* names of files, without "." and ".."
          Calls,         \* Calls[p]: the calls that p makes, see CallType
          NULL

ROOTINO == 1
Slots   == 1..NINODE
Entries == Names \cup {".", ".."}

\* A system call with its path, absolute or relative, and link()'s new one.
CallType == [call : {"open", "create", "mkdir", "mknod", "unlink", "link", "chdir"},
             abs : BOOLEAN, path : Seq(Entries), new : Seq(Entries)]

ASSUME SysFileAssumption ==
    /\ ROOTINO \in Inumbers /\ Inumbers \subseteq Nat \ {0}
    /\ NINODE \in Nat \ {0}
    /\ Calls \in [Procs -> SUBSET CallType]
    /\ NULL \notin Procs /\ IsFiniteSet(Procs)

VARIABLES
    dinode,   \* the inodes on the disk: type and nlink
    dir,      \* dir[i][n]: the inode that directory i has under n, or 0
    inum, ref, valid,
    inode,    \* ip->type and ip->nlink
    owner,    \* the process that holds ip->lock, or NULL
    cwd,      \* p->cwd
    file,     \* f->ip of the file that p has open, or 0
    st        \* the call of p: where it is and its variables, see Idle

ondisk == <<dinode, dir>>
icache == <<inum, ref, valid, inode>>
held   == <<cwd, file>>
sysfileVars == <<ondisk, icache, owner, held, st>>

\* pc, the call, what is left of the path, the last element, the target of
\* link(), the inodes dp and ip, the argument of iput() and where to go on
\* after it.
Idle == [pc |-> "idle", call |-> "", path |-> <<>>, name |-> ".", new |-> <<>>,
         dp |-> 0, ip |-> 0, put |-> 0, ret |-> "idle"]

Free == [type |-> "free", nlink |-> 0]

At(p, l) == st[p].pc = l

\* p goes on at l with t, or with iput(s) first.
Goto(p, t, l)   == st' = [st EXCEPT ![p] = [t EXCEPT !.pc = l]]
Put(p, t, s, l) == Goto(p, [t EXCEPT !.put = s, !.ret = l], "iput")

-----------------------------------------------------------------------------
(* fs.c.  The operators named Bad... are faulty variants of the operator   *)
(* that follows them; nothing uses them.                                   *)

\* The entries of the cache for inode i.
Cached(i) == {s \in Slots : ref[s] > 0 /\ inum[s] = i}

\* Where iget(i) finds or puts the inode.
Entry(i) == IF Cached(i) # {} THEN Min(Cached(i)) ELSE Min({s \in Slots : ref[s] = 0})

\* With no entry left iget() panics, and the machine stops.
iget(i) ==
    /\ Cached(i) # {} \/ \E s \in Slots : ref[s] = 0
    /\ inum' = [inum EXCEPT ![Entry(i)] = i]
    /\ ref' = [ref EXCEPT ![Entry(i)] = @ + 1]
    /\ valid' = [valid EXCEPT ![Entry(i)] = @ /\ Cached(i) # {}]
    /\ UNCHANGED inode

\* idup()
idup(s) ==
    /\ ref' = [ref EXCEPT ![s] = @ + 1]
    /\ UNCHANGED <<inum, valid, inode>>

\* ilock(): p gets the sleep lock and reads the inode if it must.
ilock(p, s) ==
    /\ owner[s] = NULL
    /\ owner' = [owner EXCEPT ![s] = p]
    /\ valid' = [valid EXCEPT ![s] = TRUE]
    /\ inode' = [inode EXCEPT ![s] = IF valid[s] THEN @ ELSE dinode[inum[s]]]
    /\ UNCHANGED <<inum, ref>>

iunlock(s) == owner' = [owner EXCEPT ![s] = NULL]

\* ilock() in a call, which goes on at l; "panic" if the inode is free.
Lock(p, s, l) ==
    /\ ilock(p, s)
    /\ Goto(p, st[p], IF inode'[s].type = "free" THEN "panic" ELSE l)
    /\ UNCHANGED <<ondisk, held>>

\* Faulty: the reference is not given back.
BadIunlockput(p, t, s, l) == iunlock(s) /\ Goto(p, t, l)

\* iunlock() and then iput() of s, before the call goes on at l.
Iunlockput(p, t, s, l) == iunlock(s) /\ Put(p, t, s, l)

\* ip->nlink and, with iupdate(), dip->nlink of the inodes in f.
SetNlink(f) ==
    /\ inode' = [s \in Slots |-> IF s \in DOMAIN f THEN [inode[s] EXCEPT !.nlink = f[s]]
                                                   ELSE inode[s]]
    /\ dinode' = [i \in Inumbers |->
                    IF \E s \in DOMAIN f : inum[s] = i
                    THEN inode'[CHOOSE s \in DOMAIN f : inum[s] = i]
                    ELSE dinode[i]]
    /\ UNCHANGED <<inum, ref, valid>>

\* dirlookup(): the inode under name n of the directory in s, or 0.
Lookup(s, n) == dir[inum[s]][n]

\* Faulty: other references do not keep the inode.
BadUnlinked(s) == valid[s] /\ inode[s].nlink = 0

\* iput() frees the inode: no links and no reference but this one.
Unlinked(s) == valid[s] /\ inode[s].nlink = 0 /\ ref[s] = 1

\* acquiresleep() and the test; releasesleep() if there is nothing to free.
IputLock(p) ==
    LET s == st[p].put
    IN /\ At(p, "iput")
       /\ owner[s] = NULL
       /\ IF Unlinked(s) THEN /\ owner' = [owner EXCEPT ![s] = p]
                            /\ Goto(p, st[p], "ifree")
                       ELSE /\ Goto(p, st[p], "idec")
                            /\ UNCHANGED owner
       /\ UNCHANGED <<ondisk, icache, held>>

\* itrunc(), ip->type = 0 and iupdate()
IputFree(p) ==
    LET s == st[p].put
    IN /\ At(p, "ifree")
       /\ dir' = [dir EXCEPT ![inum[s]] = [n \in Entries |-> 0]]
       /\ inode' = [inode EXCEPT ![s] = Free]
       /\ dinode' = [dinode EXCEPT ![inum[s]] = Free]
       /\ Goto(p, st[p], "ifreed")
       /\ UNCHANGED <<inum, ref, valid, owner, held>>

\* Faulty: the entry remains valid.
BadInvalid(s) == valid

Invalid(s) == [valid EXCEPT ![s] = FALSE]

IputUnlock(p) ==
    LET s == st[p].put
    IN /\ At(p, "ifreed")
       /\ valid' = Invalid(s)
       /\ iunlock(s)
       /\ Goto(p, st[p], "idec")
       /\ UNCHANGED <<ondisk, inum, ref, inode, held>>

\* ref--.  What else a free entry holds is never read, and cleared here.
IputDec(p) ==
    LET s == st[p].put
    IN /\ At(p, "idec")
       /\ ref' = [ref EXCEPT ![s] = @ - 1]
       /\ inum' = [inum EXCEPT ![s] = IF ref[s] = 1 THEN 0 ELSE @]
       /\ inode' = [inode EXCEPT ![s] = IF ref[s] = 1 THEN Free ELSE @]
       /\ IF st[p].ret = "idle"
          THEN st' = [st EXCEPT ![p] = Idle]
          ELSE Goto(p, [st[p] EXCEPT !.put = 0, !.ret = "idle"], st[p].ret)
       /\ UNCHANGED <<ondisk, valid, owner, held>>

-----------------------------------------------------------------------------
(* namex()                                                                 *)

\* The calls that look up the parent of the last element.
Parent(p) == st[p].call \in {"create", "mkdir", "mknod", "unlink", "link2"}

\* What a call does when namex() returns 0.
Failed(p) == IF st[p].call = "link2" THEN "linkbad" ELSE "idle"

\* The register that namex() walks with: link() keeps ip for the old file.
Walker(p) == IF st[p].call = "link2" THEN st[p].dp ELSE st[p].ip
Walk(p, s) == IF st[p].call = "link2" THEN [st[p] EXCEPT !.dp = s]
                                      ELSE [st[p] EXCEPT !.ip = s]

\* A call begins: iget() of the root or idup() of the current directory.
Start(p, c) ==
    LET s == IF c.abs THEN Entry(ROOTINO) ELSE cwd[p]
    IN /\ At(p, "idle")
       /\ IF c.abs THEN iget(ROOTINO) ELSE idup(s)
       /\ Goto(p, [st[p] EXCEPT !.call = c.call, !.path = c.path, !.new = c.new, !.ip = s],
               "namex")
       /\ UNCHANGED <<ondisk, owner, held>>

\* The path is empty.
NamexEnd(p) ==
    /\ At(p, "namex") /\ st[p].path = <<>>
    /\ IF Parent(p)
       THEN Put(p, Walk(p, 0), Walker(p), Failed(p))
       ELSE Goto(p, st[p], st[p].call)
    /\ UNCHANGED <<ondisk, icache, owner, held>>

NamexLock(p) ==
    /\ At(p, "namex") /\ st[p].path # <<>>
    /\ Lock(p, Walker(p), "walk")

\* The body of the loop, with the directory locked.
NamexStep(p) ==
    LET s == Walker(p)
        n == Head(st[p].path)
        rest == Tail(st[p].path)
    IN /\ At(p, "walk")
       /\ \/ /\ inode[s].type # "dir"
             /\ Iunlockput(p, Walk(p, 0), s, Failed(p))
             /\ UNCHANGED icache
          \/ /\ inode[s].type = "dir" /\ Parent(p) /\ rest = <<>>
             /\ iunlock(s)
             /\ LET t == [st[p] EXCEPT !.path = <<>>, !.name = n]
                IN Goto(p, IF st[p].call = "link2" THEN t ELSE [t EXCEPT !.dp = s, !.ip = 0],
                        st[p].call)
             /\ UNCHANGED icache
          \/ /\ inode[s].type = "dir" /\ ~(Parent(p) /\ rest = <<>>)
             /\ IF Lookup(s, n) = 0
                THEN Iunlockput(p, Walk(p, 0), s, Failed(p)) /\ UNCHANGED icache
                ELSE /\ iget(Lookup(s, n))
                     /\ Iunlockput(p, [Walk(p, Entry(Lookup(s, n))) EXCEPT !.path = rest], s,
                                   "namex")
       /\ UNCHANGED <<ondisk, held>>

-----------------------------------------------------------------------------
(* sysfile.c: what follows namei() or nameiparent()                        *)

\* filealloc() and fdalloc() with ip locked: the file takes over the
\* reference, or there is no room (here: for a second file of p).
OpenEnd(p) ==
    LET s == st[p].ip
    IN /\ At(p, "openfile")
       /\ IF file[p] = 0
          THEN /\ file' = [file EXCEPT ![p] = s]
               /\ iunlock(s)
               /\ st' = [st EXCEPT ![p] = Idle]
          ELSE Iunlockput(p, [st[p] EXCEPT !.ip = 0], s, "idle") /\ UNCHANGED file
       /\ UNCHANGED <<ondisk, icache, cwd>>

\* sys_open() without O_CREATE: a directory can only be opened for reading.
OpenCheck(p) ==
    LET s == st[p].ip
    IN /\ At(p, "opened")
       /\ \/ Goto(p, st[p], "openfile") /\ UNCHANGED owner
          \/ inode[s].type = "dir" /\ Iunlockput(p, [st[p] EXCEPT !.ip = 0], s, "idle")
       /\ UNCHANGED <<ondisk, icache, held>>

\* sys_close() of the last descriptor
CloseFile(p) ==
    /\ At(p, "idle") /\ file[p] # 0
    /\ Put(p, st[p], file[p], "idle")
    /\ file' = [file EXCEPT ![p] = 0]
    /\ UNCHANGED <<ondisk, icache, owner, cwd>>

\* sys_chdir().  The old directory goes to iput() first and p->cwd is
\* assigned last; no other process reads it.
Chdir(p) ==
    LET s == st[p].ip
    IN /\ At(p, "chdired")
       /\ IF inode[s].type = "dir"
          THEN /\ cwd' = [cwd EXCEPT ![p] = s]
               /\ iunlock(s)
               /\ Put(p, [st[p] EXCEPT !.ip = 0], cwd[p], "idle")
          ELSE Iunlockput(p, [st[p] EXCEPT !.ip = 0], s, "idle") /\ UNCHANGED cwd
       /\ UNCHANGED <<ondisk, icache, file>>

\* create(): dp is locked.  The name exists, or a new inode is allocated
\* (ialloc() panics if there is none).
CreateLookup(p) ==
    LET s == st[p].dp
        i == Lookup(s, st[p].name)
    IN /\ At(p, "create1")
       /\ \/ /\ i # 0
             /\ iget(i)
             /\ Iunlockput(p, [st[p] EXCEPT !.dp = 0, !.ip = Entry(i), !.name = "."], s,
                           "exists")
             /\ UNCHANGED dinode
          \/ /\ i = 0
             /\ LET new == Min({j \in Inumbers : dinode[j].type = "free"})
                    t == CASE st[p].call = "mkdir" -> "dir" [] st[p].call = "mknod" -> "dev"
                           [] OTHER -> "file"
                IN /\ \E j \in Inumbers : dinode[j].type = "free"
                   /\ dinode' = [dinode EXCEPT ![new] = [type |-> t, nlink |-> 0]]
                   /\ iget(new)
                   /\ Goto(p, [st[p] EXCEPT !.ip = Entry(new)], "created")
             /\ UNCHANGED owner
       /\ UNCHANGED <<dir, held>>

\* O_CREATE of a file that exists opens it, everything else fails.
CreateExists(p) ==
    LET s == st[p].ip
    IN /\ At(p, "exists1")
       /\ IF st[p].call = "create" /\ inode[s].type = "file"
          THEN Goto(p, st[p], "openfile") /\ UNCHANGED owner
          ELSE Iunlockput(p, [st[p] EXCEPT !.ip = 0], s, "idle")
       /\ UNCHANGED <<ondisk, icache, held>>

\* The new inode is locked: set nlink, make "." and "..", enter the name.
CreateLink(p) ==
    LET s == st[p].ip
        d == st[p].dp
        isdir == inode[s].type = "dir"
        entered == [dir EXCEPT ![inum[d]][st[p].name] = inum[s]]
    IN /\ At(p, "created1")
       /\ SetNlink([x \in IF isdir THEN {s, d} ELSE {s} |->
                      IF x = s THEN 1 ELSE inode[x].nlink + 1])
       /\ dir' = IF isdir THEN [entered EXCEPT ![inum[s]] =
                                  [@ EXCEPT !["."] = inum[s], ![".."] = inum[d]]]
                          ELSE entered
       /\ Iunlockput(p, [st[p] EXCEPT !.dp = 0, !.name = "."], d, "linked")
       /\ UNCHANGED held

\* dp is released, ip is still locked.
CreateEnd(p) ==
    /\ At(p, "linked")
    /\ IF st[p].call = "create"
       THEN Goto(p, st[p], "openfile") /\ UNCHANGED owner
       ELSE Iunlockput(p, [st[p] EXCEPT !.ip = 0], st[p].ip, "idle")
    /\ UNCHANGED <<ondisk, icache, held>>

\* sys_unlink(): dp is locked.
UnlinkLookup(p) ==
    LET s == st[p].dp
        i == Lookup(s, st[p].name)
    IN /\ At(p, "unlink1")
       /\ IF st[p].name \in {".", ".."} \/ i = 0
          THEN Iunlockput(p, [st[p] EXCEPT !.dp = 0], s, "idle") /\ UNCHANGED icache
          ELSE iget(i) /\ Goto(p, [st[p] EXCEPT !.ip = Entry(i)], "victim") /\ UNCHANGED owner
       /\ UNCHANGED <<ondisk, held>>

\* isdirempty()
Empty(s) == \A n \in Names : Lookup(s, n) = 0

\* dp and ip are locked: the entry goes, and with a directory its "..".  It
\* panics if ip has no links.
UnlinkEntry(p) ==
    LET s == st[p].ip
        d == st[p].dp
    IN /\ At(p, "victim1")
       /\ inode[s].nlink >= 1
       /\ \/ /\ inode[s].type = "dir" /\ ~Empty(s)
             /\ Iunlockput(p, [st[p] EXCEPT !.ip = 0], s, "unlinkbad")
             /\ UNCHANGED <<ondisk, icache>>
          \/ /\ inode[s].type # "dir" \/ Empty(s)
             /\ dir' = [dir EXCEPT ![inum[d]][st[p].name] = 0]
             /\ SetNlink([x \in IF inode[s].type = "dir" THEN {d} ELSE {} |->
                            inode[x].nlink - 1])
             /\ Iunlockput(p, [st[p] EXCEPT !.dp = 0, !.name = "."], d, "unlinked")
       /\ UNCHANGED held

UnlinkBad(p) ==
    /\ At(p, "unlinkbad")
    /\ Iunlockput(p, [st[p] EXCEPT !.dp = 0], st[p].dp, "idle")
    /\ UNCHANGED <<ondisk, icache, held>>

\* dp is released, ip is still locked.
UnlinkEnd(p) ==
    LET s == st[p].ip
    IN /\ At(p, "unlinked")
       /\ SetNlink([x \in {s} |-> inode[s].nlink - 1])
       /\ Iunlockput(p, [st[p] EXCEPT !.ip = 0], s, "idle")
       /\ UNCHANGED <<dir, held>>

\* Faulty: the count is raised when the entry is there.
BadLinkCount(s) == inode[s].nlink

LinkCount(s) == inode[s].nlink + 1

\* sys_link(): the old file is locked.  Raise nlink, then look up the new
\* name from the start.
LinkOld(p) ==
    LET s == st[p].ip
    IN /\ At(p, "link1")
       /\ \/ /\ inode[s].type = "dir"
             /\ Iunlockput(p, [st[p] EXCEPT !.ip = 0], s, "idle")
             /\ UNCHANGED <<ondisk, icache>>
          \/ /\ inode[s].type # "dir"
             /\ SetNlink([x \in {s} |-> LinkCount(s)])
             /\ iunlock(s)
             /\ Goto(p, [st[p] EXCEPT !.call = "link2"], "link2start")
             /\ UNCHANGED dir
       /\ UNCHANGED held

\* The new path is absolute or relative, whatever the old one was.
LinkNew(p) ==
    LET WalkFrom(s) == Goto(p, [st[p] EXCEPT !.path = st[p].new, !.new = <<>>, !.dp = s],
                            "namex")
    IN /\ At(p, "link2start")
       /\ \/ iget(ROOTINO) /\ WalkFrom(Entry(ROOTINO))
          \/ idup(cwd[p]) /\ WalkFrom(cwd[p])
       /\ UNCHANGED <<ondisk, owner, held>>

\* dp is locked; dirlink() refuses a name that exists, after an iput() of
\* the inode it has.
LinkEntry(p) ==
    LET d == st[p].dp
        i == Lookup(d, st[p].name)
    IN /\ At(p, "link21")
       /\ \/ /\ i # 0
             /\ iget(i)
             /\ Put(p, st[p], Entry(i), "linkexists")
             /\ UNCHANGED <<ondisk, owner>>
          \/ /\ i = 0
             /\ dir' = [dir EXCEPT ![inum[d]][st[p].name] = inum[st[p].ip]]
             /\ Iunlockput(p, [st[p] EXCEPT !.dp = 0], d, "linkend")
             /\ UNCHANGED <<dinode, icache>>
       /\ UNCHANGED held

LinkExists(p) ==
    /\ At(p, "linkexists")
    /\ Iunlockput(p, [st[p] EXCEPT !.dp = 0], st[p].dp, "linkbad")
    /\ UNCHANGED <<ondisk, icache, held>>

LinkEnd(p) ==
    /\ At(p, "linkend")
    /\ Put(p, [st[p] EXCEPT !.ip = 0], st[p].ip, "idle")
    /\ UNCHANGED <<ondisk, icache, owner, held>>

\* bad: ip is locked again
LinkUndo(p) ==
    LET s == st[p].ip
    IN /\ At(p, "linkbad1")
       /\ SetNlink([x \in {s} |-> inode[s].nlink - 1])
       /\ Iunlockput(p, [st[p] EXCEPT !.ip = 0], s, "idle")
       /\ UNCHANGED <<dir, held>>

\* The calls of ilock(): on which inode, and where the call goes on.
LockAt ==
    [open |-> "opened", chdir |-> "chdired", link |-> "link1", exists |-> "exists1",
     created |-> "created1", victim |-> "victim1", linkbad |-> "linkbad1",
     create |-> "create1", mkdir |-> "create1", mknod |-> "create1",
     unlink |-> "unlink1", link2 |-> "link21"]
OfDp == {"create", "mkdir", "mknod", "unlink", "link2"}

LockArg(p) == IF st[p].pc \in OfDp THEN st[p].dp ELSE st[p].ip

LockInode(p) ==
    /\ st[p].pc \in DOMAIN LockAt
    /\ Lock(p, LockArg(p), LockAt[st[p].pc])

-----------------------------------------------------------------------------
\* The image of mkfs has a root directory; init has it as its current one.
SysFileInit ==
    /\ dinode = [i \in Inumbers |-> IF i = ROOTINO THEN [type |-> "dir", nlink |-> 1]
                                               ELSE Free]
    /\ dir = [i \in Inumbers |-> [n \in Entries |->
                IF i = ROOTINO /\ n \notin Names THEN ROOTINO ELSE 0]]
    /\ inum = [s \in Slots |-> IF s = 1 THEN ROOTINO ELSE 0]
    /\ ref = [s \in Slots |-> IF s = 1 THEN Cardinality(Procs) ELSE 0]
    /\ valid = [s \in Slots |-> FALSE]
    /\ inode = [s \in Slots |-> Free]
    /\ owner = [s \in Slots |-> NULL]
    /\ cwd = [p \in Procs |-> 1]
    /\ file = [p \in Procs |-> 0]
    /\ st = [p \in Procs |-> Idle]

SysFileStep(p) ==
    \/ CloseFile(p) \/ LockInode(p)
    \/ NamexEnd(p) \/ NamexLock(p) \/ NamexStep(p)
    \/ IputLock(p) \/ IputFree(p) \/ IputUnlock(p) \/ IputDec(p)
    \/ OpenEnd(p) \/ OpenCheck(p) \/ Chdir(p)
    \/ CreateLookup(p) \/ CreateExists(p) \/ CreateLink(p) \/ CreateEnd(p)
    \/ UnlinkLookup(p) \/ UnlinkEntry(p) \/ UnlinkBad(p) \/ UnlinkEnd(p)
    \/ LinkOld(p) \/ LinkNew(p) \/ LinkEntry(p) \/ LinkExists(p) \/ LinkEnd(p)
    \/ LinkUndo(p)

SysFileNext == \E p \in Procs : SysFileStep(p) \/ \E c \in Calls[p] : Start(p, c)

SysFileSpec == SysFileInit /\ [][SysFileNext]_sysfileVars

-----------------------------------------------------------------------------
(* Properties                                                              *)

Reg(p, v) ==
    CASE v = "cwd" -> cwd[p] [] v = "file" -> file[p] [] v = "dp" -> st[p].dp
      [] v = "ip" -> st[p].ip [] v = "put" -> st[p].put

\* The references to s that processes hold: current directories, open files
\* and the variables of calls in progress.
Holders(s) == {h \in Procs \X {"cwd", "file", "dp", "ip", "put"} : Reg(h[1], h[2]) = s}

\* Reference counts are exact and an inode has one entry in the cache: no
\* call, on whatever path it fails, loses or drops twice a reference.
RefExact ==
    /\ \A s \in Slots : ref[s] = Cardinality(Holders(s))
    /\ \A i \in Inumbers : Cardinality(Cached(i)) <= 1

\* s is being freed, or the ilock() of s has found a free inode and panicked.
Dying(s) == \E p \in Procs : \/ At(p, "ifreed") /\ st[p].put = s
                             \/ At(p, "panic") /\ owner[s] = p

\* An entry of the cache that is valid agrees with the disk and is not free,
\* also when the inode is freed and allocated again while the old iput() is
\* still under way, and an inode that someone has open or stands in is not
\* free.
CacheCoherent ==
    /\ \A s \in Slots : ref[s] > 0 /\ valid[s] /\ ~Dying(s) =>
                         inode[s] = dinode[inum[s]] /\ inode[s].type # "free"
    /\ \A p \in Procs : \A s \in {cwd[p], file[p]} \ {0} : dinode[inum[s]].type # "free"

\* The entries that refer to inode i: names, and ".." of its
\* subdirectories as long as those have a name.
Links(i) == {e \in Inumbers \X (Entries \ {"."}) :
               /\ dir[e[1]][e[2]] = i
               /\ e[2] = ".." => \E d \in Inumbers, n \in Names : dir[d][n] = e[1]}

\* No call makes the number of links of an inode too small, at any moment:
\* what has a name is not freed and no directory names a free inode.
NlinkCovers ==
    \A i \in Inumbers : Cardinality(Links(i)) <= dinode[i].nlink

\* None of the panics "ilock: no type" and "unlink: nlink < 1": who has a
\* reference to an inode finds it allocated when it locks it.  The code does
\* not keep this: ".." of a directory that was removed but is still in use
\* goes on naming the parent when that is removed and freed as well.
NoPanic ==
    \A p \in Procs : ~At(p, "panic") /\ (At(p, "victim1") => inode[st[p].ip].nlink >= 1)

\* No path that a call is given goes through "..".
NoDotdot ==
    \A p \in Procs : \A c \in Calls[p] : \A i \in 1..Len(c.path \o c.new) :
        (c.path \o c.new)[i] # ".."

\* ".." is the only way into a panic: an inode that a call found under a
\* name is still allocated when the call gets its lock, although the
\* directory is unlocked in between and others remove the name and close
\* the file, and sys_unlink() never finds an entry of an inode without links.
NamesSafe == NoDotdot => NoPanic

\* The process whose lock p waits for, or NULL.
WaitsFor(p) ==
    CASE At(p, "iput") -> owner[st[p].put]
      [] At(p, "namex") /\ st[p].path # <<>> -> owner[Walker(p)]
      [] st[p].pc \in DOMAIN LockAt -> owner[LockArg(p)]
      [] OTHER -> NULL

\* No processes wait for each other's inode locks.
NoCircularWait ==
    \A S \in SUBSET Procs : S # {} => \E p \in S : WaitsFor(p) \notin S

=============================================================================
