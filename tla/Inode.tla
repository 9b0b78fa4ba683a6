-------------------------------- MODULE Inode -------------------------------
(***************************************************************************)
(* The contents of inodes in fs.c as operators on a file system s: the     *)
(* free map, the blocks, and the inodes on the disk and in memory.  A      *)
(* block holds BSIZE words; a word is a datum or, in an indirect block, a  *)
(* block number.  The callers hold the lock of the inode, and the log      *)
(* makes what one of them changes atomic on the disk.                      *)
(***************************************************************************)
EXTENDS Naturals, Sequences, FiniteSets, FiniteSetsExt

CONSTANTS Inums, DataBlocks,      \* numbers of inodes and of data blocks
          BSIZE,              \* words in a block
          NDIRECT, NINDIRECT  \* direct blocks, block numbers in an indirect one

MAXFILE == NDIRECT + NINDIRECT
Words   == 0..BSIZE - 1

ASSUME InodeAssumption ==
    /\ Inums \subseteq Nat \ {0} /\ DataBlocks \subseteq Nat \ {0}
    /\ IsFiniteSet(Inums) /\ IsFiniteSet(DataBlocks)
    /\ BSIZE \in Nat \ {0} /\ NDIRECT \in Nat /\ NINDIRECT \in 1..BSIZE

NoAddrs == [k \in 0..NDIRECT |-> 0]
NoInode == [nlink |-> 0, used |-> FALSE, size |-> 0, addrs |-> NoAddrs]

\* used: the blocks marked in the bitmap; dinode and inode: the disk's copy
\* and the one in memory, which means nothing for an inode without references.
\* A free block holds Junk, numbers of blocks, whatever it had before.
Junk  == [w \in Words |-> Max(DataBlocks)]
Blank == [used |-> {}, data |-> [b \in DataBlocks |-> Junk],
          dinode |-> [i \in Inums |-> NoInode], inode |-> [i \in Inums |-> NoInode]]

iupdate(s, i) == [s EXCEPT !.dinode[i] = s.inode[i]]

\* Faulty: the block keeps what it had.
BadBzero(s, b) == s

bzero(s, b) == [s EXCEPT !.data[b] = [w \in Words |-> 0]]

\* The block that balloc() takes; with none left it panics.
Fresh(s)  == Min(DataBlocks \ s.used)
balloc(s) == bzero([s EXCEPT !.used = @ \cup {Fresh(s)}], Fresh(s))

\* The number of block bn of inode i, or 0.
Addr(s, i, bn) ==
    IF bn < NDIRECT THEN s.inode[i].addrs[bn]
    ELSE IF s.inode[i].addrs[NDIRECT] = 0 THEN 0
    ELSE s.data[s.inode[i].addrs[NDIRECT]][bn - NDIRECT]

\* bmap() makes sure that Addr(s, i, bn) is a block.
bmap(s, i, bn) ==
    LET New(t, k) == [balloc(t) EXCEPT !.inode[i].addrs[k] = Fresh(t)]
        u == IF bn >= NDIRECT /\ s.inode[i].addrs[NDIRECT] = 0 THEN New(s, NDIRECT) ELSE s
    IN IF Addr(u, i, bn) # 0 THEN u
       ELSE IF bn < NDIRECT THEN New(u, bn)
       ELSE [balloc(u) EXCEPT !.data[u.inode[i].addrs[NDIRECT]][bn - NDIRECT] = Fresh(u)]

\* The words of the indirect block.
Indirect(s, i) ==
    LET b == s.inode[i].addrs[NDIRECT]
    IN IF b = 0 THEN {} ELSE {s.data[b][w] : w \in 0..NINDIRECT - 1} \ {0}

\* The blocks that inode i has, in the copy in memory.
BlocksOf(s, i) == ({s.inode[i].addrs[k] : k \in 0..NDIRECT} \ {0}) \cup Indirect(s, i)

\* The blocks that size words take; with the indirect one n of them are
\* PlacesOf(n).
BlocksFor(size) == (size + BSIZE - 1) \div BSIZE
PlacesOf(n)     == IF n > NDIRECT THEN n + 1 ELSE n

\* Inode i can grow to size words: no balloc() on the way panics.
Room(s, i, size) ==
    PlacesOf(BlocksFor(size)) <= Cardinality(BlocksOf(s, i)) + Cardinality(DataBlocks \ s.used)

\* bfree() of the blocks in B; it panics if one is not in use.
bfree(s, B) == [s EXCEPT !.used = @ \ B,
                         !.data = [b \in DataBlocks |-> IF b \in B THEN Junk ELSE @[b]]]

itrunc(s, i) ==
    iupdate([bfree(s, BlocksOf(s, i)) EXCEPT
               !.inode[i] = [@ EXCEPT !.addrs = NoAddrs, !.size = 0]], i)

\* The turns of a loop over n words from off on, one for each block.
Turns(off, n) == IF n = 0 THEN 0 ELSE (off + n - 1) \div BSIZE - off \div BSIZE + 1

\* readi(): how many words it reads (-1 is modelled by 0, the callers treat
\* both alike), which, and the file system after it.
ReadLen(s, i, off, n) ==
    IF off > s.inode[i].size THEN 0 ELSE Min({n, s.inode[i].size - off})
ReadData(s, i, off, n) ==
    [k \in 1..n |-> s.data[Addr(s, i, (off + k - 1) \div BSIZE)][(off + k - 1) % BSIZE]]
readi(s, i, off, n) ==
    LET upto[k \in 0..Turns(off, n)] ==
            IF k = 0 THEN s ELSE bmap(upto[k - 1], i, off \div BSIZE + k - 1)
    IN upto[Turns(off, n)]

\* writei() of n words v, and whether it returns -1.
WriteFails(s, i, off, n) == off > s.inode[i].size \/ off + n > MAXFILE * BSIZE

\* A turn puts the words of block bn into what u has after bmap().
PutWords(u, i, bn, off, n, v) ==
    [u EXCEPT !.data[Addr(u, i, bn)] =
        [w \in Words |-> IF bn * BSIZE + w \in off..off + n - 1 THEN v ELSE @[w]]]

Written(s, i, off, n, v) ==
    LET upto[k \in 0..Turns(off, n)] ==
            IF k = 0 THEN s
            ELSE LET bn == off \div BSIZE + k - 1
                 IN PutWords(bmap(upto[k - 1], i, bn), i, bn, off, n, v)
    IN upto[Turns(off, n)]

writei(s, i, off, n, v) ==
    LET done == Written(s, i, off, n, v)
    IN IF n > 0 /\ off + n > s.inode[i].size
       THEN iupdate([done EXCEPT !.inode[i].size = off + n], i)
       ELSE done
=============================================================================
