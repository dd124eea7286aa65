------------------------------- MODULE Files --------------------------------
(***************************************************************************)
(* The contents of files: fileread() and filewrite() of file.c, and under  *)
(* them readi, writei, bmap, itrunc, balloc and bfree of fs.c.             *)
(*                                                                         *)
(* Processes open inodes, share struct files across fork(), read, write,   *)
(* unlink and close.  A step is a critical section of the buffer that it   *)
(* changes (the bitmap, a block), or code that runs while the inode is     *)
(* locked.  A block is an array of numbers: the bytes of a file, or the    *)
(* addresses of an indirect block, so that NINDIRECT is BSIZE here.        *)
(*                                                                         *)
(* Bit b of the bitmap stands for data block b of the partition; as an     *)
(* address that block is b + 1, and 0 is no block.                         *)
(***************************************************************************)
EXTENDS Integers, Sequences, FiniteSets, FiniteSetsExt

CONSTANTS Proc,     \* processes: positive numbers; p writes bytes that say p
          Inode,
          NFILE,    \* size of ftable
          BSIZE,
          NDIRECT,
          size,     \* sb.size: the bits that balloc() scans
          nblocks,  \* sb.nblocks: data blocks of the partition
          Sizes,    \* lengths of reads and writes
          max,      \* the bytes filewrite() writes in one transaction
          MaxCalls, \* bound: system calls in a behaviour
          None

ASSUME FilesConstants ==
  /\ Proc \subseteq Nat \ {0} /\ IsFiniteSet(Proc) /\ IsFiniteSet(Inode)
  /\ NFILE \in Nat /\ BSIZE \in Nat \ {0} /\ NDIRECT \in Nat
  /\ size \in Nat /\ nblocks \in 0..size
  /\ Sizes \subseteq Nat \ {0} /\ max \in Nat \ {0} /\ MaxCalls \in Nat
  /\ None \notin Proc \cup Inode

NINDIRECT == BSIZE
MAXFILE == NDIRECT + NINDIRECT
Block == 0..(size - 1)
Address == 0..size
Index == 0..(BSIZE - 1)
File == 1..NFILE

VARIABLES
  bitmap,    \* the blocks whose bit is set
  blk,       \* contents of every block
  inode,     \* per inode: size and addrs[0..NDIRECT]
  linked,    \* inodes that have a name
  busy,      \* who has the inode locked
  ftable,    \* struct file: ref, ip, off
  fd,        \* the file each process has open, 0 if none
  pc,        \* where it is
  left,      \* bytes that the call still has to write
  chunk,     \* bytes that this writei() still has to write
  pos,       \* off in writei()
  new,       \* the block that balloc() returned, until bmap() stores it
  gone,      \* the inode that itrunc() empties
  panicked,
  calls,     \* system calls so far
  contents,  \* history: what has been written to each inode
  moved      \* history: bytes transferred through each struct file

disk == <<bitmap, blk>>
call == <<left, chunk, pos, new, gone>>
vars == <<disk, inode, linked, busy, ftable, fd, pc, call, panicked, calls, contents, moved>>

TypeOK ==
  /\ bitmap \subseteq Block
  /\ blk \in [Block -> [Index -> Address \cup Proc]]
  /\ inode \in [Inode -> [size : 0..(MAXFILE * BSIZE), addrs : [0..NDIRECT -> Address]]]
  /\ linked \subseteq Inode
  /\ busy \in [Inode -> Proc \cup {None}]
  /\ ftable \in [File -> [ref : 0..Cardinality(Proc), ip : Inode \cup {None},
                          off : 0..(MAXFILE * BSIZE)]]
  /\ fd \in [Proc -> 0..NFILE]
  /\ pc \in [Proc -> {"idle", "ilock", "bmap", "store", "iupdate", "itrunc"}]
  /\ left \in [Proc -> {0} \cup 1..Max(Sizes)]
  /\ chunk \in [Proc -> 0..max]
  /\ pos \in [Proc -> 0..(MAXFILE * BSIZE)]
  /\ new \in [Proc -> Address]
  /\ gone \in [Proc -> Inode \cup {None}]
  /\ panicked \in {"no", "balloc: out of blocks", "freeing free block",
                   "bmap: out of range"}
  /\ calls \in 0..MaxCalls

\* mkfs: no files, and nothing known of the blocks but that they are zero.
Init ==
  /\ bitmap = {}
  /\ blk = [b \in Block |-> [k \in Index |-> 0]]
  /\ inode = [i \in Inode |-> [size |-> 0, addrs |-> [k \in 0..NDIRECT |-> 0]]]
  /\ linked = {}
  /\ busy = [i \in Inode |-> None]
  /\ ftable = [f \in File |-> [ref |-> 0, ip |-> None, off |-> 0]]
  /\ fd = [p \in Proc |-> 0]
  /\ pc = [p \in Proc |-> "idle"]
  /\ left = [p \in Proc |-> 0]
  /\ chunk = [p \in Proc |-> 0]
  /\ pos = [p \in Proc |-> 0]
  /\ new = [p \in Proc |-> 0]
  /\ gone = [p \in Proc |-> None]
  /\ panicked = "no"
  /\ calls = 0
  /\ contents = [i \in Inode |-> <<>>]
  /\ moved = [f \in File |-> 0]

At(p, l) == panicked = "no" /\ pc[p] = l
goto(p, l) == pc' = [pc EXCEPT ![p] = l]
my(p) == ftable[fd[p]]
Least(a, b) == IF a < b THEN a ELSE b

\* Inodes that some struct file points to.
Held == {ftable[f].ip : f \in {g \in File : ftable[g].ref > 0}}

-----------------------------------------------------------------------------
(* sys_open(), fork(), sys_unlink() *)

\* filealloc() takes the first free struct file; sys_open() sets it up.  A name
\* that does not exist is created with an inode that ialloc() finds free.
open(p, i) ==
  /\ At(p, "idle")
  /\ fd[p] = 0
  /\ i \in linked \/ (i \notin Held /\ \A q \in Proc : gone[q] # i)
  /\ \E f \in File :
       /\ ftable[f].ref = 0
       /\ \A g \in 1..(f - 1) : ftable[g].ref > 0
       /\ ftable' = [ftable EXCEPT ![f] = [ref |-> 1, ip |-> i, off |-> 0]]
       /\ fd' = [fd EXCEPT ![p] = f]
  /\ linked' = linked \cup {i}
  /\ UNCHANGED <<disk, inode, busy, pc, call, panicked, contents, moved>>

\* fork() of a process q that has a file open: filedup() for the child p.
fork(q, p) ==
  /\ At(q, "idle") /\ pc[p] = "idle"
  /\ fd[q] # 0 /\ fd[p] = 0
  /\ ftable' = [ftable EXCEPT ![fd[q]].ref = @ + 1]
  /\ fd' = [fd EXCEPT ![p] = fd[q]]
  /\ UNCHANGED <<disk, inode, linked, busy, pc, call, panicked, contents, moved>>

\* The iput() of a pointer to i that p gives up; Others are the inodes that
\* struct files still point to.  The last pointer to an inode without a name
\* makes iput() call itrunc().
iput(p, i, Links, Others) ==
  /\ goto(p, IF i \in Links \cup Others THEN "idle" ELSE "itrunc")
  /\ gone' = [gone EXCEPT ![p] = IF i \in Links \cup Others THEN None ELSE i]

\* sys_unlink(), with the iput() at its end
unlink(p, i) ==
  /\ At(p, "idle")
  /\ i \in linked /\ busy[i] = None
  /\ linked' = linked \ {i}
  /\ iput(p, i, linked', Held)
  /\ UNCHANGED <<disk, inode, busy, ftable, fd, left, chunk, pos, new, panicked,
                 contents, moved>>

\* fileclose(); what a free struct file holds is not read again.
close(p) ==
  /\ At(p, "idle")
  /\ fd[p] # 0
  /\ LET f == fd[p] IN
       IF ftable[f].ref > 1
       THEN /\ ftable' = [ftable EXCEPT ![f].ref = @ - 1]
            /\ UNCHANGED <<pc, gone, moved>>
       ELSE /\ ftable' = [ftable EXCEPT ![f] = [ref |-> 0, ip |-> None, off |-> 0]]
            /\ moved' = [moved EXCEPT ![f] = 0]
            /\ iput(p, ftable[f].ip, linked,
                    {ftable[g].ip : g \in {h \in File \ {f} : ftable[h].ref > 0}})
  /\ fd' = [fd EXCEPT ![p] = 0]
  /\ UNCHANGED <<disk, inode, linked, busy, left, chunk, pos, new, panicked, contents>>

-----------------------------------------------------------------------------
(* bmap() and balloc() *)

\* The address that inode i holds for its block bn, 0 if none.
Mapped(i, bn) ==
  IF bn < NDIRECT THEN inode[i].addrs[bn]
  ELSE IF inode[i].addrs[NDIRECT] = 0 THEN 0
  ELSE blk[inode[i].addrs[NDIRECT] - 1][bn - NDIRECT]

\* readi() of the whole file.
readi(i) ==
  [k \in 1..inode[i].size |-> blk[Mapped(i, (k - 1) \div BSIZE) - 1][(k - 1) % BSIZE]]

bn(p) == pos[p] \div BSIZE

\* The bits that balloc() finds clear.
FreeBits == Block \ bitmap

\* There is no block yet: balloc() takes the first clear bit, with the bitmap's
\* buffer locked.
balloc(p) ==
  /\ At(p, "bmap")
  /\ bn(p) < MAXFILE /\ Mapped(my(p).ip, bn(p)) = 0
  /\ FreeBits # {}
  /\ LET b == Min(FreeBits) IN
       /\ bitmap' = bitmap \cup {b}
       /\ new' = [new EXCEPT ![p] = b + 1]
  /\ goto(p, "store")
  /\ UNCHANGED <<blk, inode, linked, busy, ftable, fd, left, chunk, pos, gone, panicked,
                 contents, moved>>

\* The panics of balloc() and bmap().
bmap_panic(p) ==
  /\ At(p, "bmap")
  /\ bn(p) < MAXFILE => (Mapped(my(p).ip, bn(p)) = 0 /\ FreeBits = {})
  /\ panicked' = IF bn(p) < MAXFILE THEN "balloc: out of blocks" ELSE "bmap: out of range"
  /\ UNCHANGED <<disk, inode, linked, busy, ftable, fd, pc, call, contents, moved>>

\* The blocks after bzero() of the one at address a.
bzero(a) == [blk EXCEPT ![a - 1] = [k \in Index |-> 0]]

\* bzero() clears the new block, and bmap() stores its address: in a direct slot,
\* as the indirect block, or in an entry of the indirect block.
bmap_store(p) ==
  /\ At(p, "store")
  /\ LET i == my(p).ip
         slot == Least(bn(p), NDIRECT)
         direct == inode[i].addrs[slot] = 0
         zeroed == bzero(new[p])
     IN /\ inode' = IF direct THEN [inode EXCEPT ![i].addrs[slot] = new[p]] ELSE inode
        /\ blk' = IF direct THEN zeroed
                  ELSE [zeroed EXCEPT ![inode[i].addrs[slot] - 1][bn(p) - NDIRECT] = new[p]]
  /\ new' = [new EXCEPT ![p] = 0]
  /\ goto(p, "bmap")
  /\ UNCHANGED <<bitmap, linked, busy, ftable, fd, left, chunk, pos, gone, panicked,
                 contents, moved>>

-----------------------------------------------------------------------------
(* filewrite() and writei() *)

write(p, n) ==
  /\ At(p, "idle")
  /\ fd[p] # 0
  /\ left' = [left EXCEPT ![p] = n]
  /\ goto(p, "ilock")
  /\ UNCHANGED <<disk, inode, linked, busy, ftable, fd, chunk, pos, new, gone, panicked,
                 contents, moved>>

\* The bytes of the next transaction.
n1(p) == Least(left[p], max)

\* The tests at the start of writei(); f->off is read with the inode locked.
Refused(p) == my(p).off > inode[my(p).ip].size
              \/ my(p).off + n1(p) > MAXFILE * BSIZE

\* writei() returns -1, and filewrite() with it.
writei_refuse(p) ==
  /\ At(p, "ilock")
  /\ busy[my(p).ip] = None
  /\ Refused(p)
  /\ left' = [left EXCEPT ![p] = 0]
  /\ goto(p, "idle")
  /\ UNCHANGED <<disk, inode, linked, busy, ftable, fd, chunk, pos, new, gone, panicked,
                 contents, moved>>

\* Fault: the inode is not locked.
FaultNoIlock(p) ==
  /\ At(p, "ilock")
  /\ ~Refused(p)
  /\ chunk' = [chunk EXCEPT ![p] = n1(p)]
  /\ pos' = [pos EXCEPT ![p] = my(p).off]
  /\ goto(p, "bmap")
  /\ UNCHANGED <<disk, inode, linked, busy, ftable, fd, left, new, gone, panicked,
                 contents, moved>>

\* begin_op(), ilock() and the start of writei()
writei(p) ==
  /\ At(p, "ilock")
  /\ busy[my(p).ip] = None
  /\ ~Refused(p)
  /\ busy' = [busy EXCEPT ![my(p).ip] = p]
  /\ chunk' = [chunk EXCEPT ![p] = n1(p)]
  /\ pos' = [pos EXCEPT ![p] = my(p).off]
  /\ goto(p, "bmap")
  /\ UNCHANGED <<disk, inode, linked, ftable, fd, left, new, gone, panicked, contents,
                 moved>>

\* The bytes of one block: up to its end.
m(p) == Least(chunk[p], BSIZE - (pos[p] % BSIZE))

\* Fault: the bytes go to the start of the block.
FaultMemmove(p, b) ==
  [b EXCEPT ![0] = p]

\* A block after m bytes have been copied to offset off % BSIZE.
memmove(p, b) ==
  LET at == pos[p] % BSIZE
  IN [k \in Index |-> IF k \in at..(at + m(p) - 1) THEN p ELSE b[k]]

\* The block is there: memmove() into it.
writei_block(p) ==
  /\ At(p, "bmap")
  /\ bn(p) < MAXFILE
  /\ LET a == Mapped(my(p).ip, bn(p)) IN
       /\ a # 0
       /\ blk' = [blk EXCEPT ![a - 1] = memmove(p, @)]
  /\ pos' = [pos EXCEPT ![p] = @ + m(p)]
  /\ chunk' = [chunk EXCEPT ![p] = @ - m(p)]
  /\ goto(p, IF chunk'[p] = 0 THEN "iupdate" ELSE "bmap")
  /\ UNCHANGED <<bitmap, inode, linked, busy, ftable, fd, left, new, gone, panicked,
                 contents, moved>>

\* What the caller of writei() has written, to a file that read c before.
Written(p, c, from, to) ==
  [k \in 1..(IF to > Len(c) THEN to ELSE Len(c)) |-> IF k \in (from + 1)..to THEN p ELSE c[k]]

\* ip->size after a write up to off.
Grown(i, off) == IF off > inode[i].size THEN [inode EXCEPT ![i].size = off] ELSE inode

\* The end of writei(), f->off += r, iunlock() and end_op(); filewrite() goes on
\* with the next transaction or returns.
writei_done(p) ==
  /\ At(p, "iupdate")
  /\ LET i == my(p).ip
         off == my(p).off
     IN /\ inode' = Grown(i, pos[p])
        /\ ftable' = [ftable EXCEPT ![fd[p]].off = pos[p]]
        /\ busy' = [busy EXCEPT ![i] = None]
        /\ left' = [left EXCEPT ![p] = @ - n1(p)]
        /\ contents' = [contents EXCEPT ![i] = Written(p, @, off, pos[p])]
        /\ moved' = [moved EXCEPT ![fd[p]] = @ + n1(p)]
  /\ pos' = [pos EXCEPT ![p] = 0]
  /\ goto(p, IF left'[p] = 0 THEN "idle" ELSE "ilock")
  /\ UNCHANGED <<disk, linked, fd, chunk, new, gone, panicked>>

\* fileread(): what readi() copies out, up to the end of the file.
fileread(p, n) ==
  /\ At(p, "idle")
  /\ fd[p] # 0
  /\ busy[my(p).ip] = None
  /\ my(p).off <= inode[my(p).ip].size
  /\ LET r == Least(n, inode[my(p).ip].size - my(p).off) IN
       /\ ftable' = [ftable EXCEPT ![fd[p]].off = @ + r]
       /\ moved' = [moved EXCEPT ![fd[p]] = @ + r]
  /\ UNCHANGED <<disk, inode, linked, busy, fd, pc, call, panicked, contents>>

-----------------------------------------------------------------------------
(* itrunc(), called by iput() for an inode that nobody else can reach *)

\* Fault: the indirect block itself is not freed.
FaultDoomed(i, k) == IF k < MAXFILE THEN Mapped(i, k) ELSE 0

\* The addresses in the order in which itrunc() frees them: the direct blocks,
\* the entries of the indirect block, the indirect block; 0 is skipped.
Doomed(i, k) == IF k < MAXFILE THEN Mapped(i, k) ELSE inode[i].addrs[NDIRECT]

\* addrs[] after step k: the entries of the indirect block stay as they are.
Cleared(i, k) ==
  [s \in 0..NDIRECT |-> IF k = (IF s < NDIRECT THEN s ELSE MAXFILE)
                        THEN 0 ELSE inode[i].addrs[s]]

\* One bfree(), with the bitmap's buffer locked; size = 0 and iupdate() follow
\* the last one.
itrunc(p) ==
  /\ At(p, "itrunc")
  /\ LET i == gone[p]
         k == pos[p]
         a == Doomed(i, k)
         last == k = MAXFILE
     IN /\ panicked' = IF a = 0 \/ a - 1 \in bitmap THEN "no" ELSE "freeing free block"
        /\ bitmap' = bitmap \ {a - 1}
        /\ inode' = [inode EXCEPT ![i] = [size |-> IF last THEN 0 ELSE @.size,
                                          addrs |-> Cleared(i, k)]]
        /\ pos' = [pos EXCEPT ![p] = IF last THEN 0 ELSE k + 1]
        /\ gone' = [gone EXCEPT ![p] = IF last THEN None ELSE i]
        /\ contents' = IF last THEN [contents EXCEPT ![i] = <<>>] ELSE contents
        /\ goto(p, IF last THEN "idle" ELSE "itrunc")
  /\ UNCHANGED <<blk, linked, busy, ftable, fd, left, chunk, new, moved>>

-----------------------------------------------------------------------------
syscall(p) ==
  \/ \E i \in Inode : open(p, i) \/ unlink(p, i)
  \/ \E q \in Proc : fork(p, q)
  \/ close(p)
  \/ \E n \in Sizes : write(p, n) \/ fileread(p, n)

step(p) ==
  \/ writei_refuse(p) \/ writei(p) \/ writei_block(p) \/ writei_done(p)
  \/ balloc(p) \/ bmap_store(p) \/ bmap_panic(p)
  \/ itrunc(p)

Next ==
  \E p \in Proc :
    \/ syscall(p) /\ calls < MaxCalls /\ calls' = calls + 1
    \/ step(p) /\ UNCHANGED calls

Spec == Init /\ [][Next]_vars

-----------------------------------------------------------------------------
(* Properties. *)

\* Where address a is kept: in an inode, in an indirect block that itrunc() has
\* not passed yet, or in the hands of the process that has just allocated it.
Owners(a) ==
  {<<i, k>> \in Inode \X (0..NDIRECT) : inode[i].addrs[k] = a}
  \cup {<<i, k>> \in Inode \X ((NDIRECT + 1)..MAXFILE) :
          /\ Mapped(i, k - 1) = a
          /\ \A p \in Proc : gone[p] = i => pos[p] < k}
  \cup {<<p, "new">> : p \in {q \in Proc : new[q] = a}}

\* A block that is marked in the bitmap belongs to one place of one file, and a
\* block that belongs to a file is marked: no block is shared, lost or freed
\* under its owner, whatever the interleaving of writes and deletions.
BlocksOwnedOnce ==
  \A b \in Block : Cardinality(Owners(b + 1)) = IF b \in bitmap THEN 1 ELSE 0

\* What readi() returns of a file that nobody has locked is what was written
\* to it, across blocks, indirect blocks and reused blocks.
ContentsMatch ==
  \A i \in Inode : (busy[i] = None /\ \A p \in Proc : gone[p] # i)
                     => readi(i) = contents[i]

\* A file's offset never points behind its end, so that writei() and readi()
\* never refuse it for that.
OffWithinFile ==
  \A f \in File : ftable[f].ref > 0 => ftable[f].off <= inode[ftable[f].ip].size

\* Processes that share a struct file move its offset on by what each of them
\* transfers: none of their reads or writes overlap.
OffsetCountsBytes == \A f \in File : ftable[f].off = moved[f]

\* Of the panics of this layer only the full disk can happen.
NoFilePanic == panicked \in {"no", "balloc: out of blocks"}

\* balloc() returns data blocks of the partition: there are sb.nblocks of them
\* ("Number of data blocks", fs.h).
BlocksInPartition == bitmap \subseteq 0..(nblocks - 1)

\* The blocks of all files are accounted for at every step of balloc(), bmap() and
\* itrunc(), and no panic but that of the full disk happens.
BlocksInv == TypeOK /\ BlocksOwnedOnce /\ NoFilePanic

\* The offset of an open file is where its users have got to, and inside it.
OffsetInv == OffWithinFile /\ OffsetCountsBytes
=============================================================================
