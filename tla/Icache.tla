------------------------------- MODULE Icache -------------------------------
(***************************************************************************)
(* The inode layer of fs.c (iget, idup, ilock, iunlock, iput, ialloc,      *)
(* iupdate) under the system calls of sysfile.c that use it: open with and *)
(* without O_CREATE, close, link and unlink, in one directory.             *)
(*                                                                         *)
(* A step is a critical section of icache.lock or of the buffer that holds *)
(* a disk inode, or code that runs while the inode it touches is locked.   *)
(* The directory dp is referenced and valid throughout; dlock is its       *)
(* I_BUSY.  A dirlookup() is one step with the iget() it ends in, since    *)
(* the directory stays locked meanwhile.  The contents of files are left   *)
(* out, and the log: inside a transaction writes are seen at once.         *)
(***************************************************************************)
EXTENDS Integers

CONSTANTS Proc, Name,
          NINODE,    \* slots of the inode cache
          ninodes,   \* sb.ninodes: disk inodes are 1..ninodes-1
          None       \* no process, no name

ASSUME IcacheConstants ==
  /\ NINODE \in Nat \ {0} /\ ninodes \in Nat /\ ninodes > 1
  /\ None \notin Proc \cup Name

Inum == 1..(ninodes - 1)
Slot == 1..NINODE

VARIABLES
  dir,       \* directory contents: name -> inode number, 0 if free
  dlock,     \* who holds the directory's lock
  dinode,    \* disk inodes, as the buffer cache shows them
  icache,    \* icache.inode[]
  pc, op,    \* per process: where it is, in which system call
  nm,        \* the name it works on, None between calls
  ip,        \* its inode pointer: a slot, 0 if none
  dup,       \* the inode dirlink() found in the way, 0 if none
  inum,      \* the loop variable of ialloc(), then its result
  panicked   \* the panic() that stopped the machine, or "no"

locals == <<pc, op, nm, ip, dup, inum>>
vars == <<dir, dlock, dinode, icache, locals, panicked>>

Panics == {"no", "iget: no inodes", "ialloc: no inodes", "ilock: no type",
           "iput busy", "unlink: nlink < 1"}
Places == {"idle", "open", "ilock", "sleep", "read", "locked", "update", "dirlink",
           "iunlock", "iput", "free", "freed", "ialloc", "iget", "link"}

Disk == [alloc : BOOLEAN, nlink : Nat]
Cell == [inum : Inum \cup {0}, ref : Nat, busy : BOOLEAN, valid : BOOLEAN,
         alloc : BOOLEAN, nlink : Nat]

TypeOK ==
  /\ dir \in [Name -> Inum \cup {0}]
  /\ dlock \in Proc \cup {None}
  /\ dinode \in [Inum -> Disk]
  /\ icache \in [Slot -> Cell]
  /\ pc \in [Proc -> Places]
  /\ op \in [Proc -> {"open", "unlink", "link", "bad", "create"}]
  /\ nm \in [Proc -> Name \cup {None}]
  /\ ip \in [Proc -> Slot \cup {0}]
  /\ dup \in [Proc -> Slot \cup {0}]
  /\ inum \in [Proc -> 1..ninodes]
  /\ panicked \in Panics

\* An empty directory and an empty cache.
Init ==
  /\ dir = [n \in Name |-> 0]
  /\ dlock = None
  /\ dinode = [i \in Inum |-> [alloc |-> FALSE, nlink |-> 0]]
  /\ icache = [s \in Slot |-> [inum |-> 0, ref |-> 0, busy |-> FALSE, valid |-> FALSE,
                               alloc |-> FALSE, nlink |-> 0]]
  /\ pc = [p \in Proc |-> "idle"]
  /\ op = [p \in Proc |-> "open"]
  /\ nm = [p \in Proc |-> None]
  /\ ip = [p \in Proc |-> 0]
  /\ dup = [p \in Proc |-> 0]
  /\ inum = [p \in Proc |-> 1]
  /\ panicked = "no"

goto(p, l) == pc' = [pc EXCEPT ![p] = l]

\* Stop the machine.
panic(m) ==
  /\ panicked' = m
  /\ UNCHANGED <<dir, dlock, dinode, icache, locals>>

-----------------------------------------------------------------------------
\* Fault: iget() overlooks a slot that has not been read yet.
FaultHolding(i) == {s \in Slot : icache[s].ref > 0 /\ icache[s].inum = i /\ icache[s].valid}

\* iget(): the slot that holds inode i, or the first empty one.
Holding(i) == {s \in Slot : icache[s].ref > 0 /\ icache[s].inum = i}
Empty == {s \in Slot : icache[s].ref = 0}
SlotFor(i) ==
  IF Holding(i) # {} THEN Holding(i) ELSE {s \in Empty : \A t \in Empty : s <= t}

CanGet(i) == Holding(i) # {} \/ Empty # {}

\* A recycled slot keeps the old copy of type and nlink, but not I_VALID.
iget(i, s) ==
  /\ s \in SlotFor(i)
  /\ icache' = IF Holding(i) # {} THEN [icache EXCEPT ![s].ref = @ + 1]
               ELSE [icache EXCEPT ![s] =
                       [@ EXCEPT !.inum = i, !.ref = 1, !.busy = FALSE, !.valid = FALSE]]

\* A step of p that ends in iget(i), which panics when the cache is full.
GetInto(p, i) == \E s \in Slot : iget(i, s) /\ ip' = [ip EXCEPT ![p] = s]

-----------------------------------------------------------------------------
(* System calls up to the first ilock() of the inode. *)

start(p, n, o) ==
  /\ panicked = "no"
  /\ pc[p] = "idle"
  /\ dlock = None
  /\ op' = [op EXCEPT ![p] = o]
  /\ nm' = [nm EXCEPT ![p] = n]

\* sys_open() and sys_link(): namei() locks dp, looks the name up, unlocks dp.
\* create() of a name that exists does the same.
namei(p, n, o) ==
  /\ start(p, n, o)
  /\ dir[n] # 0
  /\ GetInto(p, dir[n])
  /\ goto(p, "ilock")
  /\ UNCHANGED <<dir, dlock, dinode, dup, inum, panicked>>

\* sys_unlink(): nameiparent(), ilock(dp), dirlookup(); dp stays locked.
unlink(p, n) ==
  /\ start(p, n, "unlink")
  /\ dir[n] # 0
  /\ GetInto(p, dir[n])
  /\ dlock' = p
  /\ goto(p, "ilock")
  /\ UNCHANGED <<dir, dinode, dup, inum, panicked>>

\* create() of a new name goes on to ialloc() with dp locked.
create(p, n) ==
  /\ start(p, n, "create")
  /\ dir[n] = 0
  /\ dlock' = p
  /\ inum' = [inum EXCEPT ![p] = 1]
  /\ goto(p, "ialloc")
  /\ UNCHANGED <<dir, dinode, icache, ip, dup, panicked>>

\* A lookup that finds the name panics when iget() has no slot left.
lookup_panic(p, n) ==
  /\ panicked = "no"
  /\ pc[p] \in {"idle", "link"} /\ dlock = None
  /\ dir[n] # 0 /\ ~CanGet(dir[n])
  /\ panic("iget: no inodes")

-----------------------------------------------------------------------------
(* ialloc() *)

\* The next disk inode is in use.
ialloc_next(p) ==
  /\ panicked = "no"
  /\ pc[p] = "ialloc"
  /\ inum[p] < ninodes /\ dinode[inum[p]].alloc
  /\ inum' = [inum EXCEPT ![p] = @ + 1]
  /\ UNCHANGED <<dir, dlock, dinode, icache, pc, op, nm, ip, dup, panicked>>

\* It is free: clear it and set its type while its buffer is held.
ialloc_take(p) ==
  /\ panicked = "no"
  /\ pc[p] = "ialloc"
  /\ inum[p] < ninodes /\ ~dinode[inum[p]].alloc
  /\ dinode' = [dinode EXCEPT ![inum[p]] = [alloc |-> TRUE, nlink |-> 0]]
  /\ goto(p, "iget")
  /\ UNCHANGED <<dir, dlock, icache, op, nm, ip, dup, inum, panicked>>

\* The panics of ialloc(): every disk inode is taken, or iget() has no slot left.
ialloc_panic(p) ==
  /\ panicked = "no"
  /\ pc[p] \in {"ialloc", "iget"}
  /\ IF pc[p] = "ialloc" THEN inum[p] = ninodes ELSE ~CanGet(inum[p])
  /\ panic(IF pc[p] = "ialloc" THEN "ialloc: no inodes" ELSE "iget: no inodes")

\* return iget(prt, inum)
ialloc_iget(p) ==
  /\ panicked = "no"
  /\ pc[p] = "iget"
  /\ GetInto(p, inum[p])
  /\ inum' = [inum EXCEPT ![p] = 1]
  /\ goto(p, "ilock")
  /\ UNCHANGED <<dir, dlock, dinode, op, nm, dup, panicked>>

-----------------------------------------------------------------------------
(* ilock() and iunlock() *)

me(p) == icache[ip[p]]

ilock_sleep(p) ==
  /\ panicked = "no"
  /\ pc[p] = "ilock" /\ me(p).busy
  /\ goto(p, "sleep")
  /\ UNCHANGED <<dir, dlock, dinode, icache, op, nm, ip, dup, inum, panicked>>

ilock(p) ==
  /\ panicked = "no"
  /\ pc[p] = "ilock" /\ ~me(p).busy
  /\ icache' = [icache EXCEPT ![ip[p]].busy = TRUE]
  /\ goto(p, "read")
  /\ UNCHANGED <<dir, dlock, dinode, op, nm, ip, dup, inum, panicked>>

\* The second half: copy the disk inode unless the slot is valid.
ilock_read(p) ==
  /\ panicked = "no"
  /\ pc[p] = "read"
  /\ IF me(p).valid THEN UNCHANGED <<icache, panicked>>
     ELSE LET d == dinode[me(p).inum] IN
       /\ icache' = [icache EXCEPT ![ip[p]] =
            [@ EXCEPT !.alloc = d.alloc, !.nlink = d.nlink, !.valid = TRUE]]
       /\ panicked' = IF d.alloc THEN "no" ELSE "ilock: no type"
  /\ goto(p, "locked")
  /\ UNCHANGED <<dir, dlock, dinode, op, nm, ip, dup, inum>>

\* wakeup(ip)
Woken(f, s) == [q \in Proc |-> IF f[q] = "sleep" /\ ip[q] = s THEN "ilock" ELSE f[q]]

\* What follows iunlock(ip): keep the file open, go on with sys_link(), or iput().
AfterUnlock(p) ==
  CASE op[p] \in {"open", "create"} -> "open"
    [] op[p] = "link" -> "link"
    [] OTHER -> "iput"

iunlock(p) ==
  /\ panicked = "no"
  /\ pc[p] = "iunlock"
  /\ icache' = [icache EXCEPT ![ip[p]].busy = FALSE]
  /\ pc' = Woken([pc EXCEPT ![p] = AfterUnlock(p)], ip[p])
  /\ UNCHANGED <<dir, dlock, dinode, op, nm, ip, dup, inum, panicked>>

-----------------------------------------------------------------------------
(* What the system calls do with the inode locked. *)

\* iupdate(): set nlink in the slot and copy the slot to disk.
iupdate(p, k) ==
  /\ icache' = [icache EXCEPT ![ip[p]].nlink = k]
  /\ dinode' = [dinode EXCEPT ![me(p).inum] = [alloc |-> me(p).alloc, nlink |-> k]]

\* sys_open() leaves the inode alone.
locked_open(p) ==
  /\ panicked = "no"
  /\ pc[p] = "locked" /\ op[p] = "open"
  /\ goto(p, "iunlock")
  /\ UNCHANGED <<dir, dlock, dinode, icache, op, nm, ip, dup, inum, panicked>>

\* sys_unlink() erases the entry and unlocks dp, then drops the link.
unlink_entry(p) ==
  /\ panicked = "no"
  /\ pc[p] = "locked" /\ op[p] = "unlink"
  /\ IF me(p).nlink < 1
     THEN panic("unlink: nlink < 1")
     ELSE /\ dir' = [dir EXCEPT ![nm[p]] = 0]
          /\ dlock' = None
          /\ goto(p, "update")
          /\ UNCHANGED <<dinode, icache, op, nm, ip, dup, inum, panicked>>

unlink_update(p) ==
  /\ panicked = "no"
  /\ pc[p] = "update" /\ op[p] = "unlink"
  /\ iupdate(p, me(p).nlink - 1)
  /\ goto(p, "iunlock")
  /\ UNCHANGED <<dir, dlock, op, nm, ip, dup, inum, panicked>>

\* create() sets nlink = 1, links the name and unlocks dp.
create_update(p) ==
  /\ panicked = "no"
  /\ pc[p] = "locked" /\ op[p] = "create"
  /\ iupdate(p, 1)
  /\ goto(p, "dirlink")
  /\ UNCHANGED <<dir, dlock, op, nm, ip, dup, inum, panicked>>

create_dirlink(p) ==
  /\ panicked = "no"
  /\ pc[p] = "dirlink"
  /\ dir' = [dir EXCEPT ![nm[p]] = me(p).inum]
  /\ dlock' = None
  /\ goto(p, "iunlock")
  /\ UNCHANGED <<dinode, icache, op, nm, ip, dup, inum, panicked>>

\* Fault: sys_link() goes on to the directory with the inode still locked.
FaultLinkKeepsLock(p) ==
  /\ panicked = "no"
  /\ pc[p] = "locked" /\ op[p] = "link"
  /\ iupdate(p, me(p).nlink + 1)
  /\ goto(p, "link")
  /\ UNCHANGED <<dir, dlock, op, nm, ip, dup, inum, panicked>>

\* sys_link() counts the new link before it makes it ...
link_update(p) ==
  /\ panicked = "no"
  /\ pc[p] = "locked" /\ op[p] = "link"
  /\ iupdate(p, me(p).nlink + 1)
  /\ goto(p, "iunlock")
  /\ UNCHANGED <<dir, dlock, op, nm, ip, dup, inum, panicked>>

\* ... then locks dp and dirlink()s the new name ...
link_dirlink(p, n) ==
  /\ panicked = "no"
  /\ pc[p] = "link" /\ dlock = None
  /\ dir[n] = 0
  /\ dir' = [dir EXCEPT ![n] = me(p).inum]
  /\ goto(p, "iput")
  /\ UNCHANGED <<dlock, dinode, icache, op, nm, ip, dup, inum, panicked>>

\* ... which finds the name taken: it iput()s what dirlookup() returned.
link_taken(p, n) ==
  /\ panicked = "no"
  /\ pc[p] = "link" /\ dlock = None
  /\ dir[n] # 0
  /\ \E s \in Slot : iget(dir[n], s) /\ dup' = [dup EXCEPT ![p] = s]
  /\ dlock' = p
  /\ goto(p, "iput")
  /\ UNCHANGED <<dir, dinode, op, nm, ip, inum, panicked>>

\* Fault: a failed link is not taken back.
FaultNoUndo(p) ==
  /\ panicked = "no"
  /\ pc[p] = "link" /\ dlock = None
  /\ goto(p, "iput")
  /\ UNCHANGED <<dir, dlock, dinode, icache, op, nm, ip, dup, inum, panicked>>

\* The new name cannot be linked at all: no parent, or another partition.
link_fail(p) ==
  /\ panicked = "no"
  /\ pc[p] = "link" /\ dlock = None
  /\ op' = [op EXCEPT ![p] = "bad"]
  /\ goto(p, "ilock")
  /\ UNCHANGED <<dir, dlock, dinode, icache, nm, ip, dup, inum, panicked>>

\* bad: take the link back.
link_undo(p) ==
  /\ panicked = "no"
  /\ pc[p] = "locked" /\ op[p] = "bad"
  /\ iupdate(p, me(p).nlink - 1)
  /\ goto(p, "iunlock")
  /\ UNCHANGED <<dir, dlock, op, nm, ip, dup, inum, panicked>>

-----------------------------------------------------------------------------
(* iput() *)

\* fileclose() of an open file.
close(p) ==
  /\ panicked = "no"
  /\ pc[p] = "open"
  /\ goto(p, "iput")
  /\ UNCHANGED <<dir, dlock, dinode, icache, op, nm, ip, dup, inum, panicked>>

Target(p) == IF dup[p] # 0 THEN dup[p] ELSE ip[p]

\* The pointer is gone.  dirlink() of a taken name returns to sys_link(),
\* which unlocks dp and goes to bad; the other calls of iput() are the last.
Dropped(p) ==
  IF dup[p] # 0
  THEN /\ dup' = [dup EXCEPT ![p] = 0]
       /\ op' = [op EXCEPT ![p] = "bad"]
       /\ dlock' = None
       /\ UNCHANGED <<ip, nm>>
  ELSE /\ ip' = [ip EXCEPT ![p] = 0]
       /\ nm' = [nm EXCEPT ![p] = None]
       /\ op' = [op EXCEPT ![p] = "open"]
       /\ UNCHANGED <<dup, dlock>>

After(p) == IF dup[p] # 0 THEN "ilock" ELSE "idle"

\* Fault: iput() tests the count as if it had been decremented.
FaultRefZero(s) == icache[s].ref = 0 /\ icache[s].valid /\ icache[s].nlink = 0

LastUnlinked(s) == icache[s].ref = 1 /\ icache[s].valid /\ icache[s].nlink = 0

iput(p) ==
  /\ panicked = "no"
  /\ pc[p] = "iput" /\ ~LastUnlinked(Target(p))
  /\ icache' = [icache EXCEPT ![Target(p)].ref = @ - 1]
  /\ Dropped(p)
  /\ goto(p, After(p))
  /\ UNCHANGED <<dir, dinode, inum, panicked>>

\* The last reference of an unlinked inode: lock it ...
iput_last(p) ==
  /\ panicked = "no"
  /\ pc[p] = "iput" /\ LastUnlinked(Target(p))
  /\ IF icache[Target(p)].busy
     THEN panic("iput busy")
     ELSE /\ icache' = [icache EXCEPT ![Target(p)].busy = TRUE]
          /\ goto(p, "free")
          /\ UNCHANGED <<dir, dlock, dinode, op, nm, ip, dup, inum, panicked>>

\* ... without icache.lock, truncate it and clear its type, on disk too ...
iput_free(p) ==
  /\ panicked = "no"
  /\ pc[p] = "free"
  /\ icache' = [icache EXCEPT ![Target(p)].alloc = FALSE]
  /\ dinode' = [dinode EXCEPT ![icache[Target(p)].inum] =
                  [alloc |-> FALSE, nlink |-> icache[Target(p)].nlink]]
  /\ goto(p, "freed")
  /\ UNCHANGED <<dir, dlock, op, nm, ip, dup, inum, panicked>>

\* ... and with it again clear the flags, wake waiters and drop the reference.
iput_finish(p) ==
  /\ panicked = "no"
  /\ pc[p] = "freed"
  /\ icache' = [icache EXCEPT ![Target(p)].busy = FALSE, ![Target(p)].valid = FALSE,
                              ![Target(p)].ref = @ - 1]
  /\ Dropped(p)
  /\ pc' = Woken([pc EXCEPT ![p] = After(p)], Target(p))
  /\ UNCHANGED <<dir, dinode, inum, panicked>>

-----------------------------------------------------------------------------
\* What a process in a system call does next.
step(p) ==
  \/ ialloc_next(p) \/ ialloc_take(p) \/ ialloc_iget(p)
  \/ ialloc_panic(p)
  \/ ilock_sleep(p) \/ ilock(p) \/ ilock_read(p) \/ iunlock(p)
  \/ locked_open(p) \/ unlink_entry(p) \/ unlink_update(p)
  \/ create_update(p) \/ create_dirlink(p)
  \/ link_update(p) \/ link_undo(p) \/ link_fail(p)
  \/ (\E n \in Name : link_dirlink(p, n) \/ link_taken(p, n))
  \/ iput(p) \/ iput_last(p) \/ iput_free(p) \/ iput_finish(p)

\* A system call starts.
syscall(p) ==
  \/ close(p)
  \/ \E n \in Name :
       \/ namei(p, n, "open") \/ namei(p, n, "link") \/ lookup_panic(p, n)
       \/ create(p, n) \/ unlink(p, n)

Next == \E p \in Proc : step(p) \/ syscall(p)

Spec == Init /\ [][Next]_vars

-----------------------------------------------------------------------------
(* Properties. *)

\* A pointer of p is to inode i.
Points(p, i) == ip[p] # 0 /\ me(p).inum = i

\* In these parts of its call p holds the directory, or the inode.
HasDir(p) ==
  \/ pc[p] \in {"ialloc", "iget", "dirlink"}
  \/ pc[p] \in {"ilock", "sleep", "read", "locked"} /\ op[p] \in {"create", "unlink"}
  \/ dup[p] # 0
HasInode(p) == pc[p] \in {"read", "locked", "update", "dirlink", "iunlock", "free", "freed"}

\* create() has allocated inode i and nobody knows of it yet.
New(p, i) ==
  /\ op[p] = "create"
  /\ \/ pc[p] = "iget" /\ inum[p] = i
     \/ pc[p] \in {"ilock", "sleep", "read", "locked"} /\ me(p).inum = i

Uses(p, i) == New(p, i) \/ (Points(p, i) /\ pc[p] # "freed")

\* What a call has of locks and pointers follows from where it is; and what it
\* looked up in the directory stays true as long as it holds the directory.
CallInv(p) ==
  /\ dlock = p <=> HasDir(p)
  /\ ip[p] = 0 <=> pc[p] \in {"idle", "ialloc", "iget"}
  /\ pc[p] \in {"ialloc", "iget", "dirlink"} => op[p] = "create"
  /\ pc[p] = "update" => op[p] = "unlink"
  /\ pc[p] = "link" => op[p] = "link"
  /\ pc[p] = "iget" => inum[p] < ninodes
  /\ pc[p] # "idle" => nm[p] # None
  /\ op[p] = "create" /\ HasDir(p) => dir[nm[p]] = 0
  /\ op[p] = "unlink" /\ HasDir(p) => dir[nm[p]] = me(p).inum
  /\ dup[p] # 0 => /\ pc[p] = "iput" /\ op[p] = "link"
                   /\ \E n \in Name : dir[n] = icache[dup[p]].inum
CallsInv == \A p \in Proc : CallInv(p)

\* A slot is I_BUSY for exactly one process.
BusyIsOwned ==
  /\ \A s \in Slot : icache[s].busy <=> \E p \in Proc : HasInode(p) /\ ip[p] = s
  /\ \A p, q \in Proc : HasInode(p) /\ HasInode(q) /\ ip[p] = ip[q] => p = q

\* iget() never gives one inode two slots: processes that use the same inode
\* lock the same copy.
OneSlotPerInode ==
  /\ \A s \in Slot : icache[s].ref > 0 => icache[s].inum # 0
  /\ \A s, t \in Slot :
       (icache[s].ref > 0 /\ icache[t].ref > 0 /\ icache[s].inum = icache[t].inum) => s = t

\* S has n members: they can be listed, each once.
Counts(n, S) ==
  \E f \in [1..n -> S] :
    /\ \A x \in S : \E k \in 1..n : f[k] = x
    /\ \A j, k \in 1..n : f[j] = f[k] => j = k

\* ip->ref is the number of pointers to the slot.
RefsAreCounted ==
  \A s \in Slot : \E n \in 0..icache[s].ref :
    /\ Counts(n, {p \in Proc : ip[p] = s})
    /\ Counts(icache[s].ref - n, {p \in Proc : dup[p] = s})

\* A copy that is valid agrees with the disk, but for the one iput() has just freed;
\* and a copy that a call has read stays valid while the call has its pointer.
ValidMatchesDisk ==
  /\ \A s \in Slot : LET c == icache[s] IN
       c.ref > 0 /\ c.valid /\ (\A p \in Proc : pc[p] = "freed" => ip[p] # s) =>
         dinode[c.inum] = [alloc |-> c.alloc, nlink |-> c.nlink]
  /\ \A p \in Proc : ip[p] # 0 =>
       me(p).valid \/ (pc[p] \in {"ilock", "sleep", "read"} /\ op[p] # "bad")

\* The link a call has counted and not yet made, or unmade and still counts.
Owes(p, i) ==
  /\ Points(p, i)
  /\ \/ op[p] = "unlink" /\ pc[p] = "update"
     \/ op[p] = "create" /\ pc[p] = "dirlink"
     \/ op[p] = "link" /\ (pc[p] \in {"iunlock", "link"} \/ dup[p] # 0)
     \/ op[p] = "bad" /\ pc[p] \in {"ilock", "sleep", "read", "locked"}

\* nlink counts the names of an inode, give or take the calls under way: once
\* they are over, links, unlinks and failed links have balanced.
LinksAreCounted ==
  \A i \in Inum : \E n \in 0..dinode[i].nlink :
    /\ Counts(n, {m \in Name : dir[m] = i})
    /\ Counts(dinode[i].nlink - n, {p \in Proc : Owes(p, i)})

\* An inode with a name or a pointer to it is allocated: nothing that can
\* still be opened or used is freed under its user.
InUseIsAllocated ==
  \A i \in Inum :
    (\/ \E n \in Name : dir[n] = i
     \/ \E p \in Proc : Uses(p, i))
    => dinode[i].alloc

\* An allocated inode without links is still held by somebody, whose iput()
\* will free it.
UnlinkedIsHeld ==
  \A i \in Inum : dinode[i].alloc /\ dinode[i].nlink = 0 =>
    \E p \in Proc : Uses(p, i)

\* Nobody else has an inode that iput() is about to free; one that it has freed may
\* be taken again at once, but only to wait for its lock.
FreedIsAlone ==
  \A p \in Proc :
    /\ pc[p] = "free" => me(p).ref = 1 /\ me(p).nlink = 0
    /\ pc[p] = "freed" => dinode[me(p).inum].nlink = 0
    /\ \A q \in Proc \ {p} : pc[p] = "freed" /\ ip[q] = ip[p] =>
         op[q] = "create" /\ pc[q] \in {"ilock", "sleep"}

\* Nobody else has an inode that create() has allocated, but an iput() that has just
\* freed it.
NewIsAlone ==
  \A p \in Proc, i \in Inum : New(p, i) =>
    /\ dinode[i].nlink = 0
    /\ \A q \in Proc \ {p} : Points(q, i) => pc[q] = "freed"

\* Of the panics of this layer only the full tables can happen.
NoInodePanic == panicked \in {"no", "iget: no inodes", "ialloc: no inodes"}

\* A process asleep in ilock() waits for an inode that is locked.
LockSleeperHasWaker == \A p \in Proc : pc[p] = "sleep" => me(p).busy

\* The locks of the directory and of inodes never close a circle: as long as a
\* call is under way, some call can go on.  sys_link() gives up the inode before
\* it takes the directory; sys_unlink() keeps the directory while it waits.
CallsGoOn ==
  \/ panicked # "no"
  \/ \A p \in Proc : pc[p] \in {"idle", "open"}
  \/ \E p \in Proc : ENABLED step(p)

\* The cache is sound at every step of iget(), ilock(), iunlock() and iput(): an
\* inode has one slot, a slot counts its pointers and has one owner, a valid copy
\* agrees with the disk, no wakeup is lost, and no check of the code fails but the
\* ones for full tables.
IcacheInv ==
  /\ TypeOK /\ CallsInv /\ BusyIsOwned /\ OneSlotPerInode /\ RefsAreCounted
  /\ ValidMatchesDisk /\ LockSleeperHasWaker /\ NoInodePanic

\* Inodes are freed when, and only when, nobody can reach them any more.
FreedWhenUnreachable == InUseIsAllocated /\ UnlinkedIsHeld /\ FreedIsAlone /\ NewIsAlone
=============================================================================
