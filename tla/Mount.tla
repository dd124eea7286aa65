------------------------------- MODULE Mount --------------------------------
(***************************************************************************)
(* The mount table of fs.c: mount(), and what namex(), dirlookup() and     *)
(* is_inode_mounted() make of it.                                          *)
(*                                                                         *)
(* The table has no lock.  A slot is claimed with a compare-and-swap and   *)
(* then filled field by field, the path byte by byte; a search looks at    *)
(* one slot at a time.  So here a step is one slot of a search or one      *)
(* store.  strncmp() reads a path while memmove() stores it: the bytes go  *)
(* from 0 to their value once, from left to right, so that the answer is   *)
(* the one for the path as it is at the last byte read, in one step.       *)
(*                                                                         *)
(* The table is searched for the characters of a path, whatever directory  *)
(* they lead to: several paths may lead to one directory, and one path to  *)
(* different directories for different processes.  Paths that lead through *)
(* another mount point are left out.  Of the inode cache only the roots of *)
(* the partitions are kept.                                                *)
(***************************************************************************)
EXTENDS Integers, Sequences

CONSTANTS Proc, Letter,
          Path,        \* what the calls name: sequences of letters
          Dir,         \* directories of the boot partition
          Leads,       \* the directory a process gets from a path that is not
                       \* mounted (it has a working directory), None if none
          Name,        \* what follows the path of a directory to name a file in it
          DIRSIZ,      \* the characters that namecmp() and struct mount_point look at
          Partition,   \* what can be mounted
          None,        \* a null pointer
          Lost,        \* the root inode of a null partition
          SIZE,        \* MOUNT_POINTS_SIZE
          MaxCalls     \* bound: system calls in a behaviour

ASSUME MountConstants ==
  /\ SIZE \in Nat \ {0} /\ DIRSIZ \in Nat /\ MaxCalls \in Nat
  /\ Path \subseteq Seq(Letter) /\ Name \in Seq(Letter)
  /\ Leads \in [Proc -> [Path -> Dir \cup {None}]]
  /\ None \notin Dir \cup Partition /\ Lost \notin Dir \cup Partition \cup {None}
  /\ "boot" \notin Partition

VARIABLES
  pnts,      \* mount_points.pnts
  root,      \* the cache entry of each partition's root inode
  pc, op,    \* per process: where it is; "mount", "self" or "below"
  path,      \* the path of its call, the name below it included
  dir,       \* the directory that leads to
  prt,       \* the partition to mount there
  it,        \* the slot it looks at
  ip,        \* the root inode it points to, None if none
  panicked, calls

tables == <<pnts, root>>
locals == <<pc, op, path, dir, prt, it, ip>>
vars == <<tables, locals, panicked, calls>>

Slot == 1..SIZE

\* struct mount_point, and what is kept of a struct inode.  The path is what
\* precedes its first 0.
MountPoint == [is_taken : BOOLEAN, path : Seq(Letter), prt : Partition \cup {None},
               old_i : Dir \cup {None, Lost}, old_prt : Partition \cup {"boot", "null"}]
Inode == [ref : Nat, valid : BOOLEAN, busy : BOOLEAN]

TypeOK ==
  /\ pnts \in [Slot -> MountPoint]
  /\ root \in [Partition -> Inode]
  /\ pc \in [Proc -> {"idle", "is_mounted", "find_mp", "inode_mounted",
                      "again", "mpalloc", "path", "prt", "old_i", "old_prt",
                      "ilock", "iunlock", "open"}]
  /\ op \in [Proc -> {"mount", "self", "below"}]
  /\ path \in [Proc -> Seq(Letter)]
  /\ dir \in [Proc -> Dir \cup {None}]
  /\ prt \in [Proc -> Partition \cup {None}]
  /\ it \in [Proc -> 1..(SIZE + 1)]
  /\ ip \in [Proc -> Partition \cup {None, Lost}]
  /\ panicked \in {"no", "ilock no partition", "dirlookup not DIR", "find_mp null"}
  /\ calls \in 0..MaxCalls

\* The table is static storage, so all zero.
Init ==
  /\ pnts = [s \in Slot |-> [is_taken |-> FALSE, path |-> <<>>, prt |-> None,
                             old_i |-> None, old_prt |-> "null"]]
  /\ root = [q \in Partition |-> [ref |-> 0, valid |-> FALSE, busy |-> FALSE]]
  /\ pc = [p \in Proc |-> "idle"]
  /\ op = [p \in Proc |-> "self"]
  /\ path = [p \in Proc |-> <<>>]
  /\ dir = [p \in Proc |-> None]
  /\ prt = [p \in Proc |-> None]
  /\ it = [p \in Proc |-> 1]
  /\ ip = [p \in Proc |-> None]
  /\ panicked = "no"
  /\ calls = 0

goto(p, l) == pc' = [pc EXCEPT ![p] = l]

\* p leaves the kernel and forgets what it worked on.
return(p) ==
  /\ goto(p, "idle")
  /\ op' = [op EXCEPT ![p] = "self"]
  /\ path' = [path EXCEPT ![p] = <<>>]
  /\ dir' = [dir EXCEPT ![p] = None]
  /\ prt' = [prt EXCEPT ![p] = None]
  /\ it' = [it EXCEPT ![p] = 1]
  /\ ip' = [ip EXCEPT ![p] = None]

\* A search: p looks at slot it[p], goes on while it does not match, and
\* ends up at found with it[p] the slot, or at missing.
At(p, l) == panicked = "no" /\ pc[p] = l
next(p) == it' = [it EXCEPT ![p] = @ + 1]
rewind(p) == it' = [it EXCEPT ![p] = 1]
here(p) == pnts[it[p]]

\* The part of a path that mount() stores and namecmp() compares.
Cut(x) == [i \in 1..(IF Len(x) < DIRSIZ THEN Len(x) ELSE DIRSIZ) |-> x[i]]

\* find_mp() compares the path only, and not is_taken.
PathMatches(p) == it[p] <= SIZE /\ here(p).path = Cut(path[p])
InodeMatches(p) == it[p] <= SIZE /\ here(p).old_i = dir[p] /\ here(p).old_prt = "boot"

\* iget(): a root that nobody points to gets a fresh, invalid slot.
Got(q) ==
  [root EXCEPT ![q] =
     IF root[q].ref > 0 THEN [root[q] EXCEPT !.ref = root[q].ref + 1]
     ELSE [ref |-> 1, valid |-> FALSE, busy |-> FALSE]]

-----------------------------------------------------------------------------
(* namex() *)

\* A process opens a directory, a file in it, or mounts partition q there.
call(p, o, x, q) ==
  /\ At(p, "idle")
  /\ calls < MaxCalls
  /\ calls' = calls + 1
  /\ op' = [op EXCEPT ![p] = o]
  /\ path' = [path EXCEPT ![p] = IF o = "below" THEN x \o Name ELSE x]
  /\ dir' = [dir EXCEPT ![p] = Leads[p][x]]
  /\ prt' = [prt EXCEPT ![p] = IF o = "mount" THEN q ELSE None]
  /\ goto(p, "is_mounted")
  /\ UNCHANGED <<tables, it, ip, panicked>>

\* is_mounted(path), at the start of namex()
is_mounted_next(p) ==
  /\ At(p, "is_mounted")
  /\ it[p] <= SIZE /\ ~PathMatches(p)
  /\ next(p)
  /\ UNCHANGED <<tables, pc, op, path, dir, prt, ip, panicked, calls>>

is_mounted_yes(p) ==
  /\ At(p, "is_mounted")
  /\ PathMatches(p)
  /\ rewind(p)
  /\ goto(p, "find_mp")
  /\ UNCHANGED <<tables, op, path, dir, prt, ip, panicked, calls>>

\* Not mounted: walk the path.  A name below the directory makes dirlookup()
\* ask is_inode_mounted(); mount() goes on with the directory's inode; the
\* lookup of the directory itself is over, and every call is if there is none.
is_mounted_no(p) ==
  /\ At(p, "is_mounted")
  /\ it[p] > SIZE
  /\ IF op[p] = "self" \/ dir[p] = None THEN return(p)
     ELSE /\ goto(p, IF op[p] = "below" THEN "inode_mounted" ELSE "again")
          /\ rewind(p)
          /\ UNCHANGED <<op, path, dir, prt, ip>>
  /\ UNCHANGED <<tables, panicked, calls>>

find_mp_next(p) ==
  /\ At(p, "find_mp")
  /\ it[p] <= SIZE /\ ~PathMatches(p)
  /\ next(p)
  /\ UNCHANGED <<tables, pc, op, path, dir, prt, ip, panicked, calls>>

\* find_mp(path)->prt of a null pointer: what follows is undefined.
find_mp_null(p) ==
  /\ At(p, "find_mp")
  /\ it[p] > SIZE
  /\ panicked' = "find_mp null"
  /\ UNCHANGED <<tables, locals, calls>>

\* Fault: the root inode is used without iget().
FaultNoIget(p) ==
  /\ At(p, "find_mp")
  /\ PathMatches(p)
  /\ ip' = [ip EXCEPT ![p] = here(p).prt]
  /\ rewind(p)
  /\ goto(p, IF op[p] = "mount" THEN "again" ELSE "ilock")
  /\ UNCHANGED <<tables, op, path, dir, prt, panicked, calls>>

\* ip = iget(find_mp(path)->prt, ROOTINO).  sys_open() goes on to ilock(ip),
\* which panics without a partition; mount() does not lock.
find_mp_iget(p) ==
  /\ At(p, "find_mp")
  /\ PathMatches(p)
  /\ LET q == here(p).prt IN
       /\ root' = IF q = None THEN root ELSE Got(q)
       /\ ip' = [ip EXCEPT ![p] = IF q = None THEN Lost ELSE q]
       /\ panicked' = IF q = None /\ op[p] # "mount" THEN "ilock no partition" ELSE "no"
  /\ rewind(p)
  /\ goto(p, IF op[p] = "mount" THEN "again" ELSE "ilock")
  /\ UNCHANGED <<pnts, op, path, dir, prt, calls>>

-----------------------------------------------------------------------------
(* The root inode of a mounted partition, opened by its mount path. *)

ilock(p) ==
  /\ At(p, "ilock")
  /\ ~root[ip[p]].busy
  /\ root' = [root EXCEPT ![ip[p]] = [@ EXCEPT !.busy = TRUE, !.valid = TRUE]]
  /\ goto(p, "iunlock")
  /\ UNCHANGED <<pnts, op, path, dir, prt, it, ip, panicked, calls>>

iunlock(p) ==
  /\ At(p, "iunlock")
  /\ root' = [root EXCEPT ![ip[p]].busy = FALSE]
  /\ goto(p, "open")
  /\ UNCHANGED <<pnts, op, path, dir, prt, it, ip, panicked, calls>>

\* fileclose() and its iput()
close(p) ==
  /\ At(p, "open")
  /\ root' = [root EXCEPT ![ip[p]].ref = @ - 1]
  /\ return(p)
  /\ UNCHANGED <<pnts, panicked, calls>>

-----------------------------------------------------------------------------
(* dirlookup() of a name below the directory *)

inode_mounted_next(p) ==
  /\ At(p, "inode_mounted")
  /\ it[p] <= SIZE /\ ~InodeMatches(p)
  /\ next(p)
  /\ UNCHANGED <<tables, pc, op, path, dir, prt, ip, panicked, calls>>

inode_mounted_no(p) ==
  /\ At(p, "inode_mounted")
  /\ it[p] > SIZE
  /\ return(p)
  /\ UNCHANGED <<tables, panicked, calls>>

\* dp = iget(mnt_prt, ROOTINO): the lookup reads dp->type, dp->size and the
\* entries of that inode as it finds them and returns without an iput(dp).  The
\* type of an inode that is not valid is whatever the slot held before.
inode_mounted_yes(p) ==
  /\ At(p, "inode_mounted")
  /\ InodeMatches(p)
  /\ LET q == here(p).prt IN
       /\ root' = Got(q)
       /\ panicked' \in IF root'[q].valid THEN {"no"} ELSE {"no", "dirlookup not DIR"}
  /\ return(p)
  /\ UNCHANGED <<pnts, calls>>

-----------------------------------------------------------------------------
(* mount(), after its namei() *)

\* "trying to mount an allready mounted path": return -1.
mounted_next(p) ==
  /\ At(p, "again")
  /\ it[p] <= SIZE /\ ~PathMatches(p)
  /\ next(p)
  /\ UNCHANGED <<tables, pc, op, path, dir, prt, ip, panicked, calls>>

mounted_yes(p) ==
  /\ At(p, "again")
  /\ PathMatches(p)
  /\ return(p)
  /\ UNCHANGED <<tables, panicked, calls>>

mounted_no(p) ==
  /\ At(p, "again")
  /\ it[p] > SIZE
  /\ rewind(p)
  /\ goto(p, "mpalloc")
  /\ UNCHANGED <<tables, op, path, dir, prt, ip, panicked, calls>>

\* mpalloc(): cas(&it->is_taken, 0, 1) on one slot after the other
mpalloc_next(p) ==
  /\ At(p, "mpalloc")
  /\ it[p] <= SIZE /\ here(p).is_taken
  /\ next(p)
  /\ UNCHANGED <<tables, pc, op, path, dir, prt, ip, panicked, calls>>

\* Fault: is_taken is tested and not set.
FaultNotTaken(p) ==
  /\ At(p, "mpalloc")
  /\ it[p] <= SIZE /\ ~here(p).is_taken
  /\ goto(p, "path")
  /\ UNCHANGED <<tables, op, path, dir, prt, it, ip, panicked, calls>>

mpalloc(p) ==
  /\ At(p, "mpalloc")
  /\ it[p] <= SIZE /\ ~here(p).is_taken
  /\ pnts' = [pnts EXCEPT ![it[p]].is_taken = TRUE]
  /\ goto(p, "path")
  /\ UNCHANGED <<root, op, path, dir, prt, it, ip, panicked, calls>>

mpalloc_full(p) ==
  /\ At(p, "mpalloc")
  /\ it[p] > SIZE
  /\ return(p)
  /\ UNCHANGED <<tables, panicked, calls>>

\* Then the fields, in this order: memmove() of the path, a byte at a time,
set_path(p) ==
  /\ At(p, "path")
  /\ Len(here(p).path) < Len(Cut(path[p]))
  /\ pnts' = [pnts EXCEPT ![it[p]].path = Append(@, path[p][Len(@) + 1])]
  /\ UNCHANGED <<root, pc, op, path, dir, prt, it, ip, panicked, calls>>

path_done(p) ==
  /\ At(p, "path")
  /\ Len(here(p).path) >= Len(Cut(path[p]))
  /\ goto(p, "prt")
  /\ UNCHANGED <<tables, op, path, dir, prt, it, ip, panicked, calls>>

\* the partition,
set_prt(p) ==
  /\ At(p, "prt")
  /\ pnts' = [pnts EXCEPT ![it[p]].prt = prt[p]]
  /\ goto(p, "old_i")
  /\ UNCHANGED <<root, op, path, dir, prt, it, ip, panicked, calls>>

\* What mount() keeps of the inode that namei() gave it: its number, and its
\* partition.
OldInode(p) == IF ip[p] = None THEN dir[p] ELSE Lost
OldPartition(p) == IF ip[p] = None THEN "boot" ELSE IF ip[p] = Lost THEN "null" ELSE ip[p]

\* Fault: the inode number is not stored.
FaultNoOldInode(p) ==
  /\ At(p, "old_i")
  /\ goto(p, "old_prt")
  /\ UNCHANGED <<tables, op, path, dir, prt, it, ip, panicked, calls>>

\* the inode,
set_old_i(p) ==
  /\ At(p, "old_i")
  /\ pnts' = [pnts EXCEPT ![it[p]].old_i = OldInode(p)]
  /\ goto(p, "old_prt")
  /\ UNCHANGED <<root, op, path, dir, prt, it, ip, panicked, calls>>

\* and the partition of the inode.
set_old_prt(p) ==
  /\ At(p, "old_prt")
  /\ pnts' = [pnts EXCEPT ![it[p]].old_prt = OldPartition(p)]
  /\ return(p)
  /\ UNCHANGED <<root, panicked, calls>>

-----------------------------------------------------------------------------
namex(p) ==
  \/ is_mounted_next(p) \/ is_mounted_yes(p) \/ is_mounted_no(p)
  \/ find_mp_next(p) \/ find_mp_null(p) \/ find_mp_iget(p)

dirlookup(p) == inode_mounted_next(p) \/ inode_mounted_yes(p) \/ inode_mounted_no(p)

mount(p) ==
  \/ mounted_next(p) \/ mounted_yes(p) \/ mounted_no(p)
  \/ mpalloc_next(p) \/ mpalloc(p) \/ mpalloc_full(p)
  \/ set_path(p) \/ path_done(p) \/ set_prt(p) \/ set_old_i(p) \/ set_old_prt(p)

Next ==
  \E p \in Proc :
    \/ \E o \in {"mount", "self", "below"}, x \in Path, q \in Partition : call(p, o, x, q)
    \/ namex(p) \/ dirlookup(p) \/ mount(p)
    \/ ilock(p) \/ iunlock(p) \/ close(p)

Spec == Init /\ [][Next]_vars

-----------------------------------------------------------------------------
(* Properties. *)

\* Path a is where path b begins, or only where it begins.
Begins(a, b) == Len(a) <= Len(b) /\ \A i \in 1..Len(a) : a[i] = b[i]
Within(a, b) == Begins(a, b) /\ Len(a) < Len(b)

\* A path of the table goes on where c ends: c has been there to match while
\* mount() stored the longer one.
Torn(c) == \E s \in Slot : Within(c, pnts[s].path)

\* The slots a search by path, and one by inode, stops at.
ByPath(x) == {s \in Slot : pnts[s].path = Cut(x)}
ByInode(d) == {s \in Slot : pnts[s].old_i = d /\ pnts[s].old_prt = "boot"}
First(S) == CHOOSE s \in S : \A t \in S : s <= t

Filling(p) == pc[p] \in {"path", "prt", "old_i", "old_prt"}
Mounting(p) == pc[p] \in {"again", "mpalloc"} \/ Filling(p)

\* Path x, as far as it is compared, leads to directory d and nowhere else.
StandsFor(x, d) ==
  \A p \in Proc : \A y \in Path : Cut(y) = Cut(x) => Leads[p][y] = d

\* No entry is spelled with another path to d, or with a longer one than x.
SpelledOnly(x, d) ==
  \A s \in Slot :
    /\ ~Within(Cut(x), pnts[s].path)
    /\ \A p \in Proc : \A y \in Path :
         Leads[p][y] = d /\ pnts[s].path = Cut(y) => Cut(y) = Cut(x)

\* No mount of d, and none of a path that goes on where x ends, is under way.
Settled(x, d) ==
  \A p \in Proc : op[p] = "mount" => dir[p] # d /\ ~Begins(Cut(x), Cut(path[p]))

\* Whenever no mount of a directory is under way, its own path and the paths
\* below it lead to the same partition, or neither is mounted, even if two
\* processes mounted it at once: for a path that stands for that directory, when
\* the table has no other path to it and none that goes on where this one ends.
\* (The empty path is that of every slot that nobody has used.)
ViewsAgree ==
  \A x \in Path : \A d \in Dir :
    Cut(x) # <<>> /\ StandsFor(x, d) /\ SpelledOnly(x, d) /\ Settled(x, d) =>
      /\ (ByPath(x) = {}) <=> (ByInode(d) = {})
      /\ ByPath(x) # {} => pnts[First(ByPath(x))].prt = pnts[First(ByInode(d))].prt

\* A finished entry is never written again: the compare-and-swap in mpalloc()
\* gives a slot to one process.
EntriesArePermanent ==
  [][\A s \in Slot : pnts[s].old_prt = "boot" => pnts'[s] = pnts[s]]_vars

\* n references are enough for the pointers to root q: they can be dealt out to the
\* processes so that each one that points to q has a reference of its own.
Covers(n, q) ==
  \E holder \in [1..n -> Proc] :
    \A p \in Proc : ip[p] = q => \E i \in 1..n : holder[i] = p

\* The root of a mounted partition keeps its cache slot as long as a process
\* points to it: ref counts at least the pointers (dirlookup() and mount() leave
\* references behind, so it may count more).
RefCoversPointers == \A q \in Partition : Covers(root[q].ref, q)

\* The entry that mount() has made when it is at l
EntryAt(p, l, e) ==
  /\ e.is_taken = TRUE /\ e.old_prt = "null"
  /\ IF l = "path" THEN Begins(e.path, Cut(path[p])) ELSE e.path = Cut(path[p])
  /\ e.prt = IF l \in {"path", "prt"} THEN None ELSE prt[p]
  /\ e.old_i = IF l = "old_prt" THEN OldInode(p) ELSE None
Half(p) == EntryAt(p, pc[p], pnts[it[p]])

Blank(s) ==
  pnts[s] = [is_taken |-> FALSE, path |-> <<>>, prt |-> None, old_i |-> None,
             old_prt |-> "null"]

\* A path of a call that leads to directory d
Spells(c, d) == \E p \in Proc : \E y \in Path : Leads[p][y] = d /\ c = Cut(y)

\* A finished entry has its partition, and its inode is that of a directory that
\* its path leads to; or, with no such inode, its path has been torn.
Complete(s) ==
  /\ pnts[s].is_taken = TRUE /\ pnts[s].prt \in Partition
  /\ \E y \in Path : pnts[s].path = Cut(y)
  /\ IF pnts[s].old_prt = "boot"
     THEN pnts[s].old_i \in Dir /\ Spells(pnts[s].path, pnts[s].old_i)
     ELSE Torn(pnts[s].path)

\* mpalloc() and the stores after it: a slot is untouched, finished, or filled by one
\* process, with the fields that this process has stored and no others.
SlotsSound ==
  /\ \A s \in Slot : Blank(s) \/ Complete(s) \/ \E p \in Proc : Filling(p) /\ it[p] = s
  /\ \A p \in Proc : Filling(p) => it[p] \in Slot /\ Half(p)
  /\ \A p, q \in Proc : Filling(p) /\ Filling(q) /\ it[p] = it[q] => p = q

\* namex() searches the table twice and uses the second answer unchecked.  What
\* is_mounted() has seen is still ahead when find_mp() looks for it, unless that was
\* the beginning of a longer path that mount() was storing.
StillAhead(c, i) == Torn(c) \/ \E s \in Slot : i <= s /\ Begins(c, pnts[s].path)
Found(p) ==
  /\ pc[p] = "find_mp" \/ (pc[p] = "again" /\ ip[p] # None) => StillAhead(Cut(path[p]), it[p])
  /\ (pc[p] = "mpalloc" \/ Filling(p)) /\ ip[p] # None => Torn(Cut(path[p]))
FoundAgain == \A p \in Proc : Found(p)

\* A null pointer of find_mp() is followed only because of such a path.
NullOnlyIfTorn ==
  panicked = "find_mp null" => \E p \in Proc : pc[p] = "find_mp" /\ Torn(Cut(path[p]))

\* What a process works on, by where it is in its call
CallSound(p) ==
  /\ pc[p] = "idle" => op[p] = "self" /\ it[p] = 1
  /\ pc[p] \in {"idle", "is_mounted", "find_mp", "inode_mounted"} => ip[p] = None
  /\ op[p] = "mount" =>
       prt[p] \in Partition /\ path[p] \in Path /\ dir[p] = Leads[p][path[p]]
  /\ Mounting(p) => op[p] = "mount" /\ (ip[p] = None => dir[p] \in Dir)
  /\ pc[p] = "inode_mounted" => dir[p] \in Dir
  /\ pc[p] \in {"ilock", "iunlock", "open"} =>
       op[p] # "mount" /\ (panicked = "no" => ip[p] \in Partition)

\* The table and the root inodes are sound at every step of lookups and mounts: a slot
\* in use keeps its references, every slot is blank, finished or one process's, an
\* entry found by inode is a finished one of a path to that inode, and find_mp() finds
\* what is_mounted() found or a path that was being stored.
MountInv ==
  /\ TypeOK /\ RefCoversPointers
  /\ SlotsSound /\ FoundAgain /\ NullOnlyIfTorn
  /\ \A p \in Proc : CallSound(p)
=============================================================================
