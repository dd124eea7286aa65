----------------------------- MODULE MountProofs ----------------------------
(***************************************************************************)
(* MountInv is an invariant of Mount for every set of processes,           *)
(* directories and partitions and every size of the table, and it implies  *)
(* that the two searches of the table agree and that an entry stays.       *)
(***************************************************************************)
EXTENDS Mount, TLAPS

\* Time for the provers, and a second try for the first of them
USE SMTT(10), SMTT(30), ZenonT(30)

\* A step of p leaves what the other processes work on alone.
OthersKept(p) ==
  \A q \in Proc \ {p} :
    /\ pc'[q] = pc[q] /\ op'[q] = op[q] /\ path'[q] = path[q] /\ dir'[q] = dir[q]
    /\ prt'[q] = prt[q] /\ it'[q] = it[q] /\ ip'[q] = ip[q]

-----------------------------------------------------------------------------
(* Paths, and what a search that goes from slot to slot knows of them *)

\* Cut() makes a path of a path.
LEMMA CutIsPath ==
  ASSUME NEW x \in Seq(Letter) PROVE Cut(x) \in Seq(Letter)
<1>. DEFINE n == IF Len(x) < DIRSIZ THEN Len(x) ELSE DIRSIZ
<1>1. n \in Nat /\ n <= Len(x)
  BY MountConstants
<1>2. \A i \in 1..n : x[i] \in Letter
  BY <1>1
<1>. QED
  BY <1>1, <1>2 DEF Cut

LEMMA BeginsItself ==
  ASSUME NEW a \in Seq(Letter) PROVE Begins(a, a)
BY DEF Begins

LEMMA BeginsTrans ==
  ASSUME NEW a \in Seq(Letter), NEW b \in Seq(Letter), NEW c \in Seq(Letter), Begins(b, c)
  PROVE  /\ Begins(a, b) => Begins(a, c)
         /\ Within(a, b) => Within(a, c)
BY DEF Begins, Within

\* A path that begins another one is that path or ends within it.
LEMMA BeginsOrWithin ==
  ASSUME NEW a \in Seq(Letter), NEW b \in Seq(Letter), Begins(a, b), ~Within(a, b)
  PROVE  a = b
<1>1. Len(a) = Len(b) /\ \A i \in 1..Len(a) : a[i] = b[i]
  BY DEF Begins, Within
<1>. QED
  BY <1>1

\* memmove(): one more byte of the path.
LEMMA OneMoreLetter ==
  ASSUME NEW a \in Seq(Letter), NEW x \in Seq(Letter), Begins(a, Cut(x)), Len(a) < Len(Cut(x))
  PROVE  LET b == Append(a, x[Len(a) + 1]) IN
         b \in Seq(Letter) /\ Begins(a, b) /\ Begins(b, Cut(x))
<1>. DEFINE n == Len(a) + 1
            b == Append(a, x[n])
<1>1. n \in 1..Len(Cut(x)) /\ n \in 1..Len(x) /\ Cut(x)[n] = x[n]
  BY MountConstants DEF Cut
<1>2. b \in Seq(Letter) /\ Len(b) = n /\ b[n] = x[n] /\ \A i \in 1..Len(a) : b[i] = a[i]
  BY <1>1
<1>. HIDE DEF b
<1>3. Begins(a, b)
  BY <1>2 DEF Begins
<1>4. Begins(b, Cut(x))
  BY <1>1, <1>2, CutIsPath DEF Begins
<1>. QED
  BY <1>2, <1>3, <1>4 DEF b

\* The paths of the table, and those of the calls
LEMMA PathTypes ==
  TypeOK => /\ \A s \in Slot : pnts[s].path \in Seq(Letter)
            /\ \A p \in Proc : path[p] \in Seq(Letter) /\ Cut(path[p]) \in Seq(Letter)
<1>. SUFFICES ASSUME TypeOK
              PROVE  /\ \A s \in Slot : pnts[s].path \in Seq(Letter)
                     /\ \A p \in Proc : path[p] \in Seq(Letter) /\ Cut(path[p]) \in Seq(Letter)
  OBVIOUS
<1>1. \A s \in Slot : pnts[s].path \in Seq(Letter)
  BY Zenon DEF TypeOK, MountPoint
<1>2. \A p \in Proc : path[p] \in Seq(Letter)
  BY Zenon DEF TypeOK
<1>. QED
  BY <1>1, <1>2, CutIsPath

\* A search for c goes on from a slot that is not c's: what it looks for is still
\* ahead, or was the beginning of the path in that slot.
LEMMA AheadOfNext ==
  ASSUME TypeOK, NEW c \in Seq(Letter), NEW i \in Slot, StillAhead(c, i), pnts[i].path # c
  PROVE  StillAhead(c, i + 1)
<1>. SUFFICES ASSUME NEW s \in Slot, i <= s, Begins(c, pnts[s].path) PROVE StillAhead(c, i + 1)
  BY Zenon DEF StillAhead
<1>1. CASE s = i
  BY <1>1, BeginsOrWithin, PathTypes DEF StillAhead, Torn
<1>2. CASE s # i
  <2>1. i + 1 <= s
    BY <1>2 DEF Slot
  <2>. QED
    BY <2>1, Zenon DEF StillAhead
<1>. QED
  BY <1>1, <1>2

\* At the end of the table nothing is ahead.
LEMMA NothingAhead ==
  ASSUME NEW c, NEW i \in 1..(SIZE + 1), i > SIZE, StillAhead(c, i)
  PROVE  Torn(c)
<1>1. \A s \in Slot : ~(i <= s)
  BY MountConstants DEF Slot
<1>. QED
  BY <1>1, Zenon DEF StillAhead

\* The paths of the table only ever grow, so that neither is lost.
PathsGrow == \A s \in Slot : Begins(pnts[s].path, pnts'[s].path)

LEMMA AheadStays ==
  ASSUME TypeOK, TypeOK', PathsGrow, NEW c \in Seq(Letter)
  PROVE  /\ Torn(c) => Torn(c)'
         /\ \A i \in 1..(SIZE + 1) : StillAhead(c, i) => StillAhead(c, i)'
<1>1. \A s \in Slot : pnts[s].path \in Seq(Letter)
  BY PathTypes
<1>2. \A s \in Slot : pnts'[s].path \in Seq(Letter)
  BY Zenon DEF TypeOK, MountPoint
<1>3. ASSUME NEW s \in Slot
      PROVE  /\ Begins(c, pnts[s].path) => Begins(c, pnts'[s].path)
             /\ Within(c, pnts[s].path) => Within(c, pnts'[s].path)
  BY <1>1, <1>2, BeginsTrans DEF PathsGrow
<1>4. Torn(c) => Torn(c)'
  BY <1>3, Zenon DEF Torn
<1>5. ASSUME NEW i \in 1..(SIZE + 1), StillAhead(c, i) PROVE StillAhead(c, i)'
  BY <1>3, <1>4, <1>5, Zenon DEF StillAhead
<1>. QED
  BY <1>4, <1>5

\* So what the other processes know of their searches stays true.
LEMMA OthersFound ==
  ASSUME MountInv, TypeOK', PathsGrow, NEW p \in Proc, OthersKept(p), NEW q \in Proc \ {p}
  PROVE  Found(q)'
<1>1. /\ pc'[q] = pc[q] /\ path'[q] = path[q] /\ it'[q] = it[q] /\ ip'[q] = ip[q]
  BY DEF OthersKept
<1>2. Cut(path[q]) \in Seq(Letter) /\ it[q] \in 1..(SIZE + 1) /\ Found(q)
  BY PathTypes, Zenon DEF MountInv, TypeOK, FoundAgain
<1>3. PICK c \in Seq(Letter) : c = Cut(path[q])
  BY <1>2
<1>4. /\ Torn(c) => Torn(c)'
      /\ StillAhead(c, it[q]) => StillAhead(c, it[q])'
  <2>1. PICK i \in 1..(SIZE + 1) : i = it[q]
    BY <1>2
  <2>2. (Torn(c) => Torn(c)') /\ (StillAhead(c, i) => StillAhead(c, i)')
    BY AheadStays DEF MountInv
  <2>. QED
    BY <1>1, <2>1, <2>2, Zenon DEF StillAhead
<1>5. Cut(path'[q]) = c
  BY <1>1, <1>3
<1>. QED
  BY <1>1, <1>2, <1>3, <1>4, <1>5, Zenon DEF Found, Filling, Cut, StillAhead, Torn

-----------------------------------------------------------------------------
(* The pointers to a root inode *)

\* A step of p that gains no pointer to q needs no more references.
LEMMA PointersShrink ==
  ASSUME NEW p \in Proc, NEW q, OthersKept(p), ip'[p] = q => ip[p] = q, NEW n \in Nat, Covers(n, q)
  PROVE  Covers(n, q)'
<1>1. \A r \in Proc : ip'[r] = q => ip[r] = q
  BY DEF OthersKept
<1>. QED
  BY <1>1 DEF Covers

\* A step of p needs at most one more.
LEMMA PointersGrow ==
  ASSUME NEW p \in Proc, NEW q, OthersKept(p), NEW n \in Nat, Covers(n, q)
  PROVE  Covers(n + 1, q)'
<1>1. PICK f \in [1..n -> Proc] : \A r \in Proc : ip[r] = q => \E i \in 1..n : f[i] = r
  BY DEF Covers
<1>. DEFINE g == [i \in 1..(n + 1) |-> IF i <= n THEN f[i] ELSE p]
<1>2. g \in [1..(n + 1) -> Proc]
  OBVIOUS
<1>3. ASSUME NEW r \in Proc, ip'[r] = q PROVE \E i \in 1..(n + 1) : g[i] = r
  <2>1. CASE r = p
    <3>1. n + 1 \in 1..(n + 1) /\ g[n + 1] = p
      OBVIOUS
    <3>. QED
      BY <2>1, <3>1
  <2>2. CASE r # p
    <3>1. PICK i \in 1..n : f[i] = r
      BY <1>1, <1>3, <2>2 DEF OthersKept
    <3>2. i \in 1..(n + 1) /\ g[i] = r
      BY <3>1
    <3>. QED
      BY <3>2
  <2>. QED
    BY <2>1, <2>2
<1>. QED
  BY <1>2, <1>3, Zenon DEF Covers

\* A step of p that gives up its pointer to q needs one less: p's reference.
LEMMA PointersDrop ==
  ASSUME NEW p \in Proc, NEW q, OthersKept(p), ip[p] = q, ip'[p] # q, NEW n \in Nat, Covers(n, q)
  PROVE  n - 1 \in Nat /\ Covers(n - 1, q)'
<1>1. PICK f \in [1..n -> Proc] : \A r \in Proc : ip[r] = q => \E i \in 1..n : f[i] = r
  BY DEF Covers
<1>2. PICK k \in 1..n : f[k] = p
  BY <1>1
<1>3. n \in 1..n /\ n - 1 \in Nat
  BY <1>2
<1>. DEFINE g == [i \in 1..(n - 1) |-> IF i = k THEN f[n] ELSE f[i]]
<1>4. g \in [1..(n - 1) -> Proc]
  BY <1>3
<1>5. ASSUME NEW r \in Proc, ip'[r] = q PROVE \E i \in 1..(n - 1) : g[i] = r
  <2>1. r # p /\ ip[r] = q
    BY <1>5 DEF OthersKept
  <2>2. PICK i \in 1..n : f[i] = r
    BY <1>1, <2>1
  <2>3. i # k
    BY <1>2, <2>1, <2>2
  <2>4. CASE i = n
    <3>1. k \in 1..(n - 1) /\ g[k] = r
      BY <2>2, <2>3, <2>4
    <3>. QED
      BY <3>1
  <2>5. CASE i # n
    <3>1. i \in 1..(n - 1) /\ g[i] = r
      BY <2>2, <2>3, <2>5
    <3>. QED
      BY <3>1
  <2>. QED
    BY <2>4, <2>5
<1>. QED
  BY <1>3, <1>4, <1>5, Zenon DEF Covers

-----------------------------------------------------------------------------
(* Steps that leave the table alone *)

\* The other processes' calls stay what they are.
LEMMA OthersSound ==
  ASSUME NEW p \in Proc, OthersKept(p), panicked = "no", NEW q \in Proc \ {p}, CallSound(q)
  PROVE  CallSound(q)'
<1>1. /\ pc'[q] = pc[q] /\ op'[q] = op[q] /\ path'[q] = path[q] /\ dir'[q] = dir[q]
      /\ prt'[q] = prt[q] /\ it'[q] = it[q] /\ ip'[q] = ip[q]
  BY DEF OthersKept
<1>. QED
  BY <1>1, Zenon DEF CallSound, Mounting, Filling

\* So do the entries that they have under way.
LEMMA OthersHalf ==
  ASSUME NEW p \in Proc, OthersKept(p), NEW q \in Proc \ {p}, pnts'[it[q]] = pnts[it[q]], Half(q)
  PROVE  Half(q)'
<1>1. /\ pc'[q] = pc[q] /\ path'[q] = path[q] /\ dir'[q] = dir[q]
      /\ prt'[q] = prt[q] /\ it'[q] = it[q] /\ ip'[q] = ip[q]
  BY DEF OthersKept
<1>2. Cut(path[q])' = Cut(path[q]) /\ OldInode(q)' = OldInode(q)
  BY <1>1, Zenon DEF Cut, OldInode
<1>3. pnts'[it'[q]] = pnts[it[q]]
  BY <1>1
<1>. QED
  BY <1>1, <1>2, <1>3, Zenon DEF Half, EntryAt

\* A slot that is not written stays blank or finished.
LEMMA OtherSlots ==
  ASSUME TypeOK, TypeOK', PathsGrow, NEW s \in Slot, pnts'[s] = pnts[s]
  PROVE  (Blank(s) => Blank(s)') /\ (Complete(s) => Complete(s)')
<1>1. PICK c \in Seq(Letter) : c = pnts[s].path
  BY PathTypes
<1>2. Torn(c) => Torn(c)'
  BY AheadStays
<1>3. Torn(pnts[s].path) => Torn(pnts[s].path)'
  BY <1>1, <1>2, Zenon DEF Torn
<1>4. Complete(s) => Complete(s)'
  BY <1>3, Zenon DEF Complete, Spells
<1>. QED
  BY <1>4, Zenon DEF Blank

\* A step of p that neither writes the table nor begins or ends a fill keeps
\* MountInv if it keeps what the invariant says of p and of the root inodes.
LEMMA LocalStep ==
  ASSUME MountInv, NEW p \in Proc, panicked = "no", OthersKept(p), pnts' = pnts,
         ~Filling(p), ~Filling(p)', TypeOK', RefCoversPointers', CallSound(p)', Found(p)',
         panicked' # "find_mp null"
  PROVE  MountInv'
<1>1. \A q \in Proc : Filling(q)' <=> Filling(q)
  BY Zenon DEF OthersKept, Filling
<1>2. \A q \in Proc : Filling(q) => q # p /\ it'[q] = it[q]
  BY Zenon DEF OthersKept
<1>3. PathsGrow
  BY BeginsItself, PathTypes, Zenon DEF PathsGrow, MountInv
<1>4. SlotsSound'
  <2>1. \A s \in Slot : (Blank(s) => Blank(s)') /\ (Complete(s) => Complete(s)')
    BY <1>3, OtherSlots, Zenon DEF MountInv
  <2>2. ASSUME NEW s \in Slot
        PROVE  Blank(s)' \/ Complete(s)' \/ \E q \in Proc : Filling(q)' /\ it'[q] = s
    BY <1>1, <1>2, <2>1, Zenon DEF MountInv, SlotsSound
  <2>3. ASSUME NEW q \in Proc, Filling(q)'
        PROVE  it'[q] \in Slot /\ Half(q)'
    BY <1>1, <1>2, <2>3, OthersHalf, Zenon DEF MountInv, SlotsSound
  <2>4. ASSUME NEW q \in Proc, NEW r \in Proc, Filling(q)', Filling(r)', it'[q] = it'[r]
        PROVE  q = r
    BY <1>1, <1>2, <2>4, Zenon DEF MountInv, SlotsSound
  <2>. QED
    BY <2>2, <2>3, <2>4, Zenon DEF SlotsSound
<1>5. FoundAgain'
  BY <1>3, OthersFound, Zenon DEF FoundAgain
<1>6. \A q \in Proc : CallSound(q)'
  BY OthersSound, Zenon DEF MountInv
<1>7. NullOnlyIfTorn'
  BY Zenon DEF NullOnlyIfTorn
<1>. QED
  BY <1>4, <1>5, <1>6, <1>7, Zenon DEF MountInv

\* The references still cover the pointers when no root changes and p gains none.
LEMMA RefsKept ==
  ASSUME MountInv, NEW p \in Proc, OthersKept(p), root' = root, ip'[p] \in {ip[p], None, Lost}
  PROVE  RefCoversPointers'
<1>. SUFFICES ASSUME NEW q \in Partition PROVE Covers(root[q].ref, q)'
  BY DEF RefCoversPointers
<1>1. q # None /\ q # Lost /\ root[q].ref \in Nat /\ Covers(root[q].ref, q) /\ root'[q] = root[q]
  BY MountConstants, Zenon DEF MountInv, TypeOK, Inode, RefCoversPointers
<1>2. PICK n \in Nat : n = root[q].ref
  BY <1>1
<1>3. Covers(n, q)'
  BY <1>1, <1>2, PointersShrink
<1>. QED
  BY <1>1, <1>2, <1>3 DEF Covers

\* What return() leaves of a process is what the invariant asks of an idle one.
LEMMA Returned ==
  ASSUME TypeOK, NEW p \in Proc, return(p)
  PROVE  /\ OthersKept(p) /\ ip'[p] = None /\ pc'[p] = "idle" /\ ~Filling(p)'
         /\ CallSound(p)' /\ Found(p)'
         /\ pc' \in [Proc -> {"idle", "is_mounted", "find_mp", "inode_mounted",
                              "again", "mpalloc", "path", "prt", "old_i", "old_prt",
                              "ilock", "iunlock", "open"}]
         /\ op' \in [Proc -> {"mount", "self", "below"}]
         /\ path' \in [Proc -> Seq(Letter)]
         /\ dir' \in [Proc -> Dir \cup {None}]
         /\ prt' \in [Proc -> Partition \cup {None}]
         /\ it' \in [Proc -> 1..(SIZE + 1)]
         /\ ip' \in [Proc -> Partition \cup {None, Lost}]
<1>1. /\ pc'[p] = "idle" /\ op'[p] = "self" /\ dir'[p] = None /\ it'[p] = 1 /\ ip'[p] = None
  BY Zenon DEF return, goto, TypeOK
<1>2. OthersKept(p)
  BY Zenon DEF return, goto, TypeOK, OthersKept
<1>3. 1 \in 1..(SIZE + 1) /\ <<>> \in Seq(Letter)
  BY MountConstants
<1>4. ~Filling(p)' /\ CallSound(p)' /\ Found(p)'
  BY <1>1 DEF Filling, Mounting, CallSound, Found
<1>. QED
  BY <1>1, <1>2, <1>3, <1>4, Zenon DEF return, goto, TypeOK

\* A call that ends without having stored anything.
LEMMA ReturnStep ==
  ASSUME MountInv, NEW p \in Proc, panicked = "no", ~Filling(p), return(p),
         UNCHANGED <<pnts, root, panicked, calls>>
  PROVE  MountInv'
<1>1. TypeOK'
  BY Returned DEF MountInv, TypeOK
<1>2. RefCoversPointers'
  BY Returned, RefsKept DEF MountInv
<1>. QED
  BY <1>1, <1>2, Returned, LocalStep DEF MountInv

SearchPlaces == {"is_mounted", "find_mp", "inode_mounted", "again", "mpalloc"}

\* p goes on at place l with slot i of a search.
LooksOn(p, l, i) ==
  /\ panicked = "no"
  /\ pc' = [pc EXCEPT ![p] = l] /\ it' = [it EXCEPT ![p] = i]
  /\ UNCHANGED <<pnts, root, op, path, dir, prt, ip, panicked, calls>>

\* A search that goes on or ends: p's place and slot change and nothing else.
LEMMA SearchStep ==
  ASSUME MountInv, NEW p \in Proc, ~Filling(p), NEW l \in SearchPlaces, NEW i \in 1..(SIZE + 1),
         pc[p] # "idle", LooksOn(p, l, i),
         l \in {"again", "mpalloc"} => op[p] = "mount" /\ (ip[p] = None => dir[p] \in Dir),
         l \notin {"again", "mpalloc"} => ip[p] = None,
         l = "inode_mounted" => dir[p] \in Dir,
         l = "find_mp" \/ (l = "again" /\ ip[p] # None) => StillAhead(Cut(path[p]), i),
         l = "mpalloc" /\ ip[p] # None => Torn(Cut(path[p]))
  PROVE  MountInv'
<1>. USE DEF LooksOn, SearchPlaces
<1>1. pc'[p] = l /\ it'[p] = i
  BY Zenon DEF MountInv, TypeOK
<1>2. TypeOK'
  BY Zenon DEF MountInv, TypeOK
<1>3. OthersKept(p)
  BY Zenon DEF MountInv, TypeOK, OthersKept
<1>4. RefCoversPointers'
  BY <1>3, RefsKept
<1>5. ~Filling(p)'
  BY <1>1 DEF Filling
<1>6. CallSound(p)'
  BY <1>1, <1>5 DEF MountInv, CallSound, Mounting
<1>7. Found(p)'
  <2>1. l = "find_mp" \/ (l = "again" /\ ip'[p] # None) => StillAhead(Cut(path[p]), it[p])'
    BY <1>1, Zenon DEF StillAhead, Torn, Cut
  <2>2. l = "mpalloc" /\ ip'[p] # None => Torn(Cut(path[p]))'
    BY <1>1, Zenon DEF Torn, Cut
  <2>. QED
    BY <1>1, <1>5, <2>1, <2>2 DEF Found
<1>. QED
  BY <1>2, <1>3, <1>4, <1>5, <1>6, <1>7, LocalStep

-----------------------------------------------------------------------------
(* namex(), dirlookup() and the searches of mount() *)

\* A call names a path, and with it the directory that this leads to.
LEMMA CallStep ==
  ASSUME MountInv, NEW p \in Proc, NEW o \in {"mount", "self", "below"}, NEW x \in Path,
         NEW q \in Partition, call(p, o, x, q)
  PROVE  MountInv'
<1>1. /\ pc[p] = "idle" /\ pc'[p] = "is_mounted" /\ op'[p] = o /\ ip'[p] = ip[p]
      /\ o = "mount" => prt'[p] = q /\ path'[p] = x /\ dir'[p] = Leads[p][x]
  BY Zenon DEF call, At, goto, MountInv, TypeOK
<1>2. TypeOK'
  <2>1. /\ pc' \in [Proc -> {"idle", "is_mounted", "find_mp", "inode_mounted",
                             "again", "mpalloc", "path", "prt", "old_i", "old_prt",
                             "ilock", "iunlock", "open"}]
        /\ op' \in [Proc -> {"mount", "self", "below"}]
        /\ prt' \in [Proc -> Partition \cup {None}]
    BY Zenon DEF call, goto, MountInv, TypeOK
  <2>2. calls' \in 0..MaxCalls
    <3>1. calls \in 0..MaxCalls /\ calls < MaxCalls /\ calls' = calls + 1
      BY Zenon DEF call, MountInv, TypeOK
    <3>. QED
      BY <3>1, MountConstants
  <2>3. path' \in [Proc -> Seq(Letter)]
    <3>1. x \in Seq(Letter) /\ x \o Name \in Seq(Letter)
      BY MountConstants
    <3>. QED
      BY <3>1, Zenon DEF call, MountInv, TypeOK
  <2>4. dir' \in [Proc -> Dir \cup {None}]
    <3>1. Leads[p][x] \in Dir \cup {None}
      BY MountConstants, Zenon
    <3>. QED
      BY <3>1, Zenon DEF call, MountInv, TypeOK
  <2>. QED
    BY <2>1, <2>2, <2>3, <2>4, Zenon DEF call, tables, MountInv, TypeOK
<1>3. OthersKept(p)
  BY Zenon DEF call, goto, MountInv, TypeOK, OthersKept
<1>4. RefCoversPointers'
  BY <1>3, RefsKept DEF call, tables
<1>5. ~Filling(p) /\ ~Filling(p)' /\ Found(p)'
  BY <1>1 DEF Filling, Found
<1>6. CallSound(p)'
  <2>1. ip[p] = None
    BY <1>1, Zenon DEF MountInv, CallSound
  <2>. QED
    BY <1>1, <1>5, <2>1 DEF CallSound, Mounting
<1>7. panicked = "no" /\ panicked' = "no" /\ pnts' = pnts
  BY DEF call, tables, At
<1>. QED
  BY <1>2, <1>3, <1>4, <1>5, <1>6, <1>7, LocalStep

\* is_mounted() and find_mp(): the search that namex() makes twice.
LEMMA NamexSearchStep ==
  ASSUME MountInv, NEW p \in Proc,
         is_mounted_next(p) \/ is_mounted_yes(p) \/ is_mounted_no(p) \/ find_mp_next(p)
  PROVE  MountInv'
<1>. panicked = "no" /\ it[p] \in 1..(SIZE + 1) /\ SIZE \in Nat \ {0} /\ CallSound(p)
  BY MountConstants, Zenon DEF MountInv, TypeOK, is_mounted_next, is_mounted_yes, is_mounted_no,
     find_mp_next, At
<1>1. CASE is_mounted_next(p)
  <2>1. /\ pc[p] = "is_mounted" /\ ~Filling(p) /\ it[p] + 1 \in 1..(SIZE + 1) /\ ip[p] = None
        /\ LooksOn(p, "is_mounted", it[p] + 1)
    BY <1>1 DEF is_mounted_next, At, Filling, next, tables, LooksOn, MountInv, TypeOK, CallSound
  <2>. QED
    BY <2>1, SearchStep DEF SearchPlaces
<1>2. CASE is_mounted_yes(p)
  <2>1. /\ pc[p] = "is_mounted" /\ ~Filling(p) /\ 1 \in 1..(SIZE + 1)
        /\ LooksOn(p, "find_mp", 1)
    BY <1>2 DEF is_mounted_yes, At, Filling, rewind, goto, tables, LooksOn
  <2>2. StillAhead(Cut(path[p]), 1)
    <3>1. it[p] \in Slot /\ 1 <= it[p] /\ pnts[it[p]].path = Cut(path[p])
      BY <1>2 DEF is_mounted_yes, PathMatches, here, Slot
    <3>2. Begins(Cut(path[p]), pnts[it[p]].path)
      BY <3>1, BeginsItself, PathTypes DEF MountInv
    <3>. QED
      BY <3>1, <3>2, Zenon DEF StillAhead
  <2>3. ip[p] = None
    BY <2>1 DEF CallSound
  <2>. QED
    BY <2>1, <2>2, <2>3, SearchStep DEF SearchPlaces
<1>3. CASE is_mounted_no(p)
  <2>1. pc[p] = "is_mounted" /\ ~Filling(p)
    BY <1>3 DEF is_mounted_no, At, Filling
  <2>2. CASE op[p] = "self" \/ dir[p] = None
    BY <1>3, <2>1, <2>2, ReturnStep DEF is_mounted_no, tables
  <2>3. CASE ~(op[p] = "self" \/ dir[p] = None)
    <3>1. (op[p] = "below" \/ op[p] = "mount") /\ dir[p] \in Dir /\ ip[p] = None
      BY <2>1, <2>3 DEF MountInv, TypeOK, CallSound
    <3>2. PICK l \in {"inode_mounted", "again"} :
            (l = "again" => op[p] = "mount") /\ LooksOn(p, l, 1)
      BY <1>3, <2>3, <3>1 DEF is_mounted_no, goto, rewind, tables, LooksOn
    <3>3. 1 \in 1..(SIZE + 1) /\ l \in SearchPlaces
      BY DEF SearchPlaces
    <3>. QED
      BY <2>1, <3>1, <3>2, <3>3, SearchStep
  <2>. QED
    BY <2>2, <2>3
<1>4. CASE find_mp_next(p)
  <2>1. /\ pc[p] = "find_mp" /\ ~Filling(p) /\ ip[p] = None
        /\ LooksOn(p, "find_mp", it[p] + 1)
    BY <1>4 DEF find_mp_next, At, Filling, next, tables, LooksOn, MountInv, TypeOK, CallSound
  <2>2. StillAhead(Cut(path[p]), it[p])
    BY <2>1, Zenon DEF MountInv, FoundAgain, Found
  <2>3. it[p] \in Slot /\ pnts[it[p]].path # Cut(path[p]) /\ it[p] + 1 \in 1..(SIZE + 1)
    BY <1>4 DEF find_mp_next, PathMatches, here, Slot
  <2>4. StillAhead(Cut(path[p]), it[p] + 1)
    BY <2>2, <2>3, AheadOfNext, PathTypes DEF MountInv
  <2>. QED
    BY <2>1, <2>3, <2>4, SearchStep DEF SearchPlaces
<1>. QED
  BY <1>1, <1>2, <1>3, <1>4

\* find_mp() at the end of the table: the path that is_mounted() saw was torn.
LEMMA NullStep ==
  ASSUME MountInv, NEW p \in Proc, find_mp_null(p)
  PROVE  MountInv'
<1>1. /\ pc[p] = "find_mp" /\ it[p] > SIZE /\ panicked = "no" /\ panicked' = "find_mp null"
      /\ UNCHANGED <<pnts, root, pc, op, path, dir, prt, it, ip, calls>>
  BY Zenon DEF find_mp_null, At, tables, locals
<1>2. Torn(Cut(path[p]))
  <2>1. it[p] \in 1..(SIZE + 1) /\ StillAhead(Cut(path[p]), it[p])
    BY <1>1, Zenon DEF MountInv, TypeOK, FoundAgain, Found
  <2>. QED
    BY <1>1, <2>1, NothingAhead, Zenon
<1>3. NullOnlyIfTorn'
  BY <1>1, <1>2, Zenon DEF NullOnlyIfTorn, Torn, Cut
<1>4. TypeOK' /\ FoundAgain'
  BY <1>1, Zenon DEF MountInv, TypeOK, FoundAgain, Found, Filling, StillAhead, Torn, Cut
<1>5. RefCoversPointers'
  BY <1>1, Zenon DEF MountInv, RefCoversPointers, Covers
<1>6. SlotsSound'
  <2>1. \A q \in Proc : Filling(q) => Half(q)'
    BY <1>1, Zenon DEF MountInv, SlotsSound, Half, EntryAt, OldInode
  <2>2. \A s \in Slot : (Blank(s) => Blank(s)') /\ (Complete(s) => Complete(s)')
    BY <1>1, Zenon DEF Blank, Complete, Spells, Torn
  <2>. QED
    BY <1>1, <2>1, <2>2, Zenon DEF MountInv, SlotsSound, Filling
<1>7. \A q \in Proc : CallSound(q)'
  BY <1>1, Zenon DEF MountInv, CallSound, Mounting, Filling
<1>. QED
  BY <1>3, <1>4, <1>5, <1>6, <1>7, Zenon DEF MountInv

\* is_inode_mounted(), and the searches of mount() and mpalloc()
LEMMA OtherSearchStep ==
  ASSUME MountInv, NEW p \in Proc,
         \/ inode_mounted_next(p) \/ inode_mounted_no(p)
         \/ mounted_next(p) \/ mounted_yes(p) \/ mounted_no(p)
         \/ mpalloc_next(p) \/ mpalloc_full(p)
  PROVE  MountInv'
<1>1. CallSound(p) /\ Found(p) /\ it[p] \in 1..(SIZE + 1) /\ SIZE \in Nat
  BY MountConstants, Zenon DEF MountInv, TypeOK, FoundAgain
<1>2. CASE inode_mounted_next(p) \/ mounted_next(p) \/ mpalloc_next(p)
  <2>1. /\ pc[p] \in {"inode_mounted", "again", "mpalloc"} /\ it[p] <= SIZE
        /\ pc[p] = "again" => pnts[it[p]].path # Cut(path[p])
        /\ LooksOn(p, pc[p], it[p] + 1)
    BY <1>2, Zenon DEF inode_mounted_next, mounted_next, mpalloc_next, At, next, tables, LooksOn,
       PathMatches, here, MountInv, TypeOK
  <2>2. it[p] + 1 \in 1..(SIZE + 1) /\ it[p] \in Slot /\ ~Filling(p)
    BY <1>1, <2>1 DEF Filling, Slot
  <2>3. pc[p] = "again" /\ ip[p] # None => StillAhead(Cut(path[p]), it[p] + 1)
    <3>1. pc[p] = "again" /\ ip[p] # None => StillAhead(Cut(path[p]), it[p])
      BY <1>1, Zenon DEF Found
    <3>. QED
      BY <2>1, <2>2, <3>1, AheadOfNext, PathTypes DEF MountInv
  <2>4. pc[p] = "mpalloc" /\ ip[p] # None => Torn(Cut(path[p]))
    BY <1>1, Zenon DEF Found
  <2>5. /\ pc[p] \in {"again", "mpalloc"} => op[p] = "mount" /\ (ip[p] = None => dir[p] \in Dir)
        /\ pc[p] = "inode_mounted" => ip[p] = None /\ dir[p] \in Dir
    BY <1>1 DEF CallSound, Mounting
  <2>6. PICK l \in SearchPlaces : l = pc[p]
    BY <2>1 DEF SearchPlaces
  <2>. QED
    BY <2>1, <2>2, <2>3, <2>4, <2>5, <2>6, SearchStep
<1>3. CASE inode_mounted_no(p) \/ mounted_yes(p) \/ mpalloc_full(p)
  BY <1>3, ReturnStep DEF inode_mounted_no, mounted_yes, mpalloc_full, At, Filling, tables
<1>4. CASE mounted_no(p)
  <2>1. /\ pc[p] = "again" /\ ~Filling(p) /\ 1 \in 1..(SIZE + 1) /\ LooksOn(p, "mpalloc", 1)
        /\ it[p] > SIZE
    BY <1>1, <1>4 DEF mounted_no, At, Filling, rewind, goto, tables, LooksOn
  <2>2. ip[p] # None => Torn(Cut(path[p]))
    BY <1>1, <2>1, NothingAhead DEF Found
  <2>3. op[p] = "mount" /\ (ip[p] = None => dir[p] \in Dir)
    BY <1>1, <2>1 DEF CallSound, Mounting
  <2>. QED
    BY <2>1, <2>2, <2>3, SearchStep DEF SearchPlaces
<1>. QED
  BY <1>2, <1>3, <1>4

-----------------------------------------------------------------------------
(* The root inodes *)

\* iget() keeps the type of the roots and adds one reference to one of them.
LEMMA GotRoot ==
  ASSUME TypeOK, NEW q \in Partition
  PROVE  /\ Got(q) \in [Partition -> Inode]
         /\ Got(q)[q].ref = root[q].ref + 1
         /\ \A r \in Partition \ {q} : Got(q)[r] = root[r]
<1>. DEFINE new == IF root[q].ref > 0 THEN [root[q] EXCEPT !.ref = root[q].ref + 1]
                   ELSE [ref |-> 1, valid |-> FALSE, busy |-> FALSE]
<1>1. root \in [Partition -> Inode] /\ root[q] \in Inode /\ root[q].ref \in Nat
  BY Zenon DEF TypeOK, Inode
<1>2. new \in Inode /\ new.ref = root[q].ref + 1
  BY <1>1 DEF Inode
<1>3. Got(q) = [root EXCEPT ![q] = new]
  BY DEF Got
<1>. HIDE DEF new
<1>. QED
  BY <1>1, <1>2, <1>3

\* With one more reference to q, one more pointer to it is covered.
LEMMA RefsGrow ==
  ASSUME MountInv, NEW p \in Proc, OthersKept(p), NEW q \in Partition, root' = Got(q),
         ip'[p] \in {ip[p], q, None, Lost}
  PROVE  RefCoversPointers'
<1>. SUFFICES ASSUME NEW r \in Partition PROVE Covers(root[r].ref, r)'
  BY DEF RefCoversPointers
<1>1. r # None /\ r # Lost /\ root[r].ref \in Nat /\ Covers(root[r].ref, r)
  BY MountConstants, Zenon DEF MountInv, TypeOK, Inode, RefCoversPointers
<1>2. PICK n \in Nat : n = root[r].ref
  BY <1>1
<1>3. CASE r = q
  <2>1. Covers(n + 1, r)'
    BY <1>1, <1>2, PointersGrow
  <2>2. root'[r].ref = n + 1
    BY <1>2, <1>3, GotRoot DEF MountInv
  <2>. QED
    BY <2>1, <2>2 DEF Covers
<1>4. CASE r # q
  <2>1. Covers(n, r)'
    BY <1>1, <1>2, <1>4, PointersShrink
  <2>2. root'[r].ref = n
    BY <1>2, <1>4, GotRoot DEF MountInv
  <2>. QED
    BY <2>1, <2>2 DEF Covers
<1>. QED
  BY <1>3, <1>4

\* iget(find_mp(path)->prt, ROOTINO) in namex()
LEMMA FindStep ==
  ASSUME MountInv, NEW p \in Proc, find_mp_iget(p)
  PROVE  MountInv'
<1>. DEFINE q == here(p).prt
            i == IF q = None THEN Lost ELSE q
            l == IF op[p] = "mount" THEN "again" ELSE "ilock"
<1>1. /\ panicked = "no" /\ pc[p] = "find_mp" /\ it[p] \in Slot /\ CallSound(p)
      /\ pnts[it[p]].path = Cut(path[p])
  <2>1. panicked = "no" /\ pc[p] = "find_mp" /\ PathMatches(p)
    BY Zenon DEF find_mp_iget, At
  <2>2. it[p] \in 1..(SIZE + 1) /\ CallSound(p)
    BY Zenon DEF MountInv, TypeOK
  <2>3. it[p] \in Slot /\ pnts[it[p]].path = Cut(path[p])
    BY <2>1, <2>2, MountConstants DEF PathMatches, Slot, here
  <2>. QED
    BY <2>1, <2>2, <2>3
<1>2. q \in Partition \cup {None}
  <2>1. pnts[it[p]] \in MountPoint
    BY <1>1 DEF MountInv, TypeOK
  <2>. QED
    BY <2>1 DEF here, MountPoint
<1>3. /\ root' = IF q = None THEN root ELSE Got(q)
      /\ ip' = [ip EXCEPT ![p] = i]
      /\ panicked' = IF q = None /\ op[p] # "mount" THEN "ilock no partition" ELSE "no"
      /\ it' = [it EXCEPT ![p] = 1] /\ pc' = [pc EXCEPT ![p] = l]
      /\ UNCHANGED <<pnts, op, path, dir, prt, calls>>
  BY Zenon DEF find_mp_iget, rewind, goto
<1>. HIDE DEF q
<1>4. OthersKept(p) /\ ip'[p] = i /\ pc'[p] = l /\ it'[p] = 1
  BY <1>3, Zenon DEF OthersKept, MountInv, TypeOK
<1>5. RefCoversPointers'
  <2>1. CASE q = None
    BY <1>3, <1>4, <2>1, RefsKept, Zenon
  <2>2. CASE q # None
    BY <1>2, <1>3, <1>4, <2>2, RefsGrow
  <2>. QED
    BY <2>1, <2>2
<1>6. TypeOK'
  <2>1. root' \in [Partition -> Inode]
    BY <1>2, <1>3, GotRoot, Zenon DEF MountInv, TypeOK
  <2>2. 1 \in 1..(SIZE + 1)
    BY MountConstants
  <2>3. i \in Partition \cup {None, Lost}
    BY <1>2
  <2>. QED
    BY <1>1, <1>3, <2>1, <2>2, <2>3, Zenon DEF MountInv, TypeOK
<1>7. ~Filling(p) /\ ~Filling(p)' /\ panicked' # "find_mp null"
  <2>1. l \in {"again", "ilock"} /\ panicked' \in {"ilock no partition", "no"}
    BY <1>3, Zenon
  <2>. HIDE DEF l
  <2>. QED
    BY <1>1, <1>4, <2>1, Zenon DEF Filling
<1>8. /\ op'[p] = op[p] /\ i # None
      /\ op'[p] = "mount" => /\ prt'[p] \in Partition /\ path'[p] \in Path
                             /\ dir'[p] = Leads[p][path'[p]]
  BY <1>1, <1>2, <1>3, MountConstants, Zenon DEF CallSound
<1>9. CASE op[p] = "mount"
  <2>1. pc'[p] = "again"
    BY <1>4, <1>9
  <2>2. CallSound(p)'
    BY <1>4, <1>7, <1>8, <1>9, <2>1, Zenon DEF CallSound, Mounting
  <2>3. StillAhead(Cut(path[p]), 1)
    <3>1. Begins(Cut(path[p]), pnts[it[p]].path) /\ 1 <= it[p]
      BY <1>1, BeginsItself, PathTypes DEF MountInv, Slot
    <3>. QED
      BY <1>1, <3>1, Zenon DEF StillAhead
  <2>4. StillAhead(Cut(path[p]), it[p])'
    BY <1>3, <1>4, <2>3, Zenon DEF StillAhead, Torn, Cut
  <2>5. Found(p)'
    BY <1>7, <2>1, <2>4, Zenon DEF Found
  <2>. HIDE DEF l, i
  <2>. QED
    BY <1>1, <1>3, <1>4, <1>5, <1>6, <1>7, <2>2, <2>5, LocalStep, Zenon
<1>10. CASE op[p] # "mount"
  <2>1. pc'[p] = "ilock" /\ (panicked' = "no" => ip'[p] \in Partition)
    BY <1>2, <1>3, <1>4, <1>10, Zenon
  <2>2. CallSound(p)' /\ Found(p)'
    BY <1>7, <1>8, <1>10, <2>1, Zenon DEF CallSound, Mounting, Found
  <2>. HIDE DEF l, i
  <2>. QED
    BY <1>1, <1>3, <1>4, <1>5, <1>6, <1>7, <2>2, LocalStep, Zenon
<1>. QED
  BY <1>9, <1>10

\* An entry that a search by inode stops at is finished: the one thing that
\* tells a finished entry from one under way is its last field.
LEMMA BootIsComplete ==
  SlotsSound => \A s \in Slot : pnts[s].old_prt = "boot" => Complete(s)
<1>. SUFFICES ASSUME SlotsSound, NEW s \in Slot, pnts[s].old_prt = "boot" PROVE Complete(s)
  OBVIOUS
<1>1. ~Blank(s)
  BY DEF Blank
<1>2. \A p \in Proc : ~(Filling(p) /\ it[p] = s)
  BY Zenon DEF SlotsSound, Half, EntryAt
<1>. QED
  BY <1>1, <1>2, Zenon DEF SlotsSound

\* dirlookup() goes to the root of the mounted partition and leaves the reference.
LEMMA LookupStep ==
  ASSUME MountInv, NEW p \in Proc, inode_mounted_yes(p)
  PROVE  MountInv'
<1>. DEFINE q == here(p).prt
<1>1. /\ panicked = "no" /\ pc[p] = "inode_mounted" /\ it[p] \in Slot /\ CallSound(p)
      /\ here(p).old_i = dir[p] /\ here(p).old_prt = "boot"
  <2>1. panicked = "no" /\ pc[p] = "inode_mounted" /\ InodeMatches(p)
    BY Zenon DEF inode_mounted_yes, At
  <2>2. it[p] \in 1..(SIZE + 1) /\ CallSound(p)
    BY Zenon DEF MountInv, TypeOK
  <2>. QED
    BY <2>1, <2>2, MountConstants DEF InodeMatches, Slot
<1>2. q \in Partition
  <2>1. Complete(it[p])
    BY <1>1, BootIsComplete DEF MountInv, here
  <2>. QED
    BY <2>1 DEF Complete, here
<1>3. /\ root' = Got(q) /\ panicked' \in {"no", "dirlookup not DIR"} /\ return(p)
      /\ UNCHANGED <<pnts, calls>>
  BY Zenon DEF inode_mounted_yes
<1>. HIDE DEF q
<1>4. RefCoversPointers'
  BY <1>2, <1>3, Returned, RefsGrow, Zenon DEF MountInv
<1>5. TypeOK'
  <2>1. root' \in [Partition -> Inode]
    BY <1>2, <1>3, GotRoot, Zenon DEF MountInv
  <2>. QED
    BY <1>3, <2>1, Returned, Zenon DEF MountInv, TypeOK
<1>6. ~Filling(p) /\ panicked' # "find_mp null"
  BY <1>1, <1>3, Zenon DEF Filling
<1>. QED
  BY <1>1, <1>3, <1>4, <1>5, <1>6, Returned, LocalStep, Zenon DEF MountInv

\* ilock() and iunlock() of a root
LEMMA LockStep ==
  ASSUME MountInv, NEW p \in Proc, ilock(p) \/ iunlock(p)
  PROVE  MountInv'
<1>1. /\ panicked = "no" /\ panicked' = "no" /\ pc[p] \in {"ilock", "iunlock"} /\ CallSound(p)
      /\ UNCHANGED <<pnts, op, path, dir, prt, it, ip, calls>>
  BY DEF ilock, iunlock, At, MountInv
<1>2. PICK l \in {"iunlock", "open"} : pc' = [pc EXCEPT ![p] = l]
  BY DEF ilock, iunlock, goto
<1>3. ip[p] \in Partition
  BY <1>1 DEF CallSound
<1>4. PICK r \in Inode : r.ref = root[ip[p]].ref /\ root' = [root EXCEPT ![ip[p]] = r]
  <2>1. root[ip[p]] \in Inode
    BY <1>3, Zenon DEF MountInv, TypeOK
  <2>2. CASE ilock(p)
    <3>. DEFINE s == [root[ip[p]] EXCEPT !.busy = TRUE, !.valid = TRUE]
    <3>1. s \in Inode /\ s.ref = root[ip[p]].ref
      BY <2>1, Zenon DEF Inode
    <3>2. root' = [root EXCEPT ![ip[p]] = s]
      BY <2>2 DEF ilock
    <3>. QED
      BY <3>1, <3>2, Zenon
  <2>3. CASE iunlock(p)
    <3>. DEFINE s == [root[ip[p]] EXCEPT !.busy = FALSE]
    <3>1. s \in Inode /\ s.ref = root[ip[p]].ref
      BY <2>1, Zenon DEF Inode
    <3>2. root' = [root EXCEPT ![ip[p]] = s]
      BY <2>3 DEF iunlock
    <3>. QED
      BY <3>1, <3>2, Zenon
  <2>. QED
    BY <2>2, <2>3
<1>5. /\ root' \in [Partition -> Inode]
      /\ \A q \in Partition : root'[q].ref = root[q].ref
  BY <1>3, <1>4, Zenon DEF MountInv, TypeOK
<1>6. OthersKept(p) /\ pc'[p] = l
  BY <1>1, <1>2 DEF OthersKept, MountInv, TypeOK
<1>7. RefCoversPointers'
  BY <1>1, <1>5 DEF MountInv, RefCoversPointers, Covers
<1>8. TypeOK'
  BY <1>1, <1>2, <1>5 DEF MountInv, TypeOK
<1>9. ~Filling(p) /\ ~Filling(p)'
  BY <1>1, <1>6 DEF Filling
<1>10. CallSound(p)' /\ Found(p)'
  BY <1>1, <1>3, <1>6, <1>9 DEF CallSound, Mounting, Found
<1>. QED
  BY <1>1, <1>6, <1>7, <1>8, <1>9, <1>10, LocalStep

\* fileclose() gives back the reference with the pointer.
LEMMA CloseStep ==
  ASSUME MountInv, NEW p \in Proc, close(p)
  PROVE  MountInv'
<1>1. /\ panicked = "no" /\ pc[p] = "open" /\ CallSound(p) /\ return(p)
      /\ root' = [root EXCEPT ![ip[p]].ref = root[ip[p]].ref - 1]
      /\ UNCHANGED <<pnts, panicked, calls>>
  BY DEF close, At, MountInv
<1>2. PICK q \in Partition : q = ip[p] /\ q # None
  BY <1>1, MountConstants DEF CallSound
<1>3. OthersKept(p) /\ ip'[p] = None
  BY <1>1, Returned DEF MountInv
<1>4. \A r \in Partition : root[r].ref \in Nat /\ Covers(root[r].ref, r)
  BY Zenon DEF MountInv, RefCoversPointers, TypeOK, Inode
<1>5. PICK n \in Nat : n = root[q].ref /\ n - 1 \in Nat /\ Covers(n - 1, q)'
  <2>1. PICK n \in Nat : n = root[q].ref /\ Covers(n, q)
    BY <1>2, <1>4
  <2>. QED
    BY <1>2, <1>3, <2>1, PointersDrop
<1>6. /\ root' \in [Partition -> Inode] /\ root'[q].ref = n - 1
      /\ \A r \in Partition \ {q} : root'[r] = root[r]
  <2>1. root \in [Partition -> Inode] /\ root[q] \in Inode
    BY <1>2, Zenon DEF MountInv, TypeOK
  <2>2. [root[q] EXCEPT !.ref = n - 1] \in Inode
    BY <1>5, <2>1 DEF Inode
  <2>. QED
    BY <1>1, <1>2, <1>5, <2>1, <2>2 DEF Inode
<1>7. RefCoversPointers'
  <2>. SUFFICES ASSUME NEW r \in Partition PROVE Covers(root[r].ref, r)'
    BY DEF RefCoversPointers
  <2>1. CASE r = q
    BY <1>5, <1>6, <2>1 DEF Covers
  <2>2. CASE r # q
    <3>1. PICK m \in Nat : m = root[r].ref /\ Covers(m, r)
      BY <1>4
    <3>2. Covers(m, r)'
      BY <1>2, <1>3, <2>2, <3>1, MountConstants, PointersShrink
    <3>. QED
      BY <1>6, <2>2, <3>1, <3>2 DEF Covers
  <2>. QED
    BY <2>1, <2>2
<1>8. TypeOK'
  BY <1>1, <1>6, Returned DEF MountInv, TypeOK
<1>9. ~Filling(p)
  BY <1>1 DEF Filling
<1>. QED
  BY <1>1, <1>7, <1>8, <1>9, Returned, LocalStep DEF MountInv

-----------------------------------------------------------------------------
(* The stores of mount() *)

\* A store that at most lengthens the path of its slot
LEMMA StoreGrows ==
  ASSUME TypeOK, NEW s \in Slot, NEW r \in MountPoint, pnts' = [pnts EXCEPT ![s] = r],
         Begins(pnts[s].path, r.path)
  PROVE  PathsGrow
<1>1. pnts'[s] = r /\ \A t \in Slot \ {s} : pnts'[t] = pnts[t]
  BY Zenon DEF TypeOK
<1>2. \A t \in Slot : Begins(pnts[t].path, pnts[t].path)
  BY BeginsItself, PathTypes
<1>. QED
  BY <1>1, <1>2, Zenon DEF PathsGrow

\* p stores r in slot s, which is its own or blank, and the entry is p's half-made
\* one afterwards, or finished.
Stores(p, s, r) ==
  /\ it[p] = s /\ pnts' = [pnts EXCEPT ![s] = r]
  /\ Filling(p) \/ Blank(s)
  /\ Begins(pnts[s].path, r.path)
  /\ \/ Filling(p)' /\ it'[p] = s /\ Half(p)'
     \/ ~Filling(p)' /\ Complete(s)'

\* A store keeps MountInv: no other process is filling the slot, and no path that
\* another process has found goes away.
LEMMA StoreStep ==
  ASSUME MountInv, NEW p \in Proc, panicked' = "no", panicked = "no", OthersKept(p), root' = root,
         ip'[p] \in {ip[p], None}, NEW s \in Slot, NEW r \in MountPoint, Stores(p, s, r),
         TypeOK', CallSound(p)', Found(p)'
  PROVE  MountInv'
<1>1. pnts'[s] = r /\ \A t \in Slot \ {s} : pnts'[t] = pnts[t]
  BY Zenon DEF Stores, MountInv, TypeOK
<1>2. \A q \in Proc \ {p} : (Filling(q)' <=> Filling(q)) /\ it'[q] = it[q]
  BY Zenon DEF OthersKept, Filling
<1>3. ASSUME NEW q \in Proc \ {p}, Filling(q) PROVE it[q] # s /\ it[q] \in Slot
  <2>1. it[q] \in Slot /\ Half(q)
    BY <1>3, Zenon DEF MountInv, SlotsSound
  <2>2. CASE Filling(p)
    BY <1>3, <2>1, <2>2, Zenon DEF MountInv, SlotsSound, Stores
  <2>3. CASE Blank(s)
    <3>1. pnts[it[q]].is_taken = TRUE
      BY <2>1, Zenon DEF Half, EntryAt
    <3>2. pnts[s].is_taken = FALSE
      BY <2>3 DEF Blank
    <3>. QED
      BY <2>1, <3>1, <3>2
  <2>. QED
    BY <2>2, <2>3, Zenon DEF Stores
<1>4. PathsGrow
  BY StoreGrows, Zenon DEF Stores, MountInv
<1>5. SlotsSound'
  <2>1. ASSUME NEW t \in Slot
        PROVE  Blank(t)' \/ Complete(t)' \/ \E q \in Proc : Filling(q)' /\ it'[q] = t
    <3>1. CASE t = s
      BY <3>1, Zenon DEF Stores
    <3>2. CASE t # s
      <4>1. (Blank(t) => Blank(t)') /\ (Complete(t) => Complete(t)')
        BY <1>1, <1>4, <3>2, OtherSlots DEF MountInv
      <4>2. ASSUME NEW q \in Proc, Filling(q), it[q] = t
            PROVE  Filling(q)' /\ it'[q] = t
        BY <1>2, <3>2, <4>2, Zenon DEF Stores
      <4>. QED
        BY <4>1, <4>2, Zenon DEF MountInv, SlotsSound
    <3>. QED
      BY <3>1, <3>2
  <2>2. ASSUME NEW q \in Proc, Filling(q)'
        PROVE  it'[q] \in Slot /\ Half(q)'
    <3>1. CASE q = p
      BY <2>2, <3>1, Zenon DEF Stores
    <3>2. CASE q # p
      <4>1. Filling(q) /\ it'[q] = it[q] /\ it[q] # s /\ it[q] \in Slot
        BY <1>2, <1>3, <2>2, <3>2, Zenon
      <4>2. Half(q)
        BY <4>1, Zenon DEF MountInv, SlotsSound
      <4>3. pnts'[it[q]] = pnts[it[q]]
        BY <1>1, <4>1, Zenon
      <4>. QED
        BY <3>2, <4>1, <4>2, <4>3, OthersHalf, Zenon
    <3>. QED
      BY <3>1, <3>2
  <2>3. ASSUME NEW q \in Proc, NEW t \in Proc, Filling(q)', Filling(t)', it'[q] = it'[t]
        PROVE  q = t
    <3>1. CASE q = p \/ t = p
      BY <1>2, <1>3, <2>3, <3>1, Zenon DEF Stores
    <3>2. CASE q # p /\ t # p
      BY <1>2, <2>3, <3>2, Zenon DEF MountInv, SlotsSound
    <3>. QED
      BY <3>1, <3>2
  <2>. QED
    BY <2>1, <2>2, <2>3, Zenon DEF SlotsSound
<1>6. FoundAgain'
  BY <1>4, OthersFound, Zenon DEF FoundAgain
<1>7. \A q \in Proc : CallSound(q)'
  BY OthersSound, Zenon DEF MountInv
<1>8. RefCoversPointers'
  BY RefsKept
<1>9. NullOnlyIfTorn'
  BY Zenon DEF NullOnlyIfTorn
<1>. QED
  BY <1>5, <1>6, <1>7, <1>8, <1>9, Zenon DEF MountInv

\* A store of mount() into the entry it is filling brings p to its next place.
Fills(p, l, r) ==
  /\ panicked = "no" /\ Mounting(p) /\ pc[p] # "again"
  /\ it[p] \in Slot /\ (Filling(p) \/ Blank(it[p]))
  /\ pnts' = [pnts EXCEPT ![it[p]] = r] /\ pc' = [pc EXCEPT ![p] = l]
  /\ UNCHANGED <<root, op, path, dir, prt, it, ip, panicked, calls>>

\* Such a store keeps MountInv if it makes the entry what it is at that place.
LEMMA FillStep ==
  ASSUME MountInv, NEW p \in Proc, NEW l \in {"path", "prt", "old_i", "old_prt"},
         NEW r \in MountPoint, Fills(p, l, r), EntryAt(p, l, r), Begins(pnts[it[p]].path, r.path)
  PROVE  MountInv'
<1>1. /\ TypeOK /\ CallSound(p) /\ Found(p) /\ it[p] \in Slot
      /\ UNCHANGED <<root, op, path, dir, prt, it, ip, panicked, calls>>
  BY DEF Fills, MountInv, FoundAgain
<1>2. pc'[p] = l /\ Filling(p)' /\ OthersKept(p)
  BY Zenon DEF Fills, MountInv, TypeOK, Filling, OthersKept
<1>3. TypeOK'
  <2>1. pnts' \in [Slot -> MountPoint]
    BY <1>1, Zenon DEF Fills, TypeOK
  <2>2. pc' \in [Proc -> {"idle", "is_mounted", "find_mp", "inode_mounted",
                         "again", "mpalloc", "path", "prt", "old_i", "old_prt",
                         "ilock", "iunlock", "open"}]
    BY <1>1, Zenon DEF Fills, TypeOK
  <2>. QED
    BY <1>1, <2>1, <2>2, Zenon DEF TypeOK
<1>4. CallSound(p)'
  <2>1. /\ prt'[p] \in Partition /\ path'[p] \in Path /\ dir'[p] = Leads[p][path'[p]]
        /\ op'[p] = "mount" /\ (ip'[p] = None => dir'[p] \in Dir)
    BY <1>1, Zenon DEF CallSound, Fills
  <2>. QED
    BY <1>2, <2>1 DEF CallSound, Mounting
<1>5. Half(p)'
  <2>1. pnts'[it'[p]] = r
    BY <1>1, Zenon DEF Fills, TypeOK
  <2>2. EntryAt(p, l, r)'
    BY <1>1, Zenon DEF EntryAt, OldInode
  <2>. QED
    BY <1>2, <2>1, <2>2, Zenon DEF Half, EntryAt
<1>6. Found(p)'
  <2>1. PathsGrow
    BY <1>1, StoreGrows, Zenon DEF Fills
  <2>2. PICK c \in Seq(Letter) : c = Cut(path[p])
    BY <1>1, PathTypes
  <2>3. ip[p] # None => Torn(c)'
    <3>1. ip[p] # None => Torn(c)
      BY <1>1, <2>2, Zenon DEF Found, Fills, Mounting
    <3>. QED
      BY <1>1, <1>3, <2>1, <3>1, AheadStays
  <2>4. ip'[p] # None => Torn(Cut(path[p]))'
    BY <1>1, <2>2, <2>3, Zenon DEF Torn, Cut
  <2>. QED
    BY <1>2, <2>4 DEF Found
<1>7. PICK s \in Slot : s = it[p] /\ Stores(p, s, r)
  BY <1>1, <1>2, <1>5, Zenon DEF Stores, Fills
<1>8. panicked = "no"
  BY DEF Fills
<1>. QED
  BY <1>1, <1>2, <1>3, <1>4, <1>6, <1>7, <1>8, StoreStep

\* The compare-and-swap of mpalloc() takes a slot that nobody has touched.
LEMMA MpallocStep ==
  ASSUME MountInv, NEW p \in Proc, mpalloc(p)
  PROVE  MountInv'
<1>. DEFINE r == [pnts[it[p]] EXCEPT !.is_taken = TRUE]
<1>1. /\ panicked = "no" /\ pc[p] = "mpalloc" /\ it[p] \in Slot
      /\ pnts[it[p]].is_taken # TRUE
  <2>1. panicked = "no" /\ pc[p] = "mpalloc" /\ it[p] <= SIZE /\ ~pnts[it[p]].is_taken
    BY DEF mpalloc, At, here
  <2>2. it[p] \in 1..(SIZE + 1)
    BY Zenon DEF MountInv, TypeOK
  <2>3. it[p] \in Slot
    BY <2>1, <2>2, MountConstants DEF Slot
  <2>. QED
    BY <2>1, <2>3, Zenon
<1>2. Blank(it[p])
  <2>1. ~Complete(it[p])
    BY <1>1, Zenon DEF Complete
  <2>2. ASSUME NEW q \in Proc, Filling(q) PROVE it[q] # it[p]
    <3>1. pnts[it[q]].is_taken = TRUE
      BY <2>2, Zenon DEF MountInv, SlotsSound, Half, EntryAt
    <3>. QED
      BY <1>1, <3>1, Zenon
  <2>. QED
    BY <1>1, <2>1, <2>2 DEF MountInv, SlotsSound
<1>3. r \in MountPoint
  <2>1. pnts[it[p]] \in MountPoint
    BY <1>1 DEF MountInv, TypeOK
  <2>. QED
    BY <2>1, Zenon DEF MountPoint
<1>4. Fills(p, "path", r)
  BY <1>1, <1>2, Zenon DEF mpalloc, goto, Fills, Mounting
<1>5. EntryAt(p, "path", r) /\ r.path = pnts[it[p]].path
  <2>1. Begins(<<>>, Cut(path[p]))
    BY PathTypes DEF MountInv, Begins
  <2>. QED
    BY <1>2, <2>1 DEF Blank, EntryAt
<1>. HIDE DEF r
<1>6. Begins(pnts[it[p]].path, r.path)
  BY <1>1, <1>5, BeginsItself, PathTypes DEF MountInv
<1>. QED
  BY <1>3, <1>4, <1>5, <1>6, FillStep

\* What is known of an entry that is being filled
LEMMA FillingFacts ==
  ASSUME MountInv, NEW p \in Proc, Filling(p)
  PROVE  /\ it[p] \in Slot /\ pnts[it[p]] \in MountPoint /\ EntryAt(p, pc[p], pnts[it[p]])
         /\ path[p] \in Path /\ path[p] \in Seq(Letter) /\ pnts[it[p]].path \in Seq(Letter)
         /\ prt[p] \in Partition /\ dir[p] = Leads[p][path[p]]
         /\ OldInode(p) \in Dir \cup {Lost} /\ (ip[p] = None => OldInode(p) = dir[p])
         /\ Begins(pnts[it[p]].path, pnts[it[p]].path)
<1>1. it[p] \in Slot /\ EntryAt(p, pc[p], pnts[it[p]]) /\ CallSound(p) /\ TypeOK
  BY Zenon DEF MountInv, SlotsSound, Half
<1>2. pnts[it[p]] \in MountPoint /\ path[p] \in Seq(Letter) /\ pnts[it[p]].path \in Seq(Letter)
  BY <1>1, PathTypes, Zenon DEF TypeOK
<1>3. /\ path[p] \in Path /\ prt[p] \in Partition /\ dir[p] = Leads[p][path[p]]
      /\ ip[p] = None => dir[p] \in Dir
  BY <1>1, Zenon DEF CallSound, Mounting
<1>4. OldInode(p) \in Dir \cup {Lost} /\ (ip[p] = None => OldInode(p) = dir[p])
  BY <1>3, Zenon DEF OldInode
<1>. QED
  BY <1>1, <1>2, <1>3, <1>4, BeginsItself

\* memmove() of the path: one letter more, which a search by path may match from now
\* on, and the end of it.
LEMMA SetPathStep ==
  ASSUME MountInv, NEW p \in Proc, set_path(p) \/ path_done(p)
  PROVE  MountInv'
<1>. DEFINE e == pnts[it[p]]
<1>1. /\ pc[p] = "path" /\ Filling(p) /\ Mounting(p) /\ panicked = "no" /\ TypeOK
      /\ UNCHANGED <<root, op, path, dir, prt, it, ip, panicked, calls>>
  BY DEF set_path, path_done, At, tables, Filling, Mounting, MountInv
<1>2. /\ it[p] \in Slot /\ e \in MountPoint /\ path[p] \in Seq(Letter) /\ e.path \in Seq(Letter)
      /\ EntryAt(p, "path", e) /\ Begins(e.path, Cut(path[p])) /\ Begins(e.path, e.path)
  BY <1>1, FillingFacts, Zenon DEF EntryAt
<1>3. CASE set_path(p)
  <2>. DEFINE x == Append(e.path, path[p][Len(e.path) + 1])
              r == [e EXCEPT !.path = x]
  <2>1. x \in Seq(Letter) /\ Begins(e.path, x) /\ Begins(x, Cut(path[p]))
    BY <1>2, <1>3, OneMoreLetter, Zenon DEF set_path, here
  <2>2. pnts' = [pnts EXCEPT ![it[p]] = r]
    BY <1>2, <1>3 DEF set_path
  <2>3. pc' = [pc EXCEPT ![p] = "path"]
    BY <1>1, <1>3, Zenon DEF set_path, TypeOK
  <2>. HIDE DEF x
  <2>4. r \in MountPoint /\ r.path = x
    BY <1>2, <2>1, Zenon DEF MountPoint
  <2>5. EntryAt(p, "path", r)
    BY <1>2, <2>1 DEF EntryAt, MountPoint
  <2>. HIDE DEF r
  <2>6. Fills(p, "path", r)
    BY <1>1, <1>2, <2>2, <2>3, Zenon DEF Fills
  <2>. QED
    BY <2>1, <2>4, <2>5, <2>6, FillStep
<1>4. CASE path_done(p)
  <2>1. pnts' = [pnts EXCEPT ![it[p]] = e] /\ pc' = [pc EXCEPT ![p] = "prt"]
    BY <1>1, <1>2, <1>4, Zenon DEF path_done, goto, tables, TypeOK
  <2>2. e.path = Cut(path[p])
    <3>1. ~Within(e.path, Cut(path[p]))
      BY <1>2, <1>4, CutIsPath DEF path_done, here, Within
    <3>. QED
      BY <1>2, <3>1, CutIsPath, BeginsOrWithin
  <2>3. EntryAt(p, "prt", e)
    BY <1>2, <2>2 DEF EntryAt
  <2>4. Fills(p, "prt", e)
    BY <1>1, <1>2, <2>1, Zenon DEF Fills
  <2>. QED
    BY <1>2, <2>3, <2>4, FillStep
<1>. QED
  BY <1>3, <1>4

\* The stores of the partition and of the inode
LEMMA SetStep ==
  ASSUME MountInv, NEW p \in Proc, set_prt(p) \/ set_old_i(p)
  PROVE  MountInv'
<1>. DEFINE e == pnts[it[p]]
<1>1. /\ Filling(p) /\ Mounting(p) /\ pc[p] # "again" /\ panicked = "no"
      /\ UNCHANGED <<root, op, path, dir, prt, it, ip, panicked, calls>>
  BY DEF set_prt, set_old_i, At, Filling, Mounting
<1>2. /\ it[p] \in Slot /\ e \in MountPoint /\ EntryAt(p, pc[p], e) /\ Begins(e.path, e.path)
      /\ prt[p] \in Partition /\ OldInode(p) \in Dir \cup {Lost}
  BY <1>1, FillingFacts
<1>3. CASE set_prt(p)
  <2>. DEFINE r == [e EXCEPT !.prt = prt[p]]
  <2>1. /\ pc[p] = "prt" /\ pnts' = [pnts EXCEPT ![it[p]] = r]
        /\ pc' = [pc EXCEPT ![p] = "old_i"]
    BY <1>2, <1>3 DEF set_prt, At, goto
  <2>2. r \in MountPoint /\ r.path = e.path
    BY <1>2, Zenon DEF MountPoint
  <2>3. EntryAt(p, "old_i", r)
    BY <1>2, <2>1 DEF EntryAt, MountPoint
  <2>. HIDE DEF r
  <2>4. Fills(p, "old_i", r)
    BY <1>1, <1>2, <2>1, Zenon DEF Fills
  <2>. QED
    BY <1>2, <2>2, <2>3, <2>4, FillStep
<1>4. CASE set_old_i(p)
  <2>. DEFINE r == [e EXCEPT !.old_i = OldInode(p)]
  <2>1. /\ pc[p] = "old_i" /\ pnts' = [pnts EXCEPT ![it[p]] = r]
        /\ pc' = [pc EXCEPT ![p] = "old_prt"]
    BY <1>2, <1>4 DEF set_old_i, At, goto
  <2>2. r \in MountPoint /\ r.path = e.path
    BY <1>2, Zenon DEF MountPoint
  <2>3. EntryAt(p, "old_prt", r)
    BY <1>2, <2>1 DEF EntryAt, MountPoint
  <2>. HIDE DEF r
  <2>4. Fills(p, "old_prt", r)
    BY <1>1, <1>2, <2>1, Zenon DEF Fills
  <2>. QED
    BY <1>2, <2>2, <2>3, <2>4, FillStep
<1>. QED
  BY <1>3, <1>4

\* The partition of the old inode comes last: with it the entry is finished.
LEMMA OldPrtStep ==
  ASSUME MountInv, NEW p \in Proc, set_old_prt(p)
  PROVE  MountInv'
<1>. DEFINE e == pnts[it[p]]
            o == OldPartition(p)
            r == [e EXCEPT !.old_prt = o]
<1>1. /\ panicked = "no" /\ pc[p] = "old_prt" /\ Filling(p) /\ TypeOK /\ Found(p)
      /\ return(p) /\ UNCHANGED <<root, panicked, calls>>
  BY DEF set_old_prt, At, Filling, MountInv, FoundAgain
<1>2. /\ it[p] \in Slot /\ e \in MountPoint /\ EntryAt(p, "old_prt", e)
      /\ Begins(e.path, e.path) /\ path[p] \in Path /\ prt[p] \in Partition
      /\ dir[p] = Leads[p][path[p]] /\ OldInode(p) \in Dir \cup {Lost}
      /\ ip[p] = None => OldInode(p) = dir[p]
  BY <1>1, FillingFacts
<1>3. pnts' = [pnts EXCEPT ![it[p]] = r]
  BY <1>2 DEF set_old_prt
<1>4. OthersKept(p) /\ ip'[p] = None /\ ~Filling(p)' /\ CallSound(p)' /\ Found(p)'
  BY <1>1, Returned
<1>5. /\ o \in Partition \cup {"boot", "null"}
      /\ (o = "boot") <=> (ip[p] = None)
  <2>1. ip[p] \in Partition \cup {None, Lost} /\ None # Lost
    BY <1>1, MountConstants, Zenon DEF TypeOK
  <2>. QED
    BY <2>1, MountConstants DEF OldPartition
<1>. HIDE DEF o
<1>6. /\ r \in MountPoint /\ r.is_taken = TRUE /\ r.path = Cut(path[p]) /\ r.prt = prt[p]
      /\ r.old_i = OldInode(p) /\ r.old_prt = o /\ e.path = r.path
  BY <1>2, <1>5 DEF MountPoint, EntryAt
<1>. HIDE DEF r
<1>7. TypeOK'
  <2>1. pnts' \in [Slot -> MountPoint]
    BY <1>1, <1>2, <1>3, <1>6, Zenon DEF TypeOK
  <2>. QED
    BY <1>1, <2>1, Returned, Zenon DEF TypeOK
<1>8. PICK s \in Slot : s = it[p]
  BY <1>2
<1>9. Complete(s)'
  <2>2. pnts'[s] = r
    BY <1>1, <1>3, <1>8, Zenon DEF TypeOK
  <2>3. CASE ip[p] = None
    <3>1. r.old_i \in Dir /\ Spells(r.path, r.old_i)
      <4>1. dir[p] \in Dir
        BY <1>1, <2>3 DEF MountInv, CallSound, Mounting
      <4>. QED
        BY <1>2, <1>6, <2>3, <4>1, Zenon DEF Spells
    <3>2. r.old_prt = "boot"
      BY <1>5, <1>6, <2>3
    <3>3. PICK y \in Path : r.path = Cut(y)
      BY <1>2, <1>6
    <3>4. PICK q \in Proc : \E z \in Path : Leads[q][z] = r.old_i /\ r.path = Cut(z)
      BY <3>1 DEF Spells
    <3>. QED
      BY <1>2, <1>6, <2>2, <3>1, <3>2, <3>3, <3>4, Zenon DEF Complete, Spells, Cut
  <2>4. CASE ip[p] # None
    <3>1. Torn(r.path)
      BY <1>1, <1>6, <2>4, Zenon DEF Found
    <3>2. PathsGrow
      BY <1>1, <1>2, <1>3, <1>6, StoreGrows, Zenon
    <3>3. PICK c \in Seq(Letter) : c = r.path
      BY <1>6, Zenon DEF MountPoint
    <3>4. Torn(c)'
      BY <1>1, <1>7, <3>1, <3>2, <3>3, AheadStays
    <3>. QED
      BY <1>2, <1>5, <1>6, <2>2, <2>4, <3>3, <3>4, Zenon DEF Complete, Torn, Cut
  <2>. QED
    BY <2>3, <2>4
<1>10. Stores(p, s, r)
  BY <1>1, <1>2, <1>3, <1>4, <1>6, <1>8, <1>9, Zenon DEF Stores
<1>. QED
  BY <1>1, <1>4, <1>6, <1>7, <1>10, StoreStep

-----------------------------------------------------------------------------
(* The theorems *)

LEMMA InitMount == Init => MountInv
<1>. SUFFICES ASSUME Init PROVE MountInv
  OBVIOUS
<1>1. TypeOK
  BY MountConstants DEF Init, TypeOK, MountPoint, Inode, Slot
<1>2. \A p \in Proc : ~Filling(p) /\ CallSound(p)
  BY Zenon DEF Init, Filling, Mounting, CallSound
<1>3. SlotsSound
  BY <1>2 DEF Init, SlotsSound, Blank
<1>4. RefCoversPointers
  <2>. SUFFICES ASSUME NEW q \in Partition PROVE Covers(0, q)
    BY DEF RefCoversPointers, Init
  <2>1. \A p \in Proc : ip[p] # q
    BY MountConstants, Zenon DEF Init
  <2>2. [i \in 1..0 |-> CHOOSE p \in Proc : TRUE] \in [1..0 -> Proc]
    OBVIOUS
  <2>. QED
    BY <2>1, <2>2, Zenon DEF Covers
<1>5. FoundAgain /\ NullOnlyIfTorn
  BY DEF Init, FoundAgain, Found, Filling, NullOnlyIfTorn
<1>. QED
  BY <1>1, <1>2, <1>3, <1>4, <1>5 DEF MountInv

LEMMA NextMount == MountInv /\ [Next]_vars => MountInv'
<1>. SUFFICES ASSUME MountInv, [Next]_vars PROVE MountInv'
  OBVIOUS
<1>1. CASE UNCHANGED vars
  <2>. UNCHANGED <<pnts, root, pc, op, path, dir, prt, it, ip, panicked, calls>>
    BY <1>1 DEF vars, tables, locals
  <2>1. TypeOK' /\ FoundAgain' /\ NullOnlyIfTorn'
    BY Zenon DEF MountInv, TypeOK, FoundAgain, Found, Filling, StillAhead, NullOnlyIfTorn, Torn, Cut
  <2>2. RefCoversPointers'
    BY Zenon DEF MountInv, RefCoversPointers, Covers
  <2>3. SlotsSound'
    <3>1. \A q \in Proc : Filling(q) => Half(q)'
      BY Zenon DEF MountInv, SlotsSound, Half, EntryAt, OldInode
    <3>2. \A s \in Slot : (Blank(s) => Blank(s)') /\ (Complete(s) => Complete(s)')
      BY Zenon DEF Blank, Complete, Spells, Torn
    <3>. QED
      BY <3>1, <3>2, Zenon DEF MountInv, SlotsSound, Filling
  <2>4. \A p \in Proc : CallSound(p)'
    BY Zenon DEF MountInv, CallSound, Mounting, Filling
  <2>. QED
    BY <2>1, <2>2, <2>3, <2>4, Zenon DEF MountInv
<1>2. ASSUME NEW p \in Proc, NEW o \in {"mount", "self", "below"}, NEW x \in Path,
             NEW q \in Partition, call(p, o, x, q)
      PROVE  MountInv'
  BY <1>2, CallStep
<1>3. ASSUME NEW p \in Proc, namex(p) PROVE MountInv'
  BY <1>3, NamexSearchStep, NullStep, FindStep DEF namex
<1>4. ASSUME NEW p \in Proc, dirlookup(p) PROVE MountInv'
  BY <1>4, OtherSearchStep, LookupStep DEF dirlookup
<1>5. ASSUME NEW p \in Proc, mount(p) PROVE MountInv'
  BY <1>5, OtherSearchStep, MpallocStep, SetPathStep, SetStep, OldPrtStep DEF mount
<1>6. ASSUME NEW p \in Proc, ilock(p) \/ iunlock(p) \/ close(p) PROVE MountInv'
  BY <1>6, LockStep, CloseStep
<1>. QED
  BY <1>1, <1>2, <1>3, <1>4, <1>5, <1>6 DEF Next

\* fs.c, the mount table and the roots of the partitions: at every step of any number
\* of lookups and mounts a root that is in use keeps its references, an entry that
\* dirlookup() can follow is complete and its path leads to its inode, each slot is
\* blank, finished or being filled by exactly one mount(), and find_mp() finds what
\* is_mounted() saw unless that was the beginning of a path being stored.
THEOREM MountTheorem == Spec => []MountInv
<1>1. Init => MountInv
  BY InitMount
<1>2. MountInv /\ [Next]_vars => MountInv'
  BY NextMount
<1>. QED
  BY <1>1, <1>2, PTL DEF Spec

\* mount(), find_mp() and is_inode_mounted(): while no mount of a directory is under
\* way, and no entry is spelled with another path to it or with one that goes on
\* where its path ends, the searches by path and by inode stop at the same slots, so
\* the directory and the names below it are on the same partition.
THEOREM ViewsTheorem == Spec => []ViewsAgree
<1>1. MountInv => ViewsAgree
  <2>. SUFFICES ASSUME MountInv, NEW x \in Path, NEW d \in Dir, Cut(x) # <<>>,
                       StandsFor(x, d), SpelledOnly(x, d), Settled(x, d)
                PROVE  ByPath(x) = ByInode(d)
    BY DEF ViewsAgree
  <2>1. ASSUME NEW s \in ByPath(x) PROVE s \in ByInode(d)
    <3>1. s \in Slot /\ pnts[s].path = Cut(x)
      BY DEF ByPath
    <3>2. ~Blank(s)
      BY <3>1 DEF Blank
    <3>3. \A p \in Proc : ~(Filling(p) /\ it[p] = s)
      <4>. SUFFICES ASSUME NEW p \in Proc, Filling(p), it[p] = s PROVE FALSE
        BY Zenon
      <4>1. op[p] = "mount"
        BY Zenon DEF MountInv, CallSound, Mounting
      <4>2. Begins(pnts[s].path, Cut(path[p]))
        BY FillingFacts, Zenon DEF EntryAt
      <4>. QED
        BY <3>1, <4>1, <4>2, Zenon DEF Settled
    <3>4. Complete(s)
      BY <3>1, <3>2, <3>3, Zenon DEF MountInv, SlotsSound
    <3>5. ~Torn(pnts[s].path)
      BY <3>1, Zenon DEF SpelledOnly, Torn
    <3>6. pnts[s].old_prt = "boot" /\ Spells(pnts[s].path, pnts[s].old_i)
      BY <3>4, <3>5, Zenon DEF Complete
    <3>7. pnts[s].old_i = d
      BY <3>1, <3>6, Zenon DEF Spells, StandsFor
    <3>. QED
      BY <3>1, <3>6, <3>7 DEF ByInode
  <2>2. ASSUME NEW s \in ByInode(d) PROVE s \in ByPath(x)
    <3>1. s \in Slot /\ pnts[s].old_i = d /\ pnts[s].old_prt = "boot"
      BY DEF ByInode
    <3>2. Spells(pnts[s].path, d)
      BY <3>1, BootIsComplete, Zenon DEF MountInv, Complete
    <3>3. pnts[s].path = Cut(x)
      BY <3>1, <3>2, Zenon DEF Spells, SpelledOnly
    <3>. QED
      BY <3>1, <3>3 DEF ByPath
  <2>. QED
    BY <2>1, <2>2, Zenon
<1>. QED
  BY <1>1, MountTheorem, PTL

\* mpalloc() and the stores of mount(): whatever the processes do, a finished entry of
\* the table is never written again.
THEOREM PermanentTheorem == Spec => EntriesArePermanent
<1>1. MountInv /\ [Next]_vars =>
        [\A s \in Slot : pnts[s].old_prt = "boot" => pnts'[s] = pnts[s]]_vars
  <2>. SUFFICES ASSUME MountInv, Next, NEW s \in Slot, pnts[s].old_prt = "boot"
                PROVE  pnts'[s] = pnts[s]
    OBVIOUS
  <2>1. Complete(s)
    BY BootIsComplete DEF MountInv
  <2>2. ASSUME NEW p \in Proc, Filling(p) PROVE it[p] # s
    BY <2>2, Zenon DEF MountInv, SlotsSound, Half, EntryAt
  <2>3. PICK p \in Proc :
          \/ \E o \in {"mount", "self", "below"}, x \in Path, q \in Partition : call(p, o, x, q)
          \/ namex(p) \/ dirlookup(p) \/ mount(p)
          \/ ilock(p) \/ iunlock(p) \/ close(p)
    BY DEF Next
  <2>4. CASE mpalloc(p)
    <3>1. it[p] # s
      BY <2>1, <2>4 DEF mpalloc, here, Complete
    <3>. QED
      BY <2>4, <3>1, Zenon DEF mpalloc, MountInv, TypeOK
  <2>5. CASE set_path(p) \/ set_prt(p) \/ set_old_i(p) \/ set_old_prt(p)
    <3>1. it[p] # s
      BY <2>2, <2>5 DEF set_path, set_prt, set_old_i, set_old_prt, At, Filling
    <3>. QED
      BY <2>5, <3>1, Zenon DEF set_path, set_prt, set_old_i, set_old_prt, MountInv, TypeOK
  <2>6. CASE ~(mpalloc(p) \/ set_path(p) \/ set_prt(p) \/ set_old_i(p) \/ set_old_prt(p))
    <3>1. pnts' = pnts
      BY <2>3, <2>6, Zenon DEF call, namex, is_mounted_next, is_mounted_yes, is_mounted_no,
         find_mp_next, find_mp_null, find_mp_iget, dirlookup, inode_mounted_next, inode_mounted_yes,
         inode_mounted_no, mount, mounted_next, mounted_yes, mounted_no, mpalloc_next,
         mpalloc_full, path_done, ilock, iunlock, close, tables
    <3>. QED
      BY <3>1
  <2>. QED
    BY <2>4, <2>5, <2>6
<1>. QED
  BY <1>1, MountTheorem, PTL DEF Spec, EntriesArePermanent
=============================================================================
