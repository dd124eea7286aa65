---------------------------- MODULE IcacheProofs ----------------------------
(***************************************************************************)
(* Proofs about the inode cache, for any number of processes, names, slots *)
(* and disk inodes.  The conjunction of the three invariants of the run is *)
(* inductive: each needs the other two.                                    *)
(***************************************************************************)
EXTENDS Icache, TLAPS

\* Most steps need no arithmetic: Zenon, unless a step says otherwise
USE ZenonT(30)

IInv == IcacheInv /\ LinksAreCounted /\ FreedWhenUnreachable

One(b) == IF b THEN 1 ELSE 0

\* What the counts say of single pointers ...
RefsView ==
  \A s \in Slot :
    /\ \A p \in Proc : ip[p] = s \/ dup[p] = s => icache[s].ref > 0
    /\ \A p \in Proc : icache[s].ref = 1 /\ ip[p] = s =>
         \A q \in Proc : dup[q] # s /\ (ip[q] = s => q = p)
    /\ \A p \in Proc : icache[s].ref = 1 /\ dup[p] = s => \A q \in Proc : ip[q] # s
    /\ \A p \in Proc : icache[s].ref > 1 /\ ip[p] = s =>
         \E q \in Proc : dup[q] = s \/ (ip[q] = s /\ q # p)
    /\ icache[s].ref > 0 => \E q \in Proc : ip[q] = s \/ dup[q] = s

\* ... and of single links.
LinksView ==
  \A i \in Inum :
    /\ \A m \in Name : dir[m] = i => dinode[i].nlink > 0
    /\ \A p \in Proc : Owes(p, i) => dinode[i].nlink > 0
    /\ dinode[i].nlink > 0 => (\E m \in Name : dir[m] = i) \/ (\E p \in Proc : Owes(p, i))

-----------------------------------------------------------------------------
(* Counting *)

\* One more member: list it last.
LEMMA CountAdd ==
  ASSUME NEW n \in Nat, NEW S, Counts(n, S), NEW x, x \notin S
  PROVE  Counts(n + 1, S \cup {x})
<1>1. PICK f \in [1..n -> S] : /\ \A y \in S : \E k \in 1..n : f[k] = y
                               /\ \A j, k \in 1..n : f[j] = f[k] => j = k
  BY DEF Counts
<1> DEFINE g == [k \in 1..(n + 1) |-> IF k = n + 1 THEN x ELSE f[k]]
<1>2. g \in [1..(n + 1) -> S \cup {x}] /\ g[n + 1] = x /\ \A k \in 1..n : g[k] = f[k] /\ k \in 1..(n + 1)
  BY SMT
<1>3. \A k \in 1..(n + 1) : k \in 1..n \/ k = n + 1
  BY SMT
<1> HIDE DEF g
<1>4. \A y \in S \cup {x} : \E k \in 1..(n + 1) : g[k] = y
  BY <1>1, <1>2, SMT
<1>5. \A j, k \in 1..(n + 1) : g[j] = g[k] => j = k
  BY <1>1, <1>2, <1>3, SMT
<1> QED BY <1>2, <1>4, <1>5 DEF Counts

\* One less: the last of the list takes its place.
LEMMA CountRemove ==
  ASSUME NEW n \in Nat, NEW S, Counts(n, S), NEW x \in S
  PROVE  n > 0 /\ Counts(n - 1, S \ {x})
<1>1. PICK f \in [1..n -> S] : /\ \A y \in S : \E k \in 1..n : f[k] = y
                               /\ \A j, k \in 1..n : f[j] = f[k] => j = k
  BY DEF Counts
<1>2. PICK m \in 1..n : f[m] = x
  BY <1>1
<1> DEFINE g == [k \in 1..(n - 1) |-> IF k = m THEN f[n] ELSE f[k]]
<1>3. /\ n > 0 /\ n \in 1..n
      /\ \A k \in 1..(n - 1) : k \in 1..n /\ k # n /\ g[k] = IF k = m THEN f[n] ELSE f[k]
      /\ \A k \in 1..n : k # n => k \in 1..(n - 1)
      /\ g = [k \in 1..(n - 1) |-> g[k]]
  BY <1>2, SMT
<1> HIDE DEF g
<1>4. \A k \in 1..(n - 1) : g[k] \in S \ {x}
  BY <1>1, <1>2, <1>3
<1>5. \A y \in S \ {x} : \E k \in 1..(n - 1) : g[k] = y
  <2> SUFFICES ASSUME NEW y \in S \ {x} PROVE \E k \in 1..(n - 1) : g[k] = y
    OBVIOUS
  <2>1. PICK k \in 1..n : f[k] = y
    BY <1>1
  <2> QED BY <1>2, <1>3, <2>1
<1>6. \A j, k \in 1..(n - 1) : g[j] = g[k] => j = k
  BY <1>1, <1>2, <1>3
<1>7. g \in [1..(n - 1) -> S \ {x}]
  BY <1>3, <1>4
<1> QED BY <1>3, <1>5, <1>6, <1>7 DEF Counts

\* Two sets that differ at most in x
LEMMA CountToggled ==
  ASSUME NEW S, NEW A \in SUBSET S, NEW B \in SUBSET S, NEW x,
         \A y \in S : y # x => (y \in A <=> y \in B), NEW n \in Nat, Counts(n, A)
  PROVE  /\ n + One(x \in B) - One(x \in A) \in Nat
         /\ Counts(n + One(x \in B) - One(x \in A), B)
<1>1. CASE x \in A <=> x \in B
  <2>1. A = B
    BY <1>1, SMT
  <2> QED BY <1>1, <2>1, SMT DEF One
<1>2. CASE x \notin A /\ x \in B
  BY <1>2, B = A \cup {x}, CountAdd, SMT DEF One
<1>3. CASE x \in A /\ x \notin B
  BY <1>3, B = A \ {x}, CountRemove, SMT DEF One
<1> QED BY <1>1, <1>2, <1>3

\* What a count says of single members
LEMMA CountView ==
  ASSUME NEW n \in Nat, NEW S, Counts(n, S)
  PROVE  /\ \A x \in S : n > 0
         /\ n > 0 => \E x \in S : TRUE
         /\ n = 1 => \A x, y \in S : x = y
         /\ n > 1 => \A x \in S : \E y \in S : y # x
<1>1. PICK f \in [1..n -> S] : /\ \A y \in S : \E k \in 1..n : f[k] = y
                               /\ \A j, k \in 1..n : f[j] = f[k] => j = k
  BY DEF Counts
<1>2. ASSUME n > 1 PROVE 1 \in 1..n /\ 2 \in 1..n /\ f[1] # f[2]
  BY <1>1, <1>2, SMT
<1>3. n > 0 => 1 \in 1..n
  BY SMT
<1> QED BY <1>1, <1>2, <1>3, SMT

\* The counts of pointers, read as facts about single pointers
LEMMA RefsInView ==
  TypeOK /\ RefsAreCounted => RefsView
<1> SUFFICES ASSUME TypeOK, RefsAreCounted, NEW s \in Slot PROVE RefsView!(s)
  BY DEF RefsView
<1> DEFINE A == {p \in Proc : ip[p] = s}
           B == {p \in Proc : dup[p] = s}
<1>1. PICK n \in 0..icache[s].ref : Counts(n, A) /\ Counts(icache[s].ref - n, B)
  BY DEF RefsAreCounted
<1>2. /\ icache[s].ref \in Nat /\ n \in Nat /\ icache[s].ref - n \in Nat
      /\ \A p \in Proc : (p \in A <=> ip[p] = s) /\ (p \in B <=> dup[p] = s)
      /\ A \subseteq Proc /\ B \subseteq Proc
  BY SMT DEF TypeOK, Cell
<1> HIDE DEF A, B
<1>3. /\ \A x \in A : n > 0
      /\ n > 0 => \E x \in A : TRUE
      /\ n = 1 => \A x, y \in A : x = y
      /\ n > 1 => \A x \in A : \E y \in A : y # x
      /\ \A x \in B : icache[s].ref - n > 0
      /\ icache[s].ref - n > 0 => \E x \in B : TRUE
  BY <1>1, <1>2, CountView
<1> QED BY <1>2, <1>3, SMT

\* The counts of links, read as facts about single names and calls
LEMMA LinksInView ==
  TypeOK /\ LinksAreCounted => LinksView
<1> SUFFICES ASSUME TypeOK, LinksAreCounted, NEW i \in Inum PROVE LinksView!(i)
  BY DEF LinksView
<1> DEFINE A == {m \in Name : dir[m] = i}
           B == {p \in Proc : Owes(p, i)}
<1>1. PICK n \in 0..dinode[i].nlink : Counts(n, A) /\ Counts(dinode[i].nlink - n, B)
  BY DEF LinksAreCounted
<1>2. /\ dinode[i].nlink \in Nat /\ n \in Nat /\ dinode[i].nlink - n \in Nat
      /\ (\A m \in Name : m \in A <=> dir[m] = i) /\ (\A p \in Proc : p \in B <=> Owes(p, i))
      /\ A \subseteq Name /\ B \subseteq Proc
  BY SMT DEF TypeOK, Disk
<1> HIDE DEF A, B
<1>3. /\ \A x \in A : n > 0
      /\ n > 0 => \E x \in A : TRUE
      /\ \A x \in B : dinode[i].nlink - n > 0
      /\ dinode[i].nlink - n > 0 => \E x \in B : TRUE
  BY <1>1, <1>2, CountView
<1> QED BY <1>2, <1>3, SMT

-----------------------------------------------------------------------------
(* What every step leaves alone *)

\* The invariant with its views
Full == IInv /\ RefsView /\ LinksView

\* A step of p changes nothing of another process, but may wake it up.
OthersKept(p) ==
  \A q \in Proc \ {p} :
    /\ op'[q] = op[q] /\ nm'[q] = nm[q] /\ inum'[q] = inum[q]
    /\ ip'[q] = ip[q] /\ dup'[q] = dup[q]
    /\ pc'[q] = pc[q] \/ (pc[q] = "sleep" /\ pc'[q] = "ilock")

\* A slot that is in use stays the slot of its inode.
InumsKept == \A s \in Slot : icache[s].ref > 0 => icache'[s].inum = icache[s].inum

\* The values that stand for no slot, inode, process or name are not one.
LEMMA Apart ==
  0 \notin Slot /\ 0 \notin Inum /\ None \notin Proc /\ None \notin Name
BY IcacheConstants, SMT DEF Slot, Inum

\* The only arithmetic that most of the steps below need
LEMMA ZeroIsNotPositive == ~(0 > 0)
BY SMT

\* The invariant, taken apart
LEMMA Parts ==
  ASSUME Full
  PROVE  /\ TypeOK /\ CallsInv /\ BusyIsOwned /\ OneSlotPerInode /\ RefsAreCounted
         /\ ValidMatchesDisk /\ LockSleeperHasWaker /\ NoInodePanic /\ LinksAreCounted
         /\ InUseIsAllocated /\ UnlinkedIsHeld /\ FreedIsAlone /\ NewIsAlone
         /\ RefsView /\ LinksView
BY DEF Full, IInv, IcacheInv, FreedWhenUnreachable

\* A pointer is to a slot in use that holds an inode.
LEMMA Pointers ==
  ASSUME Full, NEW q \in Proc
  PROVE  /\ ip[q] # 0 => ip[q] \in Slot /\ me(q).ref > 0 /\ me(q).inum \in Inum
         /\ dup[q] # 0 => dup[q] \in Slot /\ icache[dup[q]].ref > 0 /\ icache[dup[q]].inum \in Inum
         /\ pc[q] \notin {"idle", "ialloc", "iget"} => ip[q] # 0
<1> USE Parts
<1>1. /\ ip[q] # 0 => ip[q] \in Slot /\ me(q).ref > 0
      /\ dup[q] # 0 => dup[q] \in Slot /\ icache[dup[q]].ref > 0
  BY SMT DEF TypeOK, RefsView, me
<1>2. \A s \in Slot : icache[s].ref > 0 => icache[s].inum \in Inum
  BY DEF TypeOK, Cell, OneSlotPerInode
<1>3. pc[q] \notin {"idle", "ialloc", "iget"} => ip[q] # 0
  BY DEF CallsInv, CallInv
<1> QED BY <1>1, <1>2, <1>3 DEF me

\* What the invariant says of the others is what it said before.
LEMMA OthersView ==
  ASSUME Full, NEW p \in Proc, OthersKept(p), InumsKept, NEW q \in Proc \ {p}
  PROVE  /\ HasDir(q)' <=> HasDir(q)
         /\ HasInode(q)' <=> HasInode(q)
         /\ \A i \in Inum : /\ Points(q, i)' <=> Points(q, i)
                            /\ New(q, i)' <=> New(q, i)
                            /\ Owes(q, i)' <=> Owes(q, i)
                            /\ Uses(q, i)' <=> Uses(q, i)
<1>1. /\ op'[q] = op[q] /\ nm'[q] = nm[q] /\ inum'[q] = inum[q]
      /\ ip'[q] = ip[q] /\ dup'[q] = dup[q]
      /\ pc'[q] = pc[q] \/ (pc[q] = "sleep" /\ pc'[q] = "ilock")
      /\ ip[q] # 0 => me(q)'.inum = me(q).inum
      /\ pc[q] \notin {"idle", "ialloc", "iget"} => ip[q] # 0
  BY Pointers DEF OthersKept, InumsKept, me
<1> USE <1>1
<1>2. (HasDir(q)' <=> HasDir(q)) /\ (HasInode(q)' <=> HasInode(q))
  BY DEF HasDir, HasInode
<1>3. ASSUME NEW i \in Inum
      PROVE  /\ Points(q, i)' <=> Points(q, i)
             /\ New(q, i)' <=> New(q, i)
             /\ Owes(q, i)' <=> Owes(q, i)
             /\ Uses(q, i)' <=> Uses(q, i)
  BY DEF Points, New, Owes, Uses
<1> QED BY <1>2, <1>3

\* The locks stay as they are and with their owners.
LEMMA BusyKept ==
  ASSUME BusyIsOwned, \A s \in Slot : icache'[s].busy <=> icache[s].busy,
         \A q \in Proc : (HasInode(q)' <=> HasInode(q)) /\ (HasInode(q) => ip'[q] = ip[q])
  PROVE  BusyIsOwned'
<1>1. ASSUME NEW s \in Slot
      PROVE  icache'[s].busy <=> \E q \in Proc : HasInode(q)' /\ ip'[q] = s
  BY <1>1, SMT DEF BusyIsOwned
<1>2. ASSUME NEW q \in Proc, NEW r \in Proc, HasInode(q)', HasInode(r)', ip'[q] = ip'[r]
      PROVE  q = r
  BY <1>2 DEF BusyIsOwned
<1> QED BY <1>1, <1>2 DEF BusyIsOwned

\* A process that does not hold the directory changes nothing for one that does.
LEMMA CallsOthers ==
  ASSUME Full, NEW p \in Proc, OthersKept(p), InumsKept, CallInv(p)',
         dlock' = dlock \/ (dlock \in {p, None} /\ dlock' \in {p, None}),
         dir' = dir \/ dlock \in {p, None}
  PROVE  CallsInv'
<1> SUFFICES ASSUME NEW q \in Proc \ {p} PROVE CallInv(q)'
  BY DEF CallsInv
<1>1. CallInv(q)
  BY Parts DEF CallsInv
<1>2. /\ (HasDir(q)' <=> HasDir(q)) /\ (dlock' = q <=> dlock = q)
      /\ HasDir(q) => dir' = dir
  BY <1>1, Apart, OthersView DEF CallInv
<1>3. /\ op'[q] = op[q] /\ nm'[q] = nm[q] /\ inum'[q] = inum[q]
      /\ ip'[q] = ip[q] /\ dup'[q] = dup[q]
      /\ pc'[q] = pc[q] \/ (pc[q] = "sleep" /\ pc'[q] = "ilock")
      /\ ip[q] # 0 => me(q)'.inum = me(q).inum
      /\ dup[q] # 0 => icache'[dup[q]].inum = icache[dup[q]].inum
  BY Pointers DEF OthersKept, InumsKept, me
<1>4. /\ dup[q] # 0 => HasDir(q)
      /\ HasDir(q) /\ op[q] = "unlink" => ip[q] # 0
  BY <1>1 DEF HasDir, CallInv
<1> QED BY <1>1, <1>2, <1>3, <1>4 DEF CallInv

-----------------------------------------------------------------------------
(* The counts after a step *)

\* A step of p that adds to ip->ref the pointers it takes, less the ones it drops
LEMMA RefsStep ==
  ASSUME Full, NEW p \in Proc, OthersKept(p),
         \A s \in Slot : icache'[s].ref = icache[s].ref + One(ip'[p] = s) - One(ip[p] = s)
                                          + One(dup'[p] = s) - One(dup[p] = s)
  PROVE  RefsAreCounted'
<1> SUFFICES ASSUME NEW s \in Slot
             PROVE  \E n \in 0..icache'[s].ref :
                      /\ Counts(n, {q \in Proc : ip'[q] = s})
                      /\ Counts(icache'[s].ref - n, {q \in Proc : dup'[q] = s})
  BY DEF RefsAreCounted, Counts
<1> DEFINE A == {q \in Proc : ip[q] = s}
           B == {q \in Proc : ip'[q] = s}
           C == {q \in Proc : dup[q] = s}
           D == {q \in Proc : dup'[q] = s}
<1>1. PICK n \in 0..icache[s].ref : Counts(n, A) /\ Counts(icache[s].ref - n, C)
  BY Parts DEF RefsAreCounted
<1> DEFINE m == icache[s].ref - n
<1>2. n \in Nat /\ m \in Nat /\ icache[s].ref = n + m /\ Counts(m, C)
  BY <1>1, Parts, SMT DEF TypeOK, Cell
<1> HIDE DEF m
<1>3. /\ A \in SUBSET Proc /\ B \in SUBSET Proc /\ \A q \in Proc : q # p => (q \in A <=> q \in B)
      /\ (p \in A <=> ip[p] = s) /\ (p \in B <=> ip'[p] = s)
  BY DEF OthersKept
<1>4. /\ C \in SUBSET Proc /\ D \in SUBSET Proc /\ \A q \in Proc : q # p => (q \in C <=> q \in D)
      /\ (p \in C <=> dup[p] = s) /\ (p \in D <=> dup'[p] = s)
  BY DEF OthersKept
<1> DEFINE a == n + One(p \in B) - One(p \in A)
           c == m + One(p \in D) - One(p \in C)
<1> HIDE DEF A, B, C, D
<1>5. a \in Nat /\ Counts(a, B)
  BY <1>1, <1>2, <1>3, CountToggled
<1>6. c \in Nat /\ Counts(c, D)
  BY <1>2, <1>4, CountToggled
<1>7. icache'[s].ref = a + c
  BY <1>2, <1>3, <1>4, SMT DEF One
<1> HIDE DEF a, c
<1>8. a \in 0..icache'[s].ref /\ icache'[s].ref - a = c
  BY <1>5, <1>6, <1>7, SMT
<1> QED BY <1>5, <1>6, <1>8 DEF B, D

\* A step that leaves the pointers alone
LEMMA RefsKept ==
  ASSUME Full, ip' = ip, dup' = dup, \A s \in Slot : icache'[s].ref = icache[s].ref
  PROVE  RefsAreCounted'
<1>1. RefsAreCounted
  BY Parts
<1> SUFFICES ASSUME NEW s \in Slot
             PROVE  \E n \in 0..icache'[s].ref :
                      /\ Counts(n, {q \in Proc : ip'[q] = s})
                      /\ Counts(icache'[s].ref - n, {q \in Proc : dup'[q] = s})
  BY DEF RefsAreCounted, Counts
<1> QED BY <1>1 DEF RefsAreCounted

\* The names of an inode, and the calls that owe it a link
Names(i) == {m \in Name : dir[m] = i}
Owing(i) == {q \in Proc : Owes(q, i)}

\* A step that counts the links it makes, drops, owes and pays
LEMMA LinksStep ==
  ASSUME Full, NEW p \in Proc, OthersKept(p), InumsKept, NEW n,
         \A m \in Name : m # n => dir'[m] = dir[m],
         \A i \in Inum : dinode'[i].nlink = dinode[i].nlink + One(n \in Names(i)') - One(n \in Names(i))
                                            + One(Owes(p, i)') - One(Owes(p, i))
  PROVE  LinksAreCounted'
<1> SUFFICES ASSUME NEW i \in Inum
             PROVE  \E k \in 0..dinode'[i].nlink :
                      Counts(k, Names(i)') /\ Counts(dinode'[i].nlink - k, Owing(i)')
  BY DEF LinksAreCounted, Names, Owing, Counts
<1>1. PICK k \in 0..dinode[i].nlink : Counts(k, Names(i)) /\ Counts(dinode[i].nlink - k, Owing(i))
  BY Parts DEF LinksAreCounted, Names, Owing
<1> DEFINE c == dinode[i].nlink - k
<1>2. k \in Nat /\ c \in Nat /\ dinode[i].nlink = k + c /\ Counts(c, Owing(i))
  BY <1>1, Parts, SMT DEF TypeOK, Disk
<1> HIDE DEF c
<1>3. /\ Names(i) \in SUBSET Name /\ Names(i)' \in SUBSET Name
      /\ \A m \in Name : m # n => (m \in Names(i) <=> m \in Names(i)')
  BY DEF Names
<1>4. /\ Owing(i) \in SUBSET Proc /\ Owing(i)' \in SUBSET Proc
      /\ \A q \in Proc : q # p => (q \in Owing(i) <=> q \in Owing(i)')
      /\ (p \in Owing(i) <=> Owes(p, i)) /\ (p \in Owing(i)' <=> Owes(p, i)')
  BY OthersView DEF Owing
<1> DEFINE a == k + One(n \in Names(i)') - One(n \in Names(i))
           b == c + One(p \in Owing(i)') - One(p \in Owing(i))
<1>5. a \in Nat /\ Counts(a, Names(i)') /\ b \in Nat /\ Counts(b, Owing(i)')
  <2>1. a \in Nat /\ Counts(a, Names(i)')
    BY <1>1, <1>2, <1>3, CountToggled
  <2>2. b \in Nat /\ Counts(b, Owing(i)')
    BY <1>2, <1>4, CountToggled
  <2> QED BY <2>1, <2>2
<1>6. dinode'[i].nlink = a + b
  BY <1>2, <1>4, SMT DEF One
<1> HIDE DEF a, b
<1>7. a \in 0..dinode'[i].nlink /\ dinode'[i].nlink - a = b
  BY <1>5, <1>6, SMT
<1> QED BY <1>5, <1>7

\* A step that leaves the directory alone
LEMMA LinksOwed ==
  ASSUME Full, NEW p \in Proc, OthersKept(p), InumsKept, dir' = dir,
         \A i \in Inum : dinode'[i].nlink = dinode[i].nlink + One(Owes(p, i)') - One(Owes(p, i))
  PROVE  LinksAreCounted'
<1>1. \A i \in Inum : Names(i)' = Names(i) /\ dinode[i].nlink \in Nat
  BY Parts DEF Names, TypeOK, Disk
<1>2. \A i \in Inum : dinode'[i].nlink = dinode[i].nlink + One(None \in Names(i)') - One(None \in Names(i))
                                         + One(Owes(p, i)') - One(Owes(p, i))
  BY <1>1, SMT DEF One
<1> QED BY <1>2, LinksStep

-----------------------------------------------------------------------------
(* Steps that leave the cache and the disk inodes alone *)

\* What p may do to its own call in such a step, and to the directory
StillHere(p) ==
  /\ ip' = ip /\ dup' = dup /\ icache' = icache /\ dinode' = dinode /\ panicked' = "no"
  /\ dlock' = dlock \/ (dlock \in {p, None} /\ dlock' \in {p, None})
  /\ dir' = dir \/ dlock \in {p, None}
  /\ \A m \in Name : dir'[m] \in {dir[m], 0} \/ (ip[p] # 0 /\ dir'[m] = me(p).inum)
StillCall(p) ==
  /\ HasInode(p)' <=> HasInode(p)
  /\ pc[p] \notin {"free", "freed"} /\ pc'[p] \notin {"free", "freed"}
  /\ \A i \in Inum : (New(p, i)' <=> New(p, i)) /\ (Uses(p, i)' <=> Uses(p, i))
  /\ pc'[p] = "sleep" => me(p).busy
  /\ pc[p] \in {"ilock", "sleep"} => pc'[p] \in {"ilock", "sleep"} /\ op'[p] = op[p]
  /\ pc[p] = "read" => pc'[p] = "read" /\ op'[p] = op[p]

\* A step that leaves the slots, the pointers and what the call has made as they are
LEMMA StillStep ==
  ASSUME Full, NEW p \in Proc, OthersKept(p), TypeOK', CallInv(p)', StillHere(p), StillCall(p),
         LinksAreCounted'
  PROVE  IInv'
<1> USE Parts
<1>1. InumsKept /\ RefsAreCounted' /\ OneSlotPerInode' /\ NoInodePanic'
  BY RefsKept DEF InumsKept, StillHere, OneSlotPerInode, NoInodePanic
<1>2. CallsInv'
  BY <1>1, CallsOthers DEF StillHere
<1>3. \A q \in Proc : /\ HasInode(q)' <=> HasInode(q)
                      /\ ip'[q] = ip[q]
                      /\ (pc'[q] = "freed" <=> pc[q] = "freed") /\ (pc'[q] = "free" <=> pc[q] = "free")
  BY <1>1, OthersView DEF StillCall, StillHere, OthersKept
<1>4. BusyIsOwned'
  BY <1>3 DEF BusyIsOwned, StillHere
<1>5. ValidMatchesDisk'
  <2>1. \A q \in Proc : ip[q] # 0 =>
          me(q).valid \/ (pc'[q] \in {"ilock", "sleep", "read"} /\ op'[q] # "bad")
    BY SMT DEF ValidMatchesDisk, OthersKept, StillCall
  <2> QED BY <1>3, <2>1, SMTT(10), SMTT(30) DEF ValidMatchesDisk, StillHere, me
<1>6. LockSleeperHasWaker'
  BY DEF LockSleeperHasWaker, OthersKept, StillCall, StillHere, me
<1>7. \A q \in Proc, i \in Inum :
        /\ New(q, i)' <=> New(q, i)
        /\ Uses(q, i)' <=> Uses(q, i)
        /\ Points(q, i)' <=> Points(q, i)
  BY <1>1, OthersView, SMT DEF StillCall, StillHere, Points, me
<1>8. InUseIsAllocated' /\ UnlinkedIsHeld'
  <2>1. ip[p] # 0 /\ me(p).inum \in Inum => dinode[me(p).inum].alloc
    BY DEF InUseIsAllocated, Uses, Points, StillCall
  <2> QED BY <1>7, <2>1, Apart DEF InUseIsAllocated, UnlinkedIsHeld, StillHere
<1>9. FreedIsAlone'
  <2>1. \A q \in Proc : op[q] = "create" /\ pc[q] \in {"ilock", "sleep"} =>
                        op'[q] = "create" /\ pc'[q] \in {"ilock", "sleep"}
    BY DEF OthersKept, StillCall
  <2> QED BY <1>3, <2>1 DEF FreedIsAlone, StillHere, me
<1>10. NewIsAlone'
  BY <1>3, <1>7 DEF NewIsAlone, StillHere
<1> QED BY <1>1, <1>2, <1>4, <1>5, <1>6, <1>8, <1>9, <1>10
        DEF IInv, IcacheInv, FreedWhenUnreachable

\* Steps that only go on to another place of the call
Move(p) ==
  \/ ialloc_next(p) \/ ilock_sleep(p) \/ locked_open(p) \/ link_fail(p) \/ close(p)
  \/ \E n \in Name : create(p, n)

\* Where they go
Goes(p) ==
  \/ /\ pc[p] = "idle" /\ pc'[p] = "ialloc" /\ op'[p] = "create" /\ dlock = None /\ dlock' = p
     /\ nm'[p] \in Name /\ dir[nm'[p]] = 0
  \/ /\ nm'[p] = nm[p] /\ dlock' = dlock
     /\ \/ pc[p] = "link" /\ pc'[p] = "ilock" /\ op'[p] = "bad"
        \/ /\ op'[p] = op[p]
           /\ \/ pc[p] = "ialloc" /\ pc'[p] = "ialloc"
              \/ /\ inum'[p] = inum[p]
                 /\ \/ pc[p] = "ilock" /\ pc'[p] = "sleep" /\ me(p).busy
                    \/ pc[p] = "locked" /\ pc'[p] = "iunlock" /\ op[p] = "open"
                    \/ pc[p] = "open" /\ pc'[p] = "iput"

Moved(p) ==
  /\ Goes(p) /\ ip' = ip /\ dup' = dup /\ icache' = icache /\ dinode' = dinode
  /\ dir' = dir /\ panicked' = "no"

\* The steps that only move on in the call: ialloc() to the next inode, the sleep in
\* ilock(), open() and close(), the failed dirlink() of sys_link(), the start of create()
LEMMA MoveStep ==
  ASSUME Full, NEW p \in Proc, Move(p)
  PROVE  IInv'
<1> USE Parts
<1>1. TypeOK' /\ OthersKept(p) /\ Moved(p)
  <2>1. CASE ialloc_next(p)
    BY <2>1, IcacheConstants, SMTT(10), SMTT(30) DEF ialloc_next, TypeOK, OthersKept, Goes, Moved
  <2>2. CASE ilock_sleep(p)
    BY <2>2 DEF ilock_sleep, goto, TypeOK, Places, OthersKept, Goes, Moved
  <2>3. CASE locked_open(p)
    BY <2>3 DEF locked_open, goto, TypeOK, Places, OthersKept, Goes, Moved
  <2>4. CASE link_fail(p)
    BY <2>4 DEF link_fail, goto, TypeOK, Places, OthersKept, Goes, Moved
  <2>5. CASE close(p)
    BY <2>5 DEF close, goto, TypeOK, Places, OthersKept, Goes, Moved
  <2>6. ASSUME NEW n \in Name, create(p, n)
        PROVE  TypeOK' /\ OthersKept(p) /\ Moved(p)
    BY <2>6, IcacheConstants, SMT DEF create, start, goto, TypeOK, Places, OthersKept, Goes, Moved
  <2> QED BY <2>1, <2>2, <2>3, <2>4, <2>5, <2>6 DEF Move
<1> USE <1>1
<1>2. CallInv(p)' /\ StillCall(p) /\ \A i \in Inum : Owes(p, i)' <=> Owes(p, i)
  <2>1. CallInv(p)
    BY DEF CallsInv
  <2>2. CallInv(p)'
    BY <2>1, Apart DEF CallInv, Goes, Moved, HasDir, me
  <2>3. StillCall(p)
    BY <2>1 DEF CallInv, Goes, Moved, StillCall, HasInode, HasDir, New, Uses, Points, me
  <2>4. \A i \in Inum : Owes(p, i)' <=> Owes(p, i)
    BY <2>1 DEF CallInv, Goes, Moved, HasDir, Owes, Points, me
  <2> QED BY <2>2, <2>3, <2>4
<1>3. StillHere(p) /\ InumsKept
  BY DEF StillHere, InumsKept, Goes, Moved
<1>4. LinksAreCounted'
  <2>1. \A i \in Inum : dinode'[i].nlink = dinode[i].nlink + One(Owes(p, i)') - One(Owes(p, i))
    BY <1>2, SMT DEF Moved, TypeOK, Disk, One
  <2> QED BY <1>3, <2>1, LinksOwed DEF Moved
<1> QED BY <1>2, <1>3, <1>4, StillStep

-----------------------------------------------------------------------------
(* Steps on the directory *)

\* The slot that p has locked is valid and agrees with the disk inode.
LEMMA Mine ==
  ASSUME Full, NEW p \in Proc, pc[p] \in {"locked", "update", "dirlink", "iunlock", "free"}
  PROVE  /\ ip[p] \in Slot /\ me(p).inum \in Inum /\ me(p).ref > 0 /\ me(p).valid
         /\ \A q \in Proc : pc[q] = "freed" => ip[q] # ip[p]
         /\ dinode[me(p).inum].alloc = me(p).alloc /\ dinode[me(p).inum].nlink = me(p).nlink
         /\ me(p).alloc
<1> USE Parts
<1>1. ip[p] # 0 /\ ip[p] \in Slot /\ me(p).inum \in Inum /\ me(p).ref > 0
  BY Pointers
<1>2. me(p).valid
  BY <1>1 DEF ValidMatchesDisk
<1>3. \A q \in Proc : pc[q] = "freed" => ip[q] # ip[p]
  BY DEF BusyIsOwned, HasInode
<1>4. dinode[me(p).inum] = [alloc |-> me(p).alloc, nlink |-> me(p).nlink]
  BY <1>1, <1>2, <1>3 DEF ValidMatchesDisk, me
<1>5. dinode[me(p).inum].alloc
  BY <1>1 DEF InUseIsAllocated, Uses, Points
<1> QED BY <1>1, <1>2, <1>3, <1>4, <1>5, SMT

\* sys_unlink() clears the entry and owes the decrement of nlink.
LEMMA UnlinkEntryStep ==
  ASSUME Full, NEW p \in Proc, unlink_entry(p)
  PROVE  IInv'
<1> USE Parts
<1>0. CallInv(p) /\ pc[p] = "locked" /\ op[p] = "unlink" /\ HasDir(p)
  BY DEF CallsInv, unlink_entry, HasDir
<1>1. /\ nm[p] \in Name /\ dir[nm[p]] = me(p).inum /\ me(p).inum \in Inum /\ dlock = p
      /\ dup[p] = 0 /\ ip[p] # 0
  BY <1>0, Mine, Apart DEF CallInv, TypeOK
<1> USE <1>0, <1>1
<1>2. ~(me(p).nlink < 1)
  <2>1. dinode[me(p).inum].nlink \in Nat /\ dinode[me(p).inum].nlink > 0
    BY DEF LinksView, TypeOK, Disk
  <2> QED BY <2>1, Mine, SMTT(10), SMTT(30)
<1>3. /\ dir' = [dir EXCEPT ![nm[p]] = 0] /\ dlock' = None /\ pc' = [pc EXCEPT ![p] = "update"]
      /\ UNCHANGED <<dinode, icache, op, nm, ip, dup, inum>> /\ panicked' = "no"
  BY <1>2 DEF unlink_entry, goto
<1>4. /\ TypeOK' /\ OthersKept(p) /\ InumsKept /\ pc'[p] = "update"
      /\ (\A m \in Name : m # nm[p] => dir'[m] = dir[m]) /\ dir'[nm[p]] = 0
  <2>1. TypeOK'
    BY <1>3 DEF TypeOK, Places, Panics
  <2>2. OthersKept(p) /\ InumsKept /\ pc'[p] = "update"
    BY <1>3 DEF TypeOK, OthersKept, InumsKept
  <2>3. (\A m \in Name : m # nm[p] => dir'[m] = dir[m]) /\ dir'[nm[p]] = 0
    BY <1>3 DEF TypeOK
  <2> QED BY <2>1, <2>2, <2>3
<1>5. CallInv(p)'
  BY <1>3, <1>4, Apart DEF CallInv, HasDir, me
<1>6. StillCall(p) /\ \A i \in Inum : (Owes(p, i)' <=> me(p).inum = i) /\ ~Owes(p, i)
  BY <1>3, <1>4 DEF StillCall, HasInode, New, Uses, Points, Owes, me
<1>7. LinksAreCounted'
  <2>1. \A i \in Inum : /\ dinode'[i].nlink \in Nat /\ dinode'[i].nlink = dinode[i].nlink
                        /\ nm[p] \notin Names(i)' /\ (nm[p] \in Names(i) <=> me(p).inum = i)
    BY <1>3, <1>4, Apart DEF TypeOK, Disk, Names
  <2>2. \A i \in Inum : dinode'[i].nlink = dinode[i].nlink + One(nm[p] \in Names(i)') - One(nm[p] \in Names(i))
                                            + One(Owes(p, i)') - One(Owes(p, i))
    BY <1>6, <2>1, SMT DEF One
  <2> QED BY <1>4, <2>2, LinksStep
<1>8. StillHere(p)
  BY <1>3, <1>4 DEF StillHere
<1> QED BY <1>4, <1>5, <1>6, <1>7, <1>8, StillStep

\* create() and sys_link() pay the link they owe with the name n.
LEMMA DirlinkStep ==
  ASSUME Full, NEW p \in Proc, NEW n \in Name, (create_dirlink(p) /\ n = nm[p]) \/ link_dirlink(p, n)
  PROVE  IInv'
<1> USE Parts
<1>0. CallInv(p)
  BY DEF CallsInv
<1>1. /\ dir[n] = 0 /\ ip[p] # 0 /\ me(p).inum \in Inum /\ dlock \in {p, None} /\ dlock' = None
      /\ dir' = [dir EXCEPT ![n] = me(p).inum]
      /\ UNCHANGED <<dinode, icache, op, nm, ip, dup, inum>> /\ panicked' = "no"
      /\ \/ pc[p] = "dirlink" /\ op[p] = "create" /\ pc' = [pc EXCEPT ![p] = "iunlock"]
         \/ pc[p] = "link" /\ op[p] = "link" /\ pc' = [pc EXCEPT ![p] = "iput"]
      /\ dup[p] = 0 /\ nm[p] # None
  BY <1>0, Pointers, Apart DEF create_dirlink, link_dirlink, goto, CallInv, HasDir
<1> USE <1>1
<1>2. /\ TypeOK' /\ OthersKept(p) /\ InumsKept
      /\ \/ pc[p] = "dirlink" /\ op[p] = "create" /\ pc'[p] = "iunlock"
         \/ pc[p] = "link" /\ op[p] = "link" /\ pc'[p] = "iput"
      /\ (\A m \in Name : m # n => dir'[m] = dir[m]) /\ dir'[n] = me(p).inum
  <2>1. TypeOK'
    BY DEF TypeOK, Places, Panics
  <2>2. /\ OthersKept(p) /\ InumsKept
        /\ \/ pc[p] = "dirlink" /\ op[p] = "create" /\ pc'[p] = "iunlock"
           \/ pc[p] = "link" /\ op[p] = "link" /\ pc'[p] = "iput"
    BY DEF TypeOK, OthersKept, InumsKept
  <2>3. (\A m \in Name : m # n => dir'[m] = dir[m]) /\ dir'[n] = me(p).inum
    BY DEF TypeOK
  <2> QED BY <2>1, <2>2, <2>3
<1>3. CallInv(p)'
  BY <1>0, <1>2, Apart DEF CallInv, HasDir, me
<1>4. StillCall(p) /\ \A i \in Inum : (Owes(p, i) <=> me(p).inum = i) /\ ~Owes(p, i)'
  BY <1>2 DEF StillCall, HasInode, New, Uses, Points, Owes, me
<1>5. LinksAreCounted'
  <2>1. \A i \in Inum : /\ dinode'[i].nlink \in Nat /\ dinode'[i].nlink = dinode[i].nlink
                        /\ n \notin Names(i) /\ (n \in Names(i)' <=> me(p).inum = i)
    BY <1>2, Apart, SMTT(10), SMTT(30) DEF TypeOK, Disk, Names
  <2>2. \A i \in Inum : dinode'[i].nlink = dinode[i].nlink + One(n \in Names(i)') - One(n \in Names(i))
                                            + One(Owes(p, i)') - One(Owes(p, i))
    BY <1>4, <2>1, SMT DEF One
  <2> QED BY <1>2, <2>2, LinksStep
<1>6. StillHere(p)
  BY <1>2 DEF StillHere
<1> QED BY <1>2, <1>3, <1>4, <1>5, <1>6, StillStep

-----------------------------------------------------------------------------
(* Steps on the slot t of inode i that leave the pointers alone *)

\* p has the slot, and the step changes no other slot, disk inode or pointer.
Here(p, t, i) ==
  t \in Slot /\ i \in Inum /\ ip[p] = t /\ icache[t].inum = i /\ icache[t].ref > 0 /\ pc[p] # "freed"
Framed(t, i) ==
  /\ icache'[t].ref = icache[t].ref /\ icache'[t].inum = i
  /\ \A s \in Slot : s # t => icache'[s] = icache[s]
  /\ \A j \in Inum : j # i => dinode'[j] = dinode[j]
Kept == ip' = ip /\ dup' = dup /\ dir' = dir /\ dlock' = dlock /\ panicked' = "no"

\* What p may do to the lock, the copy, the disk inode and the links
Locks(p, t) ==
  /\ HasInode(p) \/ ~icache[t].busy
  /\ icache'[t].busy <=> HasInode(p)'
  /\ icache'[t].busy \/ \A q \in Proc : ip[q] = t => pc'[q] # "sleep"
  /\ pc'[p] # "sleep"
Copies(p, t, i) ==
  /\ icache[t].valid => icache'[t].valid
  /\ icache'[t].valid \/ (pc'[p] = "read" /\ op'[p] # "bad")
  /\ icache'[t].valid /\ pc'[p] # "freed" =>
       dinode'[i] = [alloc |-> icache'[t].alloc, nlink |-> icache'[t].nlink]
Frees(p, t, i) ==
  /\ pc'[p] # "freed" => dinode'[i].alloc
  /\ pc'[p] = "freed" => pc[p] = "free" /\ ~dinode'[i].alloc /\ dinode'[i].nlink = 0
  /\ pc'[p] = "free" => icache'[t].ref = 1 /\ icache'[t].nlink = 0
Makes(p, i) == pc'[p] # "iget" /\ (New(p, i)' => New(p, i) /\ dinode'[i].nlink = 0)
Pays(p, i) == dinode'[i].nlink = dinode[i].nlink + One(Owes(p, i)') - One(Owes(p, i))

SlotCall(p, t, i) ==
  /\ Here(p, t, i) /\ Framed(t, i) /\ Kept /\ Locks(p, t) /\ Copies(p, t, i) /\ Frees(p, t, i)
  /\ Makes(p, i) /\ Pays(p, i) /\ OthersKept(p) /\ TypeOK' /\ CallInv(p)'

\* A step on one slot and its disk inode keeps the invariant.
LEMMA SlotStep ==
  ASSUME Full, NEW p \in Proc, NEW t, NEW i, SlotCall(p, t, i)
  PROVE  IInv'
<1>0. /\ Here(p, t, i) /\ Framed(t, i) /\ Kept /\ Locks(p, t) /\ Copies(p, t, i) /\ Frees(p, t, i)
      /\ Makes(p, i) /\ Pays(p, i) /\ OthersKept(p) /\ TypeOK' /\ CallInv(p)'
  BY DEF SlotCall
<1> USE Parts, <1>0
<1>1. InumsKept /\ CallsInv'
  <2>1. InumsKept
    BY DEF InumsKept, Here, Framed
  <2> QED BY <2>1, CallsOthers DEF Kept
<1>2. LinksAreCounted' /\ OneSlotPerInode' /\ RefsAreCounted' /\ NoInodePanic'
  <2>1. \A j \in Inum : /\ j # i => ~Owes(p, j) /\ ~Owes(p, j)' /\ dinode'[j] = dinode[j]
                        /\ dinode[j].nlink \in Nat
    BY DEF Owes, Points, Here, Framed, Kept, me, TypeOK, Disk
  <2>2. \A j \in Inum : dinode'[j].nlink = dinode[j].nlink + One(Owes(p, j)') - One(Owes(p, j))
    BY <2>1, SMT DEF One, Pays
  <2>3. LinksAreCounted'
    BY <1>1, <2>2, LinksOwed DEF Kept
  <2>4. OneSlotPerInode' /\ RefsAreCounted' /\ NoInodePanic'
    <3>1. \A s \in Slot : icache'[s].ref = icache[s].ref /\ icache'[s].inum = icache[s].inum
      BY DEF Here, Framed
    <3>2. OneSlotPerInode' /\ NoInodePanic'
      BY <3>1 DEF OneSlotPerInode, Kept, NoInodePanic
    <3> QED BY <3>1, <3>2, RefsKept DEF Kept
  <2> QED BY <2>3, <2>4
<1>3. \A q \in Proc : q # p => /\ HasInode(q)' <=> HasInode(q)
                               /\ ip[q] = t => ~HasInode(q)
  BY <1>1, OthersView DEF BusyIsOwned, Here, Locks
<1>4. BusyIsOwned'
  BY <1>3, SMT DEF BusyIsOwned, Here, Framed, Kept, Locks
<1>5. ValidMatchesDisk'
  <2>1. \A q \in Proc : ip[q] # 0 =>
          icache'[ip[q]].valid \/ (pc'[q] \in {"ilock", "sleep", "read"} /\ op'[q] # "bad")
    BY Pointers, SMT DEF ValidMatchesDisk, Here, Framed, Copies, OthersKept, me
  <2>2. \A q \in Proc : pc[q] = "freed" => ip[q] # t /\ pc'[q] = "freed"
    BY <1>3 DEF Here, OthersKept, HasInode
  <2>3. \A s \in Slot : s # t /\ icache[s].ref > 0 => dinode'[icache[s].inum] = dinode[icache[s].inum]
    BY SMTT(10), SMTT(30) DEF OneSlotPerInode, Here, Framed, TypeOK, Cell
  <2>4. ASSUME NEW s \in Slot, icache'[s].ref > 0, icache'[s].valid,
               \A q \in Proc : pc'[q] = "freed" => ip[q] # s
        PROVE  dinode'[icache'[s].inum] = [alloc |-> icache'[s].alloc, nlink |-> icache'[s].nlink]
    BY <2>2, <2>3, <2>4, SMT DEF ValidMatchesDisk, Here, Framed, Copies
  <2> QED BY <2>1, <2>4 DEF ValidMatchesDisk, Kept, me
<1>6. LockSleeperHasWaker'
  <2> SUFFICES ASSUME NEW q \in Proc, pc'[q] = "sleep"
               PROVE  icache'[ip[q]].busy
    BY DEF LockSleeperHasWaker, Kept, me
  <2>1. CASE ip[q] = t
    BY <2>1 DEF Locks
  <2>2. CASE ip[q] # t
    <3>1. pc[q] = "sleep"
      BY <2>2 DEF Here, OthersKept
    <3> QED BY <2>2, <3>1, Pointers DEF LockSleeperHasWaker, Framed, me
  <2> QED BY <2>1, <2>2
<1>7. \A q \in Proc, j \in Inum :
        /\ Points(q, j)' <=> Points(q, j)
        /\ q # p => (New(q, j)' <=> New(q, j)) /\ (Uses(q, j)' <=> Uses(q, j))
  BY <1>1, OthersView, SMT DEF Here, Framed, Kept, Points, me
<1>8. \A j \in Inum : /\ Points(p, j) <=> j = i
                      /\ New(p, j) \/ New(p, j)' => j = i
  BY Apart DEF Here, Framed, Kept, Makes, Points, New, me, CallsInv, CallInv
<1>9. NewIsAlone'
  <2> SUFFICES ASSUME NEW q \in Proc, NEW j \in Inum, New(q, j)'
               PROVE  /\ dinode'[j].nlink = 0
                      /\ \A r \in Proc \ {q} : Points(r, j)' => pc'[r] = "freed"
    BY DEF NewIsAlone
  <2>1. New(q, j)
    BY <1>7, <1>8 DEF Makes
  <2>2. /\ dinode[j].nlink = 0
        /\ \A r \in Proc \ {q} : Points(r, j) => pc[r] = "freed"
    BY <2>1 DEF NewIsAlone
  <2>3. dinode'[j].nlink = 0
    <3>1. CASE q = p
      BY <1>8, <3>1 DEF Makes
    <3>2. CASE q # p
      BY <1>8, <2>2, <3>2 DEF Here, Framed
    <3> QED BY <3>1, <3>2
  <2> QED BY <1>7, <2>2, <2>3 DEF Here, OthersKept
<1>10. UnlinkedIsHeld'
  BY <1>7, <1>8, SMT DEF UnlinkedIsHeld, Uses, Framed, Frees
<1>11. pc'[p] = "freed" => \A q \in Proc : q # p => ip[q] # t
  <2>1. pc'[p] = "freed" => icache[t].ref = 1
    BY DEF FreedIsAlone, Here, Frees, me
  <2> QED BY <2>1 DEF RefsView, Here
<1>12. InUseIsAllocated'
  <2>1. ASSUME pc'[p] = "freed"
        PROVE  (\A m \in Name : dir[m] # i) /\ \A q \in Proc : ~Uses(q, i)'
    <3>1. dinode[i].nlink = 0 /\ i \in Inum
      BY <2>1, Mine DEF FreedIsAlone, Here, Frees, me
    <3>2. \A q \in Proc : q # p => ~Points(q, i) /\ ~New(q, i)
      BY <1>8, <1>11, <2>1, Pointers, SMT DEF OneSlotPerInode, NewIsAlone, Points, Here, me
    <3>3. ~Uses(p, i)'
      BY <2>1 DEF Uses, New
    <3> QED BY <1>7, <3>1, <3>2, <3>3, SMT DEF LinksView, Uses
  <2>2. ASSUME NEW j \in Inum, j # i, (\E n \in Name : dir[n] = j) \/ \E q \in Proc : Uses(q, j)'
        PROVE  dinode[j].alloc /\ dinode'[j] = dinode[j]
    <3>1. ~Uses(p, j)'
      BY <1>7, <1>8, <2>2 DEF Uses
    <3> QED BY <1>7, <2>2, <3>1 DEF InUseIsAllocated, Framed
  <2> QED BY <2>1, <2>2 DEF InUseIsAllocated, Kept, Frees
<1>13. FreedIsAlone'
  <2>1. ASSUME NEW q \in Proc, q # p, pc'[q] \in {"free", "freed"}
        PROVE  /\ pc[q] = pc'[q] /\ ip[q] # t /\ icache'[ip[q]] = icache[ip[q]]
               /\ dinode'[me(q).inum] = dinode[me(q).inum]
    <3>1. /\ pc[q] = pc'[q] /\ ip[q] # t /\ ip[q] \in Slot
          /\ me(q).ref > 0 /\ me(q).inum \in Inum
      BY <1>3, <2>1, Pointers DEF OthersKept, HasInode
    <3>2. me(q).inum # i
      BY <3>1 DEF OneSlotPerInode, Here, me
    <3> QED BY <3>1, <3>2 DEF Framed
  <2>2. ASSUME NEW q \in Proc
        PROVE  /\ pc'[q] = "free" => icache'[ip[q]].ref = 1 /\ icache'[ip[q]].nlink = 0
               /\ pc'[q] = "freed" => dinode'[icache'[ip[q]].inum].nlink = 0
    <3>1. CASE q = p
      BY <3>1 DEF Here, Framed, Frees
    <3>2. CASE q # p
      <4>1. /\ pc[q] = "free" => icache[ip[q]].ref = 1 /\ icache[ip[q]].nlink = 0
            /\ pc[q] = "freed" => dinode[icache[ip[q]].inum].nlink = 0
        BY DEF FreedIsAlone, me
      <4> QED BY <2>1, <3>2, <4>1 DEF me
    <3> QED BY <3>1, <3>2
  <2>3. ASSUME NEW q \in Proc, pc'[q] = "freed", NEW r \in Proc \ {q}, ip[r] = ip[q]
        PROVE  op'[r] = "create" /\ pc'[r] \in {"ilock", "sleep"}
    <3>1. q # p /\ r # p /\ pc[q] = "freed"
      BY <1>11, <2>1, <2>3 DEF Here
    <3>2. op[r] = "create" /\ pc[r] \in {"ilock", "sleep"}
      BY <2>3, <3>1 DEF FreedIsAlone
    <3> QED BY <3>1, <3>2 DEF OthersKept
  <2> QED BY <2>2, <2>3 DEF FreedIsAlone, Kept, me
<1> QED BY <1>1, <1>2, <1>4, <1>5, <1>6, <1>9, <1>10, <1>12, <1>13
        DEF IInv, IcacheInv, FreedWhenUnreachable

\* The step makes the slot c and the disk inode d.
SlotChange(p, c, d) ==
  /\ icache' = [icache EXCEPT ![ip[p]] = c] /\ c \in Cell
  /\ c.ref = me(p).ref /\ c.inum = me(p).inum
  /\ dinode' = [dinode EXCEPT ![me(p).inum] = d] /\ d \in Disk
  /\ UNCHANGED <<dir, dlock, op, nm, ip, dup, inum>> /\ panicked' = "no"
  /\ pc' \in [Proc -> Places]
  /\ \A q \in Proc \ {p} : pc'[q] = pc[q] \/ (pc[q] = "sleep" /\ pc'[q] = "ilock")

\* Where p goes in these steps
Turn(p) ==
  /\ dup[p] = 0
  /\ \/ pc[p] = "ilock" /\ pc'[p] = "read"
     \/ pc[p] = "read" /\ pc'[p] = "locked"
     \/ pc[p] = "locked" /\ op[p] = "create" /\ pc'[p] = "dirlink"
     \/ pc[p] = "locked" /\ op[p] \in {"link", "bad"} /\ pc'[p] = "iunlock"
     \/ pc[p] = "update" /\ pc'[p] = "iunlock"
     \/ pc[p] = "iunlock" /\ op[p] \in {"open", "create"} /\ pc'[p] = "open"
     \/ pc[p] = "iunlock" /\ op[p] = "link" /\ pc'[p] = "link"
     \/ pc[p] = "iunlock" /\ op[p] \in {"unlink", "bad"} /\ pc'[p] = "iput"
     \/ pc[p] = "iput" /\ pc'[p] = "free"
     \/ pc[p] = "free" /\ pc'[p] = "freed"

\* What the values have to be
Sound(p, c, d) ==
  /\ HasInode(p) \/ ~me(p).busy
  /\ c.busy <=> HasInode(p)'
  /\ c.busy \/ \A q \in Proc : ip[q] = ip[p] => pc'[q] # "sleep"
  /\ me(p).valid => c.valid
  /\ c.valid \/ (pc'[p] = "read" /\ op[p] # "bad")
  /\ c.valid /\ pc'[p] # "freed" => d = [alloc |-> c.alloc, nlink |-> c.nlink]
  /\ pc'[p] # "freed" => d.alloc
  /\ pc'[p] = "freed" => pc[p] = "free" /\ ~d.alloc /\ d.nlink = 0
  /\ pc'[p] = "free" => c.ref = 1 /\ c.nlink = 0
  /\ pc'[p] \in {"read", "locked"} => d.nlink = dinode[me(p).inum].nlink

\* p counts in nlink what it owes after the step and no longer what it owed before.
Paid(p, d) ==
  LET before == \/ op[p] = "unlink" /\ pc[p] = "update"
                \/ op[p] = "link" /\ pc[p] = "iunlock"
                \/ op[p] = "bad" /\ pc[p] \in {"ilock", "read", "locked"}
      after == \/ pc'[p] = "dirlink"
               \/ op[p] = "link" /\ pc'[p] \in {"iunlock", "link"}
               \/ op[p] = "bad" /\ pc'[p] \in {"read", "locked"}
  IN  d.nlink = dinode[me(p).inum].nlink + One(after) - One(before)

\* The same, for values c of the slot and d of the disk inode that are right
LEMMA SlotAct ==
  ASSUME Full, NEW p \in Proc, NEW c, NEW d, SlotChange(p, c, d), Turn(p), Sound(p, c, d), Paid(p, d)
  PROVE  IInv'
<1> USE Parts
<1>0. PICK t, i : t = ip[p] /\ i = me(p).inum
  OBVIOUS
<1> USE <1>0
<1>1. /\ pc[p] \notin {"idle", "ialloc", "iget", "freed"} /\ ip[p] # 0 /\ t \in Slot
      /\ me(p).ref > 0 /\ i \in Inum
  BY Pointers DEF Turn
<1>2. Here(p, t, i) /\ Kept /\ OthersKept(p)
  BY <1>1 DEF Here, Kept, OthersKept, SlotChange, me
<1>3. TypeOK'
  BY <1>1 DEF SlotChange, TypeOK, Panics
<1>4. icache'[t] = c /\ dinode'[i] = d /\ Framed(t, i)
  BY <1>1 DEF SlotChange, TypeOK, Framed, me
<1>5. CallInv(p)'
  <2>1. CallInv(p)
    BY DEF CallsInv
  <2>2. me(p)'.inum = me(p).inum /\ dir' = dir /\ dlock' = dlock /\ ip' = ip /\ dup' = dup
        /\ op' = op /\ nm' = nm
    BY <1>4 DEF SlotChange, me
  <2> QED BY <2>1, <2>2 DEF CallInv, HasDir, Turn
<1>6. dinode[i].alloc /\ dinode[i].nlink \in Nat /\ (New(p, i) => dinode[i].nlink = 0)
  BY <1>1 DEF InUseIsAllocated, Uses, Points, TypeOK, Disk, NewIsAlone
<1>7. pc'[p] # "iget" /\ op'[p] = op[p] /\ (New(p, i)' => New(p, i))
  BY <1>4 DEF New, Turn, SlotChange, me
<1> USE <1>2, <1>4, <1>6, <1>7
<1>8. Locks(p, t) /\ Copies(p, t, i) /\ Frees(p, t, i)
  BY DEF Sound, Turn, Locks, Copies, Frees, me
<1>9. Makes(p, i)
  BY DEF Sound, Turn, Makes, New
<1>10. Pays(p, i)
  <2>1. /\ Points(p, i) /\ Points(p, i)' /\ dup[p] = 0 /\ dup'[p] = 0
    BY Apart DEF Points, Here, Kept, Framed, Turn, me
  <2> QED BY <2>1 DEF Pays, Paid, Owes, Turn, One
<1> QED BY <1>3, <1>5, <1>8, <1>9, <1>10, SlotStep DEF SlotCall

\* goto() moves p and nobody else.
LEMMA Goto ==
  ASSUME TypeOK, NEW p \in Proc, NEW l \in Places, goto(p, l)
  PROVE  pc' \in [Proc -> Places] /\ pc'[p] = l /\ \A q \in Proc \ {p} : pc'[q] = pc[q]
BY DEF TypeOK, goto

Agrees(p) == dinode[me(p).inum] = [alloc |-> me(p).alloc, nlink |-> me(p).nlink]

\* p has a pointer to a slot that is well formed, as is its disk inode, and the one
\* agrees with the other if it is valid and p or nobody has locked it.
LEMMA Held ==
  ASSUME Full, NEW p \in Proc, pc[p] \notin {"idle", "ialloc", "iget", "freed"}
  PROVE  /\ CallInv(p) /\ ip[p] \in Slot /\ me(p) \in Cell /\ me(p).ref > 0
         /\ me(p).inum \in Inum /\ dinode[me(p).inum] \in Disk /\ dinode[me(p).inum].alloc
         /\ me(p).valid \/ (pc[p] \in {"ilock", "sleep", "read"} /\ op[p] # "bad")
         /\ HasInode(p) \/ ~me(p).busy => \A q \in Proc : pc[q] = "freed" => ip[q] # ip[p]
         /\ (HasInode(p) \/ ~me(p).busy) /\ me(p).valid => Agrees(p)
<1> USE Parts
<1>1. ip[p] # 0 /\ ip[p] \in Slot /\ me(p).inum \in Inum /\ me(p).ref > 0
  BY Pointers
<1>2. /\ CallInv(p) /\ me(p) \in Cell /\ dinode[me(p).inum] \in Disk
  BY <1>1 DEF CallsInv, TypeOK, me
<1>3. /\ me(p).valid \/ (pc[p] \in {"ilock", "sleep", "read"} /\ op[p] # "bad")
      /\ dinode[me(p).inum].alloc
  BY <1>1 DEF ValidMatchesDisk, InUseIsAllocated, Uses, Points
<1>4. HasInode(p) \/ ~me(p).busy => \A q \in Proc : pc[q] = "freed" => ip[q] # ip[p]
  BY <1>1 DEF BusyIsOwned, HasInode, me
<1>5. (HasInode(p) \/ ~me(p).busy) /\ me(p).valid => Agrees(p)
  BY <1>1, <1>4 DEF ValidMatchesDisk, Agrees, me
<1> QED BY <1>1, <1>2, <1>3, <1>4, <1>5

\* Writing to a disk inode what it holds changes nothing.
LEMMA DiskKept ==
  ASSUME Full, NEW i
  PROVE  dinode = [dinode EXCEPT ![i] = dinode[i]]
BY Parts DEF TypeOK

\* ilock() takes a slot that nobody has locked.
LEMMA IlockStep ==
  ASSUME Full, NEW p \in Proc, ilock(p)
  PROVE  IInv'
<1> DEFINE c == [me(p) EXCEPT !.busy = TRUE]
           d == dinode[me(p).inum]
<1>1. pc[p] = "ilock" /\ ~me(p).busy /\ pc' \in [Proc -> Places] /\ pc'[p] = "read"
      /\ \A q \in Proc \ {p} : pc'[q] = pc[q]
  BY Parts, Goto DEF ilock, Places
<1> USE <1>1
<1>2. me(p) \in Cell
  BY Held
<1>3. /\ c \in Cell /\ c.ref = me(p).ref /\ c.inum = me(p).inum /\ c.busy /\ c.valid = me(p).valid
      /\ c.alloc = me(p).alloc /\ c.nlink = me(p).nlink
  BY <1>2 DEF Cell
<1>4. icache' = [icache EXCEPT ![ip[p]] = c]
  BY DEF ilock, me
<1> USE <1>3
<1> HIDE DEF c
<1>5. SlotChange(p, c, d)
  BY <1>4, Held, DiskKept DEF SlotChange, ilock
<1>6. Turn(p) /\ HasInode(p)' /\ ~HasInode(p)
  BY Held DEF Turn, CallInv, HasInode
<1>7. Sound(p, c, d)
  BY <1>6, Held DEF Sound, Agrees
<1>8. Paid(p, d)
  BY Held, SMT DEF Paid, One, Disk
<1> QED BY <1>5, <1>6, <1>7, <1>8, SlotAct

\* ilock() fills a slot that is not valid from the disk.
LEMMA IlockReadStep ==
  ASSUME Full, NEW p \in Proc, ilock_read(p)
  PROVE  IInv'
<1> DEFINE d == dinode[me(p).inum]
           e == [me(p) EXCEPT !.alloc = d.alloc, !.nlink = d.nlink, !.valid = TRUE]
           c == IF me(p).valid THEN me(p) ELSE e
<1>1. pc[p] = "read" /\ pc' \in [Proc -> Places] /\ pc'[p] = "locked"
      /\ \A q \in Proc \ {p} : pc'[q] = pc[q]
  BY Parts, Goto DEF ilock_read, Places
<1> USE <1>1
<1>2. me(p) \in Cell /\ d \in Disk /\ d.alloc /\ d.alloc \in BOOLEAN /\ d.nlink \in Nat
  BY Held DEF Disk
<1>3. HasInode(p) /\ HasInode(p)' /\ me(p).busy /\ (me(p).valid => Agrees(p))
  BY Held, Parts DEF HasInode, BusyIsOwned, me
<1>4. /\ e \in Cell /\ e.ref = me(p).ref /\ e.inum = me(p).inum /\ e.busy = me(p).busy
      /\ e.valid /\ e.alloc = d.alloc /\ e.nlink = d.nlink
  BY <1>2 DEF Cell
<1>5. icache' = [icache EXCEPT ![ip[p]] = c] /\ panicked' = "no"
  <2>1. CASE me(p).valid
    BY <2>1, Parts DEF ilock_read, TypeOK, me
  <2>2. CASE ~me(p).valid
    BY <1>2, <2>2 DEF ilock_read, me
  <2> QED BY <2>1, <2>2
<1> HIDE DEF e, d
<1>6. /\ c \in Cell /\ c.ref = me(p).ref /\ c.inum = me(p).inum /\ c.busy /\ c.valid
      /\ d = [alloc |-> c.alloc, nlink |-> c.nlink]
  <2>1. CASE me(p).valid
    BY <1>2, <1>3, <2>1 DEF d, Agrees
  <2>2. CASE ~me(p).valid
    <3>1. d = [alloc |-> d.alloc, nlink |-> d.nlink]
      BY <1>2 DEF Disk
    <3> QED BY <1>3, <1>4, <2>2, <3>1
  <2> QED BY <2>1, <2>2
<1> HIDE DEF c
<1>7. SlotChange(p, c, d)
  BY <1>2, <1>5, <1>6, DiskKept DEF SlotChange, ilock_read, d
<1>8. Turn(p)
  BY Held DEF Turn, CallInv
<1>9. Sound(p, c, d) /\ Paid(p, d)
  <2>1. Sound(p, c, d)
    BY <1>2, <1>3, <1>6 DEF Sound, d
  <2>2. Paid(p, d)
    BY <1>2, SMT DEF Paid, One, d
  <2> QED BY <2>1, <2>2
<1> QED BY <1>7, <1>8, <1>9, SlotAct

\* iunlock() gives up the lock and wakes who waits for it.
LEMMA IunlockStep ==
  ASSUME Full, NEW p \in Proc, iunlock(p)
  PROVE  IInv'
<1> DEFINE c == [me(p) EXCEPT !.busy = FALSE]
           d == dinode[me(p).inum]
<1>1. pc[p] = "iunlock" /\ HasInode(p) /\ pc' = Woken([pc EXCEPT ![p] = AfterUnlock(p)], ip[p])
  BY DEF iunlock, HasInode
<1>2. /\ pc' \in [Proc -> Places] /\ pc'[p] = AfterUnlock(p)
      /\ \A q \in Proc \ {p} : pc'[q] = pc[q] \/ (pc[q] = "sleep" /\ pc'[q] = "ilock")
      /\ \A q \in Proc : ip[q] = ip[p] => pc'[q] # "sleep"
  <2>1. AfterUnlock(p) \in Places /\ AfterUnlock(p) # "sleep" /\ "ilock" \in Places
    BY DEF AfterUnlock, Places
  <2> QED BY <1>1, <2>1, Parts DEF Woken, TypeOK
<1>3. /\ \/ op[p] \in {"open", "create"} /\ pc'[p] = "open"
         \/ op[p] = "link" /\ pc'[p] = "link"
         \/ op[p] \in {"unlink", "bad"} /\ pc'[p] = "iput"
      /\ Turn(p)
  <2>1. op[p] \in {"open", "unlink", "link", "bad", "create"}
    BY Parts DEF TypeOK
  <2>2. <1>3!1
    BY <1>2, <2>1 DEF AfterUnlock
  <2> QED BY <1>1, <2>2, Held DEF Turn, CallInv
<1> USE <1>1, <1>2, <1>3
<1>4. /\ me(p) \in Cell /\ d \in Disk /\ d.alloc /\ d.nlink \in Nat /\ me(p).valid /\ Agrees(p)
  BY Held DEF Disk
<1>5. /\ c \in Cell /\ c.ref = me(p).ref /\ c.inum = me(p).inum /\ ~c.busy /\ c.valid = me(p).valid
      /\ c.alloc = me(p).alloc /\ c.nlink = me(p).nlink
  BY <1>4 DEF Cell
<1>6. icache' = [icache EXCEPT ![ip[p]] = c]
  BY DEF iunlock, me
<1> USE <1>4, <1>5
<1> HIDE DEF c
<1>7. SlotChange(p, c, d)
  BY <1>6, DiskKept DEF SlotChange, iunlock
<1>8. Sound(p, c, d)
  BY DEF Sound, Agrees, HasInode
<1>9. Paid(p, d)
  BY SMT DEF Paid, One
<1> QED BY <1>7, <1>8, <1>9, SlotAct

\* The steps that end in iupdate(): the link they count or take back
Update(p, k) ==
  \/ pc[p] = "update" /\ pc'[p] = "iunlock" /\ op[p] = "unlink" /\ k = me(p).nlink - 1
  \/ pc[p] = "locked" /\ pc'[p] = "dirlink" /\ op[p] = "create" /\ k = 1
  \/ pc[p] = "locked" /\ pc'[p] = "iunlock" /\ op[p] = "link" /\ k = me(p).nlink + 1
  \/ pc[p] = "locked" /\ pc'[p] = "iunlock" /\ op[p] = "bad" /\ k = me(p).nlink - 1

\* iupdate() writes a new nlink to the slot and the disk: of unlink, of create, of link
\* and of the undo of a failed link.
LEMMA UpdateStep ==
  ASSUME Full, NEW p \in Proc,
         unlink_update(p) \/ create_update(p) \/ link_update(p) \/ link_undo(p)
  PROVE  IInv'
<1>1. PICK k : /\ Update(p, k) /\ iupdate(p, k) /\ panicked' = "no"
               /\ UNCHANGED <<dir, dlock, op, nm, ip, dup, inum>>
               /\ pc' \in [Proc -> Places] /\ \A q \in Proc \ {p} : pc'[q] = pc[q]
  <2>1. TypeOK /\ "iunlock" \in Places /\ "dirlink" \in Places
    BY Parts DEF Places
  <2> QED BY <2>1, Goto DEF unlink_update, create_update, link_update, link_undo, Update
<1> DEFINE i == me(p).inum
           c == [me(p) EXCEPT !.nlink = k]
           d == [alloc |-> me(p).alloc, nlink |-> k]
<1>2. /\ pc[p] \in {"update", "locked"} /\ pc'[p] \in {"iunlock", "dirlink"}
      /\ HasInode(p) /\ HasInode(p)'
  BY <1>1 DEF Update, HasInode
<1> USE <1>1, <1>2
<1>3. /\ me(p) \in Cell /\ me(p).alloc \in BOOLEAN /\ me(p).valid /\ i \in Inum /\ CallInv(p)
      /\ ip[p] \in Slot /\ ip[p] # 0
  BY Held, Pointers DEF Cell
<1>4. me(p).alloc /\ dinode[i].nlink = me(p).nlink /\ me(p).nlink \in Nat
  BY <1>3, Mine DEF Cell
<1>5. Turn(p)
  BY <1>3 DEF Turn, CallInv, Update
<1>6. k \in Nat /\ Paid(p, d)
  <2>1. op[p] = "create" => dinode[i].nlink = 0
    BY <1>3, Parts DEF NewIsAlone, New, Update
  <2>2. op[p] \in {"unlink", "bad"} => dinode[i].nlink > 0
    BY <1>3, Parts DEF LinksView, Owes, Points, Update
  <2>3. k \in Nat
    BY <1>4, <2>2, SMTT(10), SMTT(30) DEF Update
  <2>4. d.nlink = k
    OBVIOUS
  <2> HIDE DEF d
  <2> QED BY <1>4, <2>1, <2>3, <2>4, SMT DEF Update, Paid, One
<1>7. /\ c \in Cell /\ c.ref = me(p).ref /\ c.inum = me(p).inum /\ c.busy = me(p).busy
      /\ c.valid = me(p).valid /\ c.alloc = me(p).alloc /\ c.nlink = k
  BY <1>3, <1>6 DEF Cell
<1>8. d \in Disk /\ d.alloc = me(p).alloc /\ d = [alloc |-> c.alloc, nlink |-> c.nlink]
  BY <1>3, <1>6, <1>7 DEF Disk
<1>9. icache' = [icache EXCEPT ![ip[p]] = c] /\ dinode' = [dinode EXCEPT ![i] = d]
  BY DEF iupdate, me
<1>10. me(p).busy
  BY <1>3, Parts DEF BusyIsOwned, me
<1> HIDE DEF c, d
<1>11. SlotChange(p, c, d)
  BY <1>7, <1>8, <1>9 DEF SlotChange
<1>12. Sound(p, c, d)
  BY <1>3, <1>4, <1>7, <1>8, <1>10 DEF Sound
<1> QED BY <1>5, <1>6, <1>11, <1>12, SlotAct

\* iput() frees only the inode of a call's own pointer: the inode that dirlink()
\* found has a name.
LEMMA LastIsOwn ==
  ASSUME Full, NEW p \in Proc, pc[p] = "iput", LastUnlinked(Target(p))
  PROVE  dup[p] = 0 /\ Target(p) = ip[p] /\ ~me(p).busy
<1> USE Parts
<1>1. dup[p] = 0
  <2> SUFFICES ASSUME dup[p] # 0 PROVE FALSE
    OBVIOUS
  <2> DEFINE s == dup[p]
  <2>1. /\ icache[s].ref = 1 /\ icache[s].valid /\ icache[s].nlink = 0
        /\ s \in Slot /\ icache[s].inum \in Inum
    BY Pointers DEF LastUnlinked, Target
  <2>2. \A q \in Proc : ip[q] # s
    BY <2>1 DEF RefsView
  <2>3. dinode[icache[s].inum] = [alloc |-> icache[s].alloc, nlink |-> icache[s].nlink]
    BY <2>1, <2>2, SMTT(10), SMTT(30) DEF ValidMatchesDisk
  <2>4. dinode[icache[s].inum].nlink = 0
    BY <2>1, <2>3, SMT
  <2>5. \E n \in Name : dir[n] = icache[s].inum
    BY DEF CallsInv, CallInv
  <2> QED BY <2>1, <2>4, <2>5, SMT DEF LinksView
<1>2. ip[p] \in Slot /\ me(p).ref = 1
  BY <1>1, Held DEF LastUnlinked, Target, me
<1>3. \A q \in Proc : ip[q] = ip[p] => q = p
  BY <1>2 DEF RefsView, me
<1>4. ~me(p).busy
  BY <1>2, <1>3 DEF BusyIsOwned, HasInode, me
<1> QED BY <1>1, <1>4 DEF Target

\* iput() of the last pointer to an inode without links takes its lock.
LEMMA IputLastStep ==
  ASSUME Full, NEW p \in Proc, iput_last(p)
  PROVE  IInv'
<1> DEFINE c == [me(p) EXCEPT !.busy = TRUE]
           d == dinode[me(p).inum]
<1>1. pc[p] = "iput" /\ LastUnlinked(Target(p))
  BY DEF iput_last
<1>2. dup[p] = 0 /\ Target(p) = ip[p] /\ ~me(p).busy
  BY <1>1, LastIsOwn
<1>3. /\ icache' = [icache EXCEPT ![ip[p]].busy = TRUE] /\ goto(p, "free") /\ panicked' = "no"
      /\ UNCHANGED <<dir, dlock, dinode, op, nm, ip, dup, inum>>
  BY <1>2 DEF iput_last, me
<1>4. /\ pc' \in [Proc -> Places] /\ pc'[p] = "free" /\ \A q \in Proc \ {p} : pc'[q] = pc[q]
  BY <1>3, Parts, Goto DEF Places
<1> USE <1>1, <1>2, <1>4
<1>5. me(p).ref = 1 /\ me(p).valid /\ me(p).nlink = 0 /\ HasInode(p)' /\ Turn(p)
  BY DEF LastUnlinked, HasInode, Turn, me
<1>6. me(p) \in Cell /\ d \in Disk /\ d.alloc /\ d.nlink \in Nat /\ Agrees(p)
  BY <1>5, Held DEF Disk
<1>7. /\ c \in Cell /\ c.ref = me(p).ref /\ c.inum = me(p).inum /\ c.busy /\ c.valid = me(p).valid
      /\ c.alloc = me(p).alloc /\ c.nlink = me(p).nlink
  BY <1>6 DEF Cell
<1>8. icache' = [icache EXCEPT ![ip[p]] = c]
  BY <1>3 DEF me
<1> HIDE DEF c
<1>9. SlotChange(p, c, d)
  BY <1>3, <1>6, <1>7, <1>8, DiskKept DEF SlotChange
<1>10. Sound(p, c, d)
  BY <1>5, <1>6, <1>7 DEF Sound, Agrees
<1>11. Paid(p, d)
  BY <1>6, SMT DEF Paid, One
<1> QED BY <1>5, <1>9, <1>10, <1>11, SlotAct

\* iput() frees the disk inode.
LEMMA IputFreeStep ==
  ASSUME Full, NEW p \in Proc, iput_free(p)
  PROVE  IInv'
<1> DEFINE c == [me(p) EXCEPT !.alloc = FALSE]
           d == [alloc |-> FALSE, nlink |-> me(p).nlink]
<1>1. /\ pc[p] = "free" /\ pc' \in [Proc -> Places] /\ pc'[p] = "freed"
      /\ \A q \in Proc \ {p} : pc'[q] = pc[q]
  BY Parts, Goto DEF iput_free, Places
<1> USE <1>1
<1>2. /\ dup[p] = 0 /\ Target(p) = ip[p] /\ HasInode(p) /\ HasInode(p)' /\ me(p).valid
      /\ me(p) \in Cell /\ ip[p] \in Slot
  BY Held DEF CallInv, Target, HasInode
<1>3. me(p).nlink = 0 /\ dinode[me(p).inum].nlink = 0 /\ me(p).busy
  BY <1>2, Mine, Parts, SMT DEF FreedIsAlone, BusyIsOwned, me
<1>4. /\ c \in Cell /\ c.ref = me(p).ref /\ c.inum = me(p).inum /\ c.busy = me(p).busy
      /\ c.valid = me(p).valid
  BY <1>2 DEF Cell
<1>5. d \in Disk /\ ~d.alloc /\ d.nlink = 0
  BY <1>3, SMT DEF Disk
<1>6. icache' = [icache EXCEPT ![ip[p]] = c] /\ dinode' = [dinode EXCEPT ![me(p).inum] = d]
  BY <1>2 DEF iput_free, me
<1> HIDE DEF c, d
<1>7. SlotChange(p, c, d)
  BY <1>4, <1>5, <1>6 DEF SlotChange, iput_free
<1>8. Turn(p)
  BY <1>2 DEF Turn
<1>9. Sound(p, c, d)
  BY <1>2, <1>3, <1>4, <1>5 DEF Sound
<1>10. Paid(p, d)
  BY <1>3, <1>5, SMT DEF Paid, One
<1> QED BY <1>7, <1>8, <1>9, <1>10, SlotAct

-----------------------------------------------------------------------------
(* Steps that end in iget(i) *)

\* What iget() does to the slot t that it finds
GetSlot(t, i) ==
  /\ icache'[t].ref = icache[t].ref + 1 /\ icache'[t].inum = i
  /\ icache'[t].busy = icache[t].busy /\ icache'[t].nlink = icache[t].nlink
  /\ icache'[t].alloc = icache[t].alloc
  /\ icache'[t].valid <=> icache[t].valid /\ icache[t].ref > 0
GetFrame(t) == t \in Slot /\ \A s \in Slot : s # t => icache'[s] = icache[s]

\* An inode that is in the cache is found there.
GetFound(t, i) ==
  /\ icache[t].ref \in Nat
  /\ icache[t].ref > 0 => icache[t].inum = i
  /\ icache[t].ref = 0 => \A s \in Slot : icache[s].ref > 0 => icache[s].inum # i

\* iget() gives the slot that holds the inode, or an empty one.
LEMMA IgetSlot ==
  ASSUME Full, NEW i \in Inum, NEW t \in Slot, iget(i, t)
  PROVE  GetSlot(t, i) /\ GetFrame(t) /\ GetFound(t, i) /\ icache' \in [Slot -> Cell]
<1> USE Parts
<1> DEFINE c == icache[t]
           e == [c EXCEPT !.ref = c.ref + 1]
           f == [c EXCEPT !.inum = i, !.ref = 1, !.busy = FALSE, !.valid = FALSE]
<1>1. c \in Cell /\ c.ref \in Nat
  BY DEF TypeOK, Cell
<1>2. /\ e \in Cell /\ e.ref = c.ref + 1 /\ e.inum = c.inum /\ e.busy = c.busy /\ e.valid = c.valid
      /\ e.alloc = c.alloc /\ e.nlink = c.nlink
  BY <1>1, SMT DEF Cell
<1>3. /\ f \in Cell /\ f.ref = 1 /\ f.inum = i /\ ~f.busy /\ ~f.valid /\ f.busy = FALSE
      /\ f.alloc = c.alloc /\ f.nlink = c.nlink
  BY <1>1 DEF Cell
<1>4. \/ c.ref > 0 /\ c.inum = i /\ icache' = [icache EXCEPT ![t] = e]
      \/ /\ c.ref = 0 /\ icache' = [icache EXCEPT ![t] = f]
         /\ \A s \in Slot : icache[s].ref > 0 => icache[s].inum # i
  <2>1. CASE Holding(i) # {}
    <3>1. t \in Holding(i) /\ icache' = [icache EXCEPT ![t] = e]
      BY <2>1 DEF iget, SlotFor
    <3> QED BY <3>1 DEF Holding
  <2>2. CASE Holding(i) = {}
    <3>1. t \in Empty /\ icache' = [icache EXCEPT ![t] = f]
      BY <2>2 DEF iget, SlotFor
    <3> QED BY <2>2, <3>1 DEF Holding, Empty
  <2> QED BY <2>1, <2>2
<1> HIDE DEF e, f
<1>5. /\ icache' \in [Slot -> Cell] /\ GetFrame(t) /\ icache'[t] \in {e, f}
      /\ c.ref > 0 => icache'[t] = e
      /\ c.ref = 0 => icache'[t] = f
  BY <1>1, <1>2, <1>3, <1>4, SMTT(10), SMTT(30) DEF GetFrame, TypeOK
<1>6. GetFound(t, i)
  BY <1>1, <1>4, SMTT(10), SMTT(30) DEF GetFound
<1>7. c.ref = 0 => ~c.busy /\ c.busy = FALSE
  BY <1>1, SMT DEF BusyIsOwned, RefsView, Cell
<1>8. GetSlot(t, i)
  <2>1. CASE c.ref > 0
    BY <1>2, <1>5, <1>6, <2>1 DEF GetSlot, GetFound
  <2>2. CASE c.ref = 0
    <3>1. ~(c.ref > 0) /\ c.ref + 1 = 1
      BY <2>2, SMT
    <3> QED BY <1>3, <1>5, <1>7, <2>2, <3>1 DEF GetSlot
  <2> QED BY <1>1, <2>1, <2>2, SMT
<1> QED BY <1>5, <1>6, <1>8

\* The pointer goes to ip, for a name or for the inode that create() has made, ...
GetIp(p, t, i) ==
  /\ ip[p] = 0 /\ ip'[p] = t /\ dup[p] = 0 /\ dup'[p] = 0 /\ pc'[p] = "ilock"
  /\ \/ pc[p] = "idle" /\ op'[p] \in {"open", "link", "unlink"} /\ dinode[i].nlink > 0 /\ dinode[i].alloc
     \/ pc[p] = "iget" /\ op[p] = "create" /\ op'[p] = "create" /\ inum[p] = i
\* ... or to the local of dirlink().
GetDup(p, t, i) ==
  /\ ip[p] # 0 /\ ip'[p] = ip[p] /\ dup[p] = 0 /\ dup'[p] = t
  /\ dinode[i].nlink > 0 /\ dinode[i].alloc
  /\ pc[p] = "link" /\ pc'[p] = "iput" /\ op[p] = "link" /\ op'[p] = "link"
RestKept(p) ==
  /\ dir' = dir /\ dinode' = dinode /\ panicked' = "no"
  /\ dlock' = dlock \/ (dlock \in {p, None} /\ dlock' \in {p, None})

\* A step that takes a pointer with iget() keeps the invariant.
LEMMA GetStep ==
  ASSUME Full, NEW p \in Proc, NEW i \in Inum, NEW t \in Slot, GetSlot(t, i), GetFrame(t), GetFound(t, i),
         GetIp(p, t, i) \/ GetDup(p, t, i), RestKept(p), OthersKept(p), TypeOK', CallInv(p)'
  PROVE  IInv'
<1> USE Parts
<1>1. InumsKept /\ CallsInv'
  <2>1. InumsKept
    BY DEF InumsKept, GetSlot, GetFrame, GetFound
  <2> QED BY <2>1, CallsOthers DEF RestKept
\* The slots in use keep what they have.
<1>2. \A s \in Slot : icache[s].ref > 0 =>
        /\ icache'[s].inum = icache[s].inum /\ icache'[s].busy = icache[s].busy
        /\ icache'[s].nlink = icache[s].nlink /\ icache'[s].alloc = icache[s].alloc
        /\ icache'[s].valid <=> icache[s].valid
  BY DEF GetSlot, GetFrame, GetFound
<1>3. \A q \in Proc :
        /\ ip[q] # 0 => ip[q] \in Slot /\ icache[ip[q]].ref > 0 /\ icache[ip[q]].inum \in Inum
        /\ pc[q] = "sleep" => ip[q] # 0
  BY Pointers DEF me
<1>4. \A q \in Proc \ {p} :
        /\ HasInode(q)' <=> HasInode(q)
        /\ ip'[q] = ip[q]
        /\ \A j \in Inum : /\ Points(q, j)' <=> Points(q, j)
                           /\ New(q, j)' <=> New(q, j)
                           /\ Uses(q, j)' <=> Uses(q, j)
        /\ pc'[q] = pc[q] \/ (pc[q] = "sleep" /\ pc'[q] = "ilock")
        /\ op'[q] = op[q]
  BY <1>1, OthersView DEF OthersKept
<1>5. RefsAreCounted'
  <2>1. \A s \in Slot : icache[s].ref \in Nat
    BY DEF TypeOK, Cell
  <2>2. \A s \in Slot : icache'[s].ref = icache[s].ref + One(ip'[p] = s) - One(ip[p] = s)
                                          + One(dup'[p] = s) - One(dup[p] = s)
    BY <2>1, Apart, SMT DEF GetSlot, GetFrame, GetIp, GetDup, One
  <2> QED BY <2>2, RefsStep
<1>6. OneSlotPerInode' /\ NoInodePanic'
  <2>1. icache[t].ref > 0 \/ icache[t].ref = 0
    BY SMT DEF GetFound
  <2>2. ASSUME NEW s \in Slot, icache[s].ref > 0, icache[s].inum = i
        PROVE  s = t
    BY <2>1, <2>2 DEF GetFound, OneSlotPerInode
  <2>3. ASSUME NEW s \in Slot, NEW r \in Slot, icache'[s].ref > 0, icache'[r].ref > 0,
               icache'[s].inum = icache'[r].inum
        PROVE  s = r
    BY <2>2, <2>3 DEF OneSlotPerInode, GetFrame, GetSlot
  <2>4. \A s \in Slot : icache'[s].ref > 0 => icache'[s].inum # 0
    BY Apart DEF OneSlotPerInode, GetFrame, GetSlot
  <2> QED BY <2>3, <2>4 DEF OneSlotPerInode, RestKept, NoInodePanic
<1>7. BusyIsOwned'
  <2>1. ~HasInode(p) /\ ~HasInode(p)'
    BY DEF HasInode, GetIp, GetDup
  <2>2. \A s \in Slot : icache'[s].busy = icache[s].busy
    BY DEF GetSlot, GetFrame
  <2>3. \A q \in Proc : (HasInode(q)' <=> HasInode(q)) /\ (HasInode(q) => ip'[q] = ip[q])
    BY <1>4, <2>1
  <2> QED BY <2>2, <2>3, BusyKept
<1>8. LockSleeperHasWaker'
  <2> SUFFICES ASSUME NEW q \in Proc, pc'[q] = "sleep"
               PROVE  icache'[ip'[q]].busy
    BY DEF LockSleeperHasWaker, me
  <2>1. q # p /\ pc[q] = "sleep" /\ ip'[q] = ip[q]
    BY <1>4 DEF GetIp, GetDup
  <2> QED BY <1>2, <1>3, <2>1 DEF LockSleeperHasWaker, me
<1>9. ValidMatchesDisk'
  <2>1. ASSUME NEW q \in Proc, ip'[q] # 0
        PROVE  icache'[ip'[q]].valid \/ (pc'[q] \in {"ilock", "sleep", "read"} /\ op'[q] # "bad")
    <3>1. CASE GetIp(p, t, i) /\ q = p
      BY <3>1 DEF GetIp
    <3>2. CASE GetDup(p, t, i) /\ q = p
      BY <1>2, <1>3, <3>2 DEF ValidMatchesDisk, GetDup, me
    <3>3. CASE q # p
      <4>1. ip'[q] = ip[q] /\ ip[q] # 0
        BY <1>4, <2>1, <3>3
      <4>2. icache[ip[q]].valid \/ (pc[q] \in {"ilock", "sleep", "read"} /\ op[q] # "bad")
        BY <4>1 DEF ValidMatchesDisk, me
      <4> QED BY <1>2, <1>3, <1>4, <3>3, <4>1, <4>2
    <3> QED BY <3>1, <3>2, <3>3
  <2>2. ASSUME NEW s \in Slot, icache'[s].ref > 0, icache'[s].valid,
               \A q \in Proc : pc'[q] = "freed" => ip'[q] # s
        PROVE  dinode'[icache'[s].inum] = [alloc |-> icache'[s].alloc, nlink |-> icache'[s].nlink]
    <3>1. icache[s].ref > 0 /\ icache[s].valid
      BY <2>2 DEF GetSlot, GetFrame
    <3>2. \A q \in Proc : pc[q] = "freed" => ip[q] # s
      BY <1>4, <2>2 DEF GetIp, GetDup
    <3>3. dinode[icache[s].inum] = [alloc |-> icache[s].alloc, nlink |-> icache[s].nlink]
      BY <3>1, <3>2 DEF ValidMatchesDisk
    <3>4. /\ icache'[s].inum = icache[s].inum /\ icache'[s].nlink = icache[s].nlink
          /\ icache'[s].alloc = icache[s].alloc
      BY <1>2, <3>1
    <3> QED BY <3>3, <3>4 DEF RestKept
  <2> QED BY <2>1, <2>2 DEF ValidMatchesDisk, me
\* What p itself points to and has made
<1>10. \A j \in Inum :
         /\ Points(p, j)' <=> (GetIp(p, t, i) /\ j = i) \/ (ip[p] # 0 /\ Points(p, j))
         /\ New(p, j)' <=> New(p, j)
         /\ New(p, j) => GetIp(p, t, i) /\ j = i
         /\ ip[p] = 0 => ~Points(p, j)
  <2>1. CASE GetIp(p, t, i)
    BY <2>1, Apart DEF Points, New, GetIp, GetSlot, me
  <2>2. CASE GetDup(p, t, i)
    BY <1>2, <1>3, <2>2 DEF Points, New, GetIp, GetDup, me
  <2> QED BY <2>1, <2>2
<1>11. \A j \in Inum : Owes(p, j)' <=> Owes(p, j)
  BY <1>10, Apart DEF Owes, GetIp, GetDup
<1>12. LinksAreCounted'
  <2>1. \A j \in Inum : dinode'[j].nlink = dinode[j].nlink + One(Owes(p, j)') - One(Owes(p, j))
    BY <1>11, SMT DEF RestKept, One, TypeOK, Disk
  <2> QED BY <1>1, <2>1, LinksOwed DEF RestKept
\* Nobody else has made the inode.
<1>13. \A q \in Proc \ {p} : ~New(q, i)
  <2>1. dinode[i].nlink > 0 => \A q \in Proc : ~New(q, i)
    BY ZeroIsNotPositive DEF NewIsAlone
  <2>2. pc[p] = "iget" => \A q \in Proc \ {p} : ~New(q, i)
    <3>1. \A q \in Proc : dlock = q <=> HasDir(q)
      BY DEF CallsInv, CallInv
    <3> QED BY <3>1 DEF HasDir, New
  <2> QED BY <2>1, <2>2 DEF GetIp, GetDup
<1>14. dinode[i].alloc
  BY DEF InUseIsAllocated, Uses, New, GetIp, GetDup
<1>15. InUseIsAllocated'
  BY <1>4, <1>10, <1>14 DEF InUseIsAllocated, Uses, RestKept, GetIp, GetDup
<1>16. UnlinkedIsHeld'
  BY <1>4, <1>10 DEF UnlinkedIsHeld, Uses, RestKept, GetIp, GetDup
<1>17. NewIsAlone'
  <2> SUFFICES ASSUME NEW q \in Proc, NEW j \in Inum, New(q, j)'
               PROVE  /\ dinode'[j].nlink = 0
                      /\ \A r \in Proc \ {q} : Points(r, j)' => pc'[r] = "freed"
    BY DEF NewIsAlone
  <2>1. New(q, j)
    BY <1>4, <1>10
  <2>2. /\ dinode'[j].nlink = 0
        /\ \A r \in Proc \ {q} : Points(r, j) => pc[r] = "freed"
    BY <2>1 DEF NewIsAlone, RestKept
  <2>3. ASSUME NEW r \in Proc \ {q}, Points(r, j)'
        PROVE  pc'[r] = "freed"
    <3>1. CASE r = p
      BY <1>10, <1>13, <2>1, <2>2, <2>3, <3>1 DEF GetIp, GetDup
    <3>2. CASE r # p
      BY <1>4, <2>2, <2>3, <3>2
    <3> QED BY <3>1, <3>2
  <2> QED BY <2>2, <2>3
<1>18. FreedIsAlone'
  <2>1. ASSUME NEW q \in Proc \ {p}, pc[q] \in {"free", "freed"}, ip[q] = t
        PROVE  pc[q] = "freed" /\ GetIp(p, t, i) /\ op'[p] = "create"
    <3>1. me(q).inum = i /\ Points(q, i)
      BY <1>2, <1>3, <2>1, Apart DEF GetSlot, Points, me
    <3>2. dinode[i].nlink = 0
      BY <2>1, <3>1, Mine DEF FreedIsAlone
    <3>3. New(p, i) /\ GetIp(p, t, i) /\ op'[p] = "create"
      BY <3>2, SMT DEF GetIp, GetDup, New
    <3> QED BY <2>1, <3>1, <3>3 DEF NewIsAlone
  <2>2. ASSUME NEW q \in Proc, pc'[q] \in {"free", "freed"}
        PROVE  /\ q \in Proc \ {p} /\ pc[q] = pc'[q] /\ ip'[q] = ip[q] /\ ip[q] \in Slot
               /\ me(q)'.inum = me(q).inum /\ me(q)'.nlink = me(q).nlink
               /\ pc[q] = "free" => me(q)' = me(q)
    <3>1. q \in Proc \ {p} /\ pc[q] = pc'[q] /\ ip'[q] = ip[q]
      BY <1>4, <2>2 DEF GetIp, GetDup
    <3>2. ip[q] \in Slot /\ me(q).ref > 0
      BY <2>2, <3>1, Pointers
    <3>3. pc[q] = "free" => me(q)' = me(q)
      BY <2>1, <3>1, <3>2 DEF GetFrame, me
    <3> QED BY <1>2, <3>1, <3>2, <3>3 DEF me
  <2>3. ASSUME NEW q \in Proc, pc'[q] \in {"free", "freed"}
        PROVE  /\ pc'[q] = "free" => me(q)'.ref = 1 /\ me(q)'.nlink = 0
               /\ pc'[q] = "freed" => dinode'[me(q)'.inum].nlink = 0
    <3>1. /\ pc[q] = "free" => me(q).ref = 1 /\ me(q).nlink = 0
          /\ pc[q] = "freed" => dinode[me(q).inum].nlink = 0
      BY DEF FreedIsAlone
    <3> QED BY <2>2, <2>3, <3>1 DEF RestKept
  <2>4. ASSUME NEW q \in Proc, pc'[q] = "freed", NEW r \in Proc \ {q}, ip'[r] = ip'[q]
        PROVE  op'[r] = "create" /\ pc'[r] \in {"ilock", "sleep"}
    <3>1. q \in Proc \ {p} /\ pc[q] = "freed" /\ ip'[q] = ip[q]
      BY <2>2, <2>4
    <3>2. ip[r] = ip[q] => op[r] = "create" /\ pc[r] \in {"ilock", "sleep"}
      BY <2>4, <3>1 DEF FreedIsAlone
    <3>3. CASE r # p
      BY <1>4, <2>4, <3>1, <3>2, <3>3
    <3>4. CASE r = p
      BY <2>1, <2>4, <3>1, <3>2, <3>4 DEF GetIp, GetDup
    <3> QED BY <3>3, <3>4
  <2> QED BY <2>3, <2>4 DEF FreedIsAlone
<1> QED BY <1>1, <1>5, <1>6, <1>7, <1>8, <1>9, <1>12, <1>15, <1>16, <1>17, <1>18
        DEF IInv, IcacheInv, FreedWhenUnreachable

\* A name is of an inode that is allocated and linked.
LEMMA NameHolds ==
  ASSUME Full, NEW n \in Name, dir[n] # 0
  PROVE  dir[n] \in Inum /\ dinode[dir[n]].nlink > 0 /\ dinode[dir[n]].alloc
<1>1. dir[n] \in Inum
  BY Parts DEF TypeOK
<1> QED BY <1>1, Parts DEF LinksView, InUseIsAllocated

\* open(), link() and unlink() look up a name and take its inode.
LEMMA LookupStep ==
  ASSUME Full, NEW p \in Proc, NEW n \in Name,
         namei(p, n, "open") \/ namei(p, n, "link") \/ unlink(p, n)
  PROVE  IInv'
<1> USE Parts
<1> DEFINE i == dir[n]
<1>1. PICK o \in {"open", "link", "unlink"} :
        /\ start(p, n, o) /\ dir[n] # 0 /\ GetInto(p, i) /\ goto(p, "ilock")
        /\ dlock' = IF o = "unlink" THEN p ELSE None
        /\ UNCHANGED <<dir, dinode, dup, inum, panicked>>
  BY DEF namei, unlink, start
<1>2. PICK t \in Slot : iget(i, t) /\ ip' = [ip EXCEPT ![p] = t]
  BY <1>1 DEF GetInto
<1>3. i \in Inum /\ dinode[i].nlink > 0 /\ dinode[i].alloc
  BY <1>1, NameHolds
<1>4. GetSlot(t, i) /\ GetFrame(t) /\ GetFound(t, i) /\ icache' \in [Slot -> Cell]
  BY <1>2, <1>3, IgetSlot
<1>5. /\ pc[p] = "idle" /\ dlock = None /\ panicked' = "no" /\ CallInv(p) /\ ip[p] = 0 /\ dup[p] = 0
  BY <1>1 DEF start, CallsInv, CallInv
<1>6. /\ pc' \in [Proc -> Places] /\ pc'[p] = "ilock" /\ (\A q \in Proc \ {p} : pc'[q] = pc[q])
      /\ op'[p] = o /\ nm'[p] = n /\ ip'[p] = t /\ dup'[p] = 0 /\ OthersKept(p)
  <2>1. pc' \in [Proc -> Places] /\ pc'[p] = "ilock" /\ \A q \in Proc \ {p} : pc'[q] = pc[q]
    BY <1>1, Goto DEF Places
  <2> QED BY <1>1, <1>2, <1>5, <2>1 DEF start, TypeOK, OthersKept
<1>7. TypeOK'
  <2>1. op' \in [Proc -> {"open", "unlink", "link", "bad", "create"}]
    BY <1>1 DEF start, TypeOK
  <2> QED BY <1>1, <1>2, <1>4, <1>6, <2>1 DEF start, TypeOK
<1>8. CallInv(p)'
  <2>1. me(p)'.inum = dir[n] /\ dir' = dir /\ n # None /\ p # None /\ t # 0
    BY <1>1, <1>4, <1>6, Apart DEF GetSlot, me
  <2>2. dlock' = p <=> o = "unlink"
    BY <1>1, <2>1
  <2> QED BY <1>6, <2>1, <2>2 DEF CallInv, HasDir
<1>9. GetIp(p, t, i) /\ RestKept(p)
  BY <1>1, <1>3, <1>5, <1>6 DEF GetIp, RestKept
<1> QED BY <1>3, <1>4, <1>6, <1>7, <1>8, <1>9, GetStep

\* ialloc() ends with iget() of the inode it has allocated.
LEMMA IallocIgetStep ==
  ASSUME Full, NEW p \in Proc, ialloc_iget(p)
  PROVE  IInv'
<1> USE Parts
<1> DEFINE i == inum[p]
<1>1. PICK t \in Slot : iget(i, t) /\ ip' = [ip EXCEPT ![p] = t]
  BY DEF ialloc_iget, GetInto
<1>2. /\ pc[p] = "iget" /\ CallInv(p) /\ op[p] = "create" /\ i \in Inum /\ ip[p] = 0 /\ dup[p] = 0
      /\ HasDir(p) /\ dlock = p /\ dir[nm[p]] = 0 /\ nm[p] # None
  BY IcacheConstants, SMT DEF ialloc_iget, CallsInv, CallInv, HasDir, TypeOK, Inum
<1>3. GetSlot(t, i) /\ GetFrame(t) /\ GetFound(t, i) /\ icache' \in [Slot -> Cell]
  BY <1>1, <1>2, IgetSlot
<1>4. pc' \in [Proc -> Places] /\ pc'[p] = "ilock" /\ \A q \in Proc \ {p} : pc'[q] = pc[q]
  BY Goto DEF ialloc_iget, Places
<1>5. /\ OthersKept(p) /\ ip'[p] = t /\ panicked' = "no"
      /\ dir' = dir /\ dlock' = dlock /\ dinode' = dinode /\ op' = op /\ nm' = nm /\ dup' = dup
  BY <1>1, <1>4 DEF ialloc_iget, OthersKept, TypeOK
<1>6. TypeOK'
  <2>1. inum' \in [Proc -> 1..ninodes] /\ ip' \in [Proc -> Slot \cup {0}]
    BY <1>1, IcacheConstants, SMT DEF ialloc_iget, TypeOK
  <2> QED BY <1>3, <1>4, <2>1 DEF ialloc_iget, TypeOK
<1>7. CallInv(p)'
  BY <1>2, <1>4, <1>5, Apart DEF CallInv, HasDir
<1>8. GetIp(p, t, i) /\ RestKept(p)
  BY <1>2, <1>4, <1>5 DEF GetIp, RestKept
<1> QED BY <1>2, <1>3, <1>5, <1>6, <1>7, <1>8, GetStep

\* dirlink() of sys_link() finds the new name taken and takes a pointer to its inode.
LEMMA LinkTakenStep ==
  ASSUME Full, NEW p \in Proc, NEW n \in Name, link_taken(p, n)
  PROVE  IInv'
<1> USE Parts
<1> DEFINE i == dir[n]
<1>1. PICK t \in Slot : iget(i, t) /\ dup' = [dup EXCEPT ![p] = t]
  BY DEF link_taken
<1>2. i \in Inum /\ dinode[i].nlink > 0 /\ dinode[i].alloc
  BY NameHolds DEF link_taken
<1>3. GetSlot(t, i) /\ GetFrame(t) /\ GetFound(t, i) /\ icache' \in [Slot -> Cell]
  BY <1>1, <1>2, IgetSlot
<1>4. pc' \in [Proc -> Places] /\ pc'[p] = "iput" /\ \A q \in Proc \ {p} : pc'[q] = pc[q]
  BY Goto DEF link_taken, Places
<1>5. /\ pc[p] = "link" /\ CallInv(p) /\ op[p] = "link" /\ ip[p] # 0 /\ dup[p] = 0 /\ nm[p] # None
      /\ dlock = None
  BY DEF link_taken, CallsInv, CallInv
<1>6. /\ OthersKept(p) /\ dup'[p] = t /\ panicked' = "no" /\ dlock' = p
      /\ dir' = dir /\ dinode' = dinode /\ op' = op /\ nm' = nm /\ ip' = ip
  BY <1>1, <1>4 DEF link_taken, OthersKept, TypeOK
<1>7. TypeOK'
  BY <1>1, <1>3, <1>4 DEF link_taken, TypeOK
<1>8. CallInv(p)'
  <2>1. icache'[t].inum = dir'[n] /\ t # 0
    BY <1>3, <1>6, Apart DEF GetSlot
  <2> QED BY <1>4, <1>5, <1>6, <2>1 DEF CallInv, HasDir
<1>9. GetDup(p, t, i) /\ RestKept(p)
  BY <1>2, <1>4, <1>5, <1>6 DEF GetDup, RestKept
<1> QED BY <1>2, <1>3, <1>6, <1>7, <1>8, <1>9, GetStep

-----------------------------------------------------------------------------
(* ialloc() takes a disk inode *)

\* A disk inode that is not allocated has no links, and a pointer to it only in an
\* iput() that has freed it.
LEMMA Unallocated ==
  ASSUME Full, NEW i \in Inum, ~dinode[i].alloc
  PROVE  /\ dinode[i].nlink = 0
         /\ \A q \in Proc : Points(q, i) => pc[q] = "freed"
         /\ \A s \in Slot : icache[s].ref > 0 /\ icache[s].inum = i =>
              \E q \in Proc : pc[q] = "freed" /\ ip[q] = s
<1> USE Parts
<1>1. \A q \in Proc : Points(q, i) => pc[q] = "freed"
  BY DEF InUseIsAllocated, Uses
<1>2. dinode[i].nlink = 0
  <2>1. \A q \in Proc : Owes(q, i) => pc[q] # "freed"
    BY DEF Owes, CallsInv, CallInv
  <2>2. \A q \in Proc : ~Owes(q, i)
    BY <1>1, <2>1 DEF Owes
  <2> QED BY <2>2, SMT DEF LinksView, InUseIsAllocated, TypeOK, Disk
<1>3. ASSUME NEW s \in Slot, icache[s].ref > 0, icache[s].inum = i
      PROVE  \E q \in Proc : pc[q] = "freed" /\ ip[q] = s
  <2>1. PICK q \in Proc : ip[q] = s \/ dup[q] = s
    BY <1>3 DEF RefsView
  <2>2. dup[q] # s
    BY <1>3, Apart, SMT DEF CallsInv, CallInv, InUseIsAllocated
  <2> QED BY <1>1, <1>3, <2>1, <2>2, Apart DEF Points, me
<1> QED BY <1>1, <1>2, <1>3

\* ialloc() allocates a free disk inode.
LEMMA IallocTakeStep ==
  ASSUME Full, NEW p \in Proc, ialloc_take(p)
  PROVE  IInv'
<1> USE Parts
<1> DEFINE i == inum[p]
           d == [alloc |-> TRUE, nlink |-> 0]
<1>1. /\ pc[p] = "ialloc" /\ i \in Inum /\ i < ninodes /\ ~dinode[i].alloc /\ CallInv(p) /\ op[p] = "create"
      /\ ip[p] = 0 /\ dup[p] = 0
  BY IcacheConstants, SMT DEF ialloc_take, CallsInv, CallInv, TypeOK, Inum
<1>2. pc' \in [Proc -> Places] /\ pc'[p] = "iget" /\ \A q \in Proc \ {p} : pc'[q] = pc[q]
  BY Goto DEF ialloc_take, Places
<1>3. /\ dir' = dir /\ dlock' = dlock /\ icache' = icache /\ op' = op /\ nm' = nm /\ ip' = ip
      /\ dup' = dup /\ inum' = inum /\ panicked' = "no" /\ dinode' = [dinode EXCEPT ![i] = d]
  BY DEF ialloc_take
<1>4. d \in Disk /\ d.alloc /\ d.nlink = 0
  BY DEF Disk
<1> HIDE DEF d
<1> USE <1>1, <1>2, <1>3, <1>4
<1>5. /\ \A j \in Inum : j # i => dinode'[j] = dinode[j]
      /\ \A j \in Inum : dinode'[j].nlink = dinode[j].nlink
      /\ dinode'[i].alloc /\ dinode[i].nlink = 0
      /\ OthersKept(p) /\ InumsKept
  BY Unallocated, SMT DEF TypeOK, OthersKept, InumsKept
<1>6. TypeOK'
  BY DEF TypeOK, Panics
<1>7. CallsInv'
  <2>1. CallInv(p)'
    BY DEF CallInv, HasDir
  <2> QED BY <1>5, <2>1, CallsOthers
<1>8. /\ \A q \in Proc : HasInode(q)' <=> HasInode(q)
      /\ \A q \in Proc : pc'[q] \in {"sleep", "free", "freed"} <=> pc[q] \in {"sleep", "free", "freed"}
      /\ \A q \in Proc : q # p => pc'[q] = pc[q]
  BY DEF HasInode
<1>9. RefsAreCounted' /\ OneSlotPerInode' /\ NoInodePanic' /\ BusyIsOwned' /\ LockSleeperHasWaker'
  <2>1. OneSlotPerInode' /\ NoInodePanic'
    BY DEF OneSlotPerInode, NoInodePanic
  <2>2. BusyIsOwned' /\ LockSleeperHasWaker'
    BY <1>8, BusyKept DEF LockSleeperHasWaker, me
  <2> QED BY <2>1, <2>2, RefsKept
<1>10. LinksAreCounted'
  <2>1. \A j \in Inum : ~Owes(p, j) /\ ~Owes(p, j)' /\ dinode[j].nlink \in Nat
    BY DEF Owes, Points, TypeOK, Disk
  <2>2. \A j \in Inum : dinode'[j].nlink = dinode[j].nlink + One(Owes(p, j)') - One(Owes(p, j))
    BY <1>5, <2>1, SMT DEF One
  <2> QED BY <1>5, <2>2, LinksOwed
<1>11. ValidMatchesDisk'
  <2>1. \A q \in Proc : ip[q] # 0 =>
          me(q).valid \/ (pc'[q] \in {"ilock", "sleep", "read"} /\ op[q] # "bad")
    BY <1>8 DEF ValidMatchesDisk
  <2>2. ASSUME NEW s \in Slot, icache[s].ref > 0, icache[s].valid,
               \A q \in Proc : pc'[q] = "freed" => ip[q] # s
        PROVE  dinode'[icache[s].inum] = [alloc |-> icache[s].alloc, nlink |-> icache[s].nlink]
    <3>1. \A q \in Proc : pc[q] = "freed" => ip[q] # s
      BY <1>8, <2>2
    <3>2. dinode[icache[s].inum] = [alloc |-> icache[s].alloc, nlink |-> icache[s].nlink]
      BY <2>2, <3>1 DEF ValidMatchesDisk
    <3>3. icache[s].inum # i /\ icache[s].inum \in Inum
      BY <2>2, <3>1, Unallocated, SMT DEF OneSlotPerInode, TypeOK, Cell
    <3> QED BY <1>5, <3>2, <3>3
  <2> QED BY <2>1, <2>2 DEF ValidMatchesDisk, me
<1>12. \A j \in Inum : /\ ~New(p, j) /\ ~Points(p, j) /\ ~Uses(p, j) /\ ~Points(p, j)'
                       /\ New(p, j)' <=> j = i
                       /\ Uses(p, j)' <=> j = i
  BY DEF New, Points, Uses
<1>13. \A q \in Proc, j \in Inum : q # p => /\ New(q, j)' <=> New(q, j)
                                            /\ Points(q, j)' <=> Points(q, j)
                                            /\ Uses(q, j)' <=> Uses(q, j)
  BY <1>5, OthersView
<1>14. InUseIsAllocated' /\ UnlinkedIsHeld'
  <2>1. \A q \in Proc, j \in Inum : Uses(q, j)' => Uses(q, j) \/ j = i
    BY <1>12, <1>13
  <2>2. InUseIsAllocated'
    BY <1>5, <2>1 DEF InUseIsAllocated
  <2>3. ASSUME NEW j \in Inum, dinode'[j].alloc, dinode'[j].nlink = 0
        PROVE  \E q \in Proc : Uses(q, j)'
    <3>1. CASE j = i
      BY <1>12, <3>1
    <3>2. CASE j # i
      <4>1. PICK q \in Proc : Uses(q, j)
        BY <1>5, <2>3, <3>2 DEF UnlinkedIsHeld
      <4> QED BY <1>12, <1>13, <4>1
    <3> QED BY <3>1, <3>2
  <2> QED BY <2>2, <2>3 DEF UnlinkedIsHeld
<1>15. NewIsAlone'
  <2> SUFFICES ASSUME NEW q \in Proc, NEW j \in Inum, New(q, j)'
               PROVE  /\ dinode'[j].nlink = 0
                      /\ \A r \in Proc \ {q} : Points(r, j)' => pc'[r] = "freed"
    BY DEF NewIsAlone
  <2>1. CASE q = p
    <3>1. j = i /\ dinode'[j].nlink = 0
      BY <1>5, <1>12, <2>1
    <3> QED BY <1>8, <1>13, <2>1, <3>1, Unallocated
  <2>2. CASE q # p
    <3>1. /\ dinode[j].nlink = 0
          /\ \A r \in Proc \ {q} : Points(r, j) => pc[r] = "freed"
      BY <1>13, <2>2 DEF NewIsAlone
    <3> QED BY <1>5, <1>8, <1>12, <1>13, <3>1
  <2> QED BY <2>1, <2>2
<1>16. FreedIsAlone'
  <2>1. \A q \in Proc : pc[q] \in {"free", "freed"} => me(q).inum \in Inum
    BY Pointers
  <2>2. \A q \in Proc : pc'[q] \in {"free", "freed"} => q # p /\ pc[q] = pc'[q]
    BY <1>8
  <2>3. \A q \in Proc : me(q)' = me(q)
    BY DEF me
  <2>4. ASSUME NEW q \in Proc, pc'[q] \in {"free", "freed"}
        PROVE  /\ pc'[q] = "free" => me(q)'.ref = 1 /\ me(q)'.nlink = 0
               /\ pc'[q] = "freed" => dinode'[me(q)'.inum].nlink = 0
    <3>1. /\ pc[q] = "free" => me(q).ref = 1 /\ me(q).nlink = 0
          /\ pc[q] = "freed" => dinode[me(q).inum].nlink = 0
      BY DEF FreedIsAlone
    <3> QED BY <1>5, <2>1, <2>2, <2>3, <2>4, <3>1
  <2>5. ASSUME NEW q \in Proc, pc'[q] = "freed", NEW r \in Proc \ {q}, ip'[r] = ip'[q]
        PROVE  op'[r] = "create" /\ pc'[r] \in {"ilock", "sleep"}
    <3>1. op[r] = "create" /\ pc[r] \in {"ilock", "sleep"}
      BY <2>2, <2>5 DEF FreedIsAlone
    <3> QED BY <1>8, <3>1
  <2> QED BY <2>4, <2>5 DEF FreedIsAlone
<1> QED BY <1>6, <1>7, <1>9, <1>10, <1>11, <1>14, <1>15, <1>16
        DEF IInv, IcacheInv, FreedWhenUnreachable

-----------------------------------------------------------------------------
(* iput() drops a pointer to the slot t *)

DropSlot(t) ==
  /\ t \in Slot /\ icache[t].ref \in Nat /\ icache[t].ref > 0
  /\ icache'[t].ref = icache[t].ref - 1 /\ icache'[t].inum = icache[t].inum
  /\ icache'[t].alloc = icache[t].alloc /\ icache'[t].nlink = icache[t].nlink
  /\ \A s \in Slot : s # t => icache'[s] = icache[s]

\* The lock and the copy stay as they are, or go with a freed inode.
DropFlags(p, t) ==
  \/ /\ pc[p] = "iput" /\ ~LastUnlinked(t)
     /\ icache'[t].busy = icache[t].busy /\ icache'[t].valid = icache[t].valid
  \/ /\ pc[p] = "freed" /\ ip[p] = t /\ dup[p] = 0 /\ ~icache'[t].busy /\ ~icache'[t].valid
     /\ \A q \in Proc : ip[q] = t => pc'[q] # "sleep"

\* The pointer is the last of the call, or the one of dirlink().
DropIp(p, t) ==
  /\ ip[p] = t /\ ip'[p] = 0 /\ dup[p] = 0 /\ dup'[p] = 0 /\ pc'[p] = "idle"
DropDup(p, t) ==
  /\ ip[p] # 0 /\ ip'[p] = ip[p] /\ dup[p] = t /\ dup[p] # 0 /\ dup'[p] = 0
  /\ pc[p] = "iput" /\ pc'[p] = "ilock" /\ op[p] = "link" /\ op'[p] = "bad"

\* Who has the inode besides p, when it has no links: the last pointer frees it.
LEMMA DropLeaves ==
  ASSUME Full, NEW p \in Proc, NEW t \in Slot, DropSlot(t), DropFlags(p, t), DropIp(p, t),
         pc[p] = "iput", icache[t].inum \in Inum, dinode[icache[t].inum].nlink = 0
  PROVE  \E q \in Proc \ {p} : Uses(q, icache[t].inum)
<1> USE Parts
<1>1. \A q \in Proc : ip[q] = t => pc[q] # "freed"
  BY DEF FreedIsAlone, DropIp
<1>2. icache[t].valid
  BY Apart DEF ValidMatchesDisk, DropIp, me
<1>3. icache[t].nlink = 0
  <2>1. dinode[icache[t].inum] = [alloc |-> icache[t].alloc, nlink |-> icache[t].nlink]
    BY <1>1, <1>2 DEF ValidMatchesDisk, DropSlot
  <2> QED BY <2>1, SMT
<1>4. icache[t].ref > 1
  BY <1>2, <1>3, SMTT(10), SMTT(30) DEF DropFlags, LastUnlinked, DropSlot
<1>5. PICK q \in Proc : dup[q] = t \/ (ip[q] = t /\ q # p)
  BY <1>4, SMT DEF RefsView, DropIp
<1>6. dup[q] # t
  <2>1. \A n \in Name : dir[n] # icache[t].inum
    BY ZeroIsNotPositive DEF LinksView
  <2>2. dup[q] # 0 => \E n \in Name : dir[n] = icache[dup[q]].inum
    BY DEF CallsInv, CallInv
  <2> QED BY <2>1, <2>2, Apart
<1> QED BY <1>1, <1>5, <1>6, Apart DEF Uses, Points, me

\* A step that drops a pointer keeps the invariant.
LEMMA DropStep ==
  ASSUME Full, NEW p \in Proc, NEW t \in Slot, DropSlot(t), DropFlags(p, t),
         DropIp(p, t) \/ DropDup(p, t), RestKept(p), OthersKept(p), TypeOK', CallInv(p)'
  PROVE  IInv'
<1> USE Parts
<1>1. InumsKept /\ CallsInv'
  <2>1. InumsKept
    BY DEF InumsKept, DropSlot
  <2> QED BY <2>1, CallsOthers DEF RestKept
<1>2. \A s \in Slot :
        /\ icache'[s].inum = icache[s].inum /\ icache'[s].nlink = icache[s].nlink
        /\ icache'[s].alloc = icache[s].alloc
        /\ icache'[s].ref > 0 => icache[s].ref > 0
  BY DEF DropSlot
<1>3. \A q \in Proc :
        /\ ip[q] # 0 => ip[q] \in Slot
        /\ pc[q] \in {"sleep", "free", "freed"} => ip[q] # 0 /\ me(q).inum \in Inum
  BY Pointers
<1>4. \A q \in Proc \ {p} :
        /\ HasInode(q)' <=> HasInode(q)
        /\ ip'[q] = ip[q]
        /\ \A j \in Inum : /\ Points(q, j)' <=> Points(q, j)
                           /\ New(q, j)' <=> New(q, j)
                           /\ Uses(q, j)' <=> Uses(q, j)
        /\ pc'[q] = pc[q] \/ (pc[q] = "sleep" /\ pc'[q] = "ilock")
        /\ op'[q] = op[q]
  BY <1>1, OthersView DEF OthersKept
<1>5. RefsAreCounted'
  <2>1. \A s \in Slot : icache[s].ref \in Nat
    BY DEF TypeOK, Cell
  <2>2. \A s \in Slot : icache'[s].ref = icache[s].ref + One(ip'[p] = s) - One(ip[p] = s)
                                          + One(dup'[p] = s) - One(dup[p] = s)
    <3> SUFFICES ASSUME NEW s \in Slot
                 PROVE  icache'[s].ref = icache[s].ref + One(ip'[p] = s) - One(ip[p] = s)
                                          + One(dup'[p] = s) - One(dup[p] = s)
      OBVIOUS
    <3>1. CASE DropIp(p, t)
      <4>1. /\ dup'[p] = dup[p] /\ ip[p] = t /\ ip'[p] # s
            /\ icache'[s].ref = IF s = t THEN icache[s].ref - 1 ELSE icache[s].ref
        BY <3>1, Apart DEF DropSlot, DropIp
      <4> QED BY <2>1, <4>1, SMT DEF One
    <3>2. CASE DropDup(p, t)
      <4>1. /\ ip'[p] = ip[p] /\ dup[p] = t /\ dup'[p] # s
            /\ icache'[s].ref = IF s = t THEN icache[s].ref - 1 ELSE icache[s].ref
        BY <3>2, Apart DEF DropSlot, DropDup
      <4> QED BY <2>1, <4>1, SMT DEF One
    <3> QED BY <3>1, <3>2
  <2> QED BY <2>2, RefsStep
<1>6. OneSlotPerInode' /\ NoInodePanic'
  <2>1. OneSlotPerInode'
    BY <1>2 DEF OneSlotPerInode
  <2> QED BY <2>1 DEF RestKept, NoInodePanic
\* Who else points to a slot that is freed waits for its lock, in create().
<1>7. ASSUME pc[p] = "freed"
      PROVE  /\ ip[p] = t /\ ~icache'[t].busy /\ ~icache'[t].valid
             /\ \A q \in Proc \ {p} : ip[q] = t =>
                  op[q] = "create" /\ pc[q] \in {"ilock", "sleep"} /\ pc'[q] = "ilock" /\ ~HasInode(q)
  <2>1. /\ ip[p] = t /\ ~icache'[t].busy /\ ~icache'[t].valid
        /\ \A q \in Proc : ip[q] = t => pc'[q] # "sleep"
    BY <1>7 DEF DropFlags
  <2>2. ASSUME NEW q \in Proc \ {p}, ip[q] = t
        PROVE  op[q] = "create" /\ pc[q] \in {"ilock", "sleep"}
    BY <1>7, <2>1, <2>2 DEF FreedIsAlone
  <2> QED BY <1>4, <2>1, <2>2 DEF HasInode
<1>8. ASSUME pc[p] # "freed"
      PROVE  /\ pc[p] = "iput" /\ ~LastUnlinked(t)
             /\ \A s \in Slot : icache'[s].busy = icache[s].busy /\ icache'[s].valid = icache[s].valid
  BY <1>8 DEF DropFlags, DropSlot
<1>9. BusyIsOwned'
  <2>1. ~HasInode(p)' /\ (pc[p] # "freed" => ~HasInode(p))
    BY <1>8 DEF HasInode, DropIp, DropDup
  <2>2. CASE pc[p] = "freed"
    <3>1. \A q \in Proc : HasInode(q)' => HasInode(q) /\ ip'[q] = ip[q] /\ q # p /\ ip[q] # t
      BY <1>4, <1>7, <2>1, <2>2
    <3>2. \A q \in Proc : HasInode(q) /\ ip[q] # t => HasInode(q)' /\ ip'[q] = ip[q]
      BY <1>4, <1>7, <2>2
    <3>3. ASSUME NEW s \in Slot
          PROVE  icache'[s].busy <=> \E q \in Proc : HasInode(q)' /\ ip'[q] = s
      <4>1. CASE s = t
        BY <1>7, <2>2, <3>1, <4>1
      <4>2. CASE s # t
        <5>1. icache'[s].busy <=> icache[s].busy
          BY <4>2 DEF DropSlot
        <5>2. icache[s].busy <=> \E q \in Proc : HasInode(q) /\ ip[q] = s
          BY DEF BusyIsOwned
        <5> QED BY <3>1, <3>2, <4>2, <5>1, <5>2
      <4> QED BY <4>1, <4>2
    <3>4. ASSUME NEW q \in Proc, NEW r \in Proc, HasInode(q)', HasInode(r)', ip'[q] = ip'[r]
          PROVE  q = r
      BY <3>1, <3>4 DEF BusyIsOwned
    <3> QED BY <3>3, <3>4 DEF BusyIsOwned
  <2>3. CASE pc[p] # "freed"
    BY <1>4, <1>8, <2>1, <2>3, BusyKept
  <2> QED BY <2>2, <2>3
<1>10. LockSleeperHasWaker'
  <2>1. ASSUME NEW q \in Proc, pc'[q] = "sleep"
        PROVE  q \in Proc \ {p} /\ pc[q] = "sleep" /\ ip'[q] = ip[q] /\ ip[q] \in Slot
    BY <1>3, <1>4, <2>1 DEF DropIp, DropDup
  <2>2. ASSUME NEW q \in Proc, pc'[q] = "sleep"
        PROVE  icache'[ip'[q]].busy
    <3>1. icache[ip[q]].busy /\ q \in Proc \ {p} /\ ip'[q] = ip[q] /\ ip[q] \in Slot
      BY <2>1, <2>2 DEF LockSleeperHasWaker, me
    <3>2. CASE pc[p] = "freed"
      BY <1>7, <2>2, <3>1, <3>2 DEF DropSlot
    <3>3. CASE pc[p] # "freed"
      BY <1>8, <3>1, <3>3
    <3> QED BY <3>2, <3>3
  <2> QED BY <2>2 DEF LockSleeperHasWaker, me
<1>11. ValidMatchesDisk'
  <2>1. ASSUME NEW q \in Proc, ip'[q] # 0
        PROVE  icache'[ip'[q]].valid \/ (pc'[q] \in {"ilock", "sleep", "read"} /\ op'[q] # "bad")
    <3>1. ip'[q] = ip[q] /\ ip[q] # 0 /\ ip[q] \in Slot
      BY <1>3, <1>4, <2>1 DEF DropIp, DropDup
    <3>2. CASE q = p
      BY <1>8, <2>1, <3>1, <3>2 DEF ValidMatchesDisk, DropIp, DropDup, me
    <3>3. CASE q # p
      <4>1. icache[ip[q]].valid \/ (pc[q] \in {"ilock", "sleep", "read"} /\ op[q] # "bad")
        BY <3>1 DEF ValidMatchesDisk, me
      <4>2. CASE pc[p] = "freed"
        BY <1>4, <1>7, <3>1, <3>3, <4>1, <4>2 DEF DropSlot
      <4>3. CASE pc[p] # "freed"
        BY <1>4, <1>8, <3>1, <3>3, <4>1, <4>3
      <4> QED BY <4>2, <4>3
    <3> QED BY <3>2, <3>3
  <2>2. ASSUME NEW s \in Slot, icache'[s].ref > 0, icache'[s].valid,
               \A q \in Proc : pc'[q] = "freed" => ip'[q] # s
        PROVE  dinode'[icache'[s].inum] = [alloc |-> icache'[s].alloc, nlink |-> icache'[s].nlink]
    <3>1. icache[s].ref > 0 /\ icache[s].valid /\ (pc[p] = "freed" => s # t)
      BY <1>2, <1>7, <1>8, <2>2 DEF DropSlot
    <3>2. \A q \in Proc : pc[q] = "freed" => ip[q] # s
      BY <1>4, <1>7, <2>2, <3>1
    <3>3. dinode[icache[s].inum] = [alloc |-> icache[s].alloc, nlink |-> icache[s].nlink]
      BY <3>1, <3>2 DEF ValidMatchesDisk
    <3> QED BY <1>2, <3>3 DEF RestKept
  <2> QED BY <2>1, <2>2 DEF ValidMatchesDisk, me
\* What p itself points to
<1>12. \A j \in Inum :
         /\ Points(p, j)' <=> DropDup(p, t) /\ Points(p, j)
         /\ ~New(p, j) /\ ~New(p, j)'
  BY <1>2, <1>3, <1>8 DEF Points, New, DropIp, DropDup, me
<1>13. LinksAreCounted'
  <2>1. \A j \in Inum : Owes(p, j)' <=> Owes(p, j)
    BY <1>8, <1>12, Apart DEF Owes, DropIp, DropDup
  <2>2. \A j \in Inum : dinode'[j].nlink = dinode[j].nlink + One(Owes(p, j)') - One(Owes(p, j))
    BY <2>1, SMT DEF RestKept, One, TypeOK, Disk
  <2> QED BY <1>1, <2>2, LinksOwed DEF RestKept
<1>14. InUseIsAllocated'
  BY <1>4, <1>12 DEF InUseIsAllocated, Uses, RestKept, DropIp, DropDup
<1>15. UnlinkedIsHeld'
  <2> SUFFICES ASSUME NEW j \in Inum, dinode[j].alloc, dinode[j].nlink = 0
               PROVE  \E q \in Proc : Uses(q, j)'
    BY DEF UnlinkedIsHeld, RestKept
  <2>1. PICK q \in Proc : Uses(q, j)
    BY DEF UnlinkedIsHeld
  <2>2. CASE q # p
    BY <1>4, <2>1, <2>2
  <2>3. CASE q = p /\ DropDup(p, t)
    BY <1>12, <2>1, <2>3 DEF Uses, DropDup
  <2>4. CASE q = p /\ DropIp(p, t)
    <3>1. icache[t].inum = j /\ pc[p] = "iput"
      BY <1>8, <1>12, <2>1, <2>4 DEF Uses, Points, DropIp, me
    <3> QED BY <1>4, <2>4, <3>1, DropLeaves
  <2> QED BY <2>2, <2>3, <2>4
<1>16. NewIsAlone'
  <2> SUFFICES ASSUME NEW q \in Proc, NEW j \in Inum, New(q, j)'
               PROVE  /\ dinode'[j].nlink = 0
                      /\ \A r \in Proc \ {q} : Points(r, j)' => pc'[r] = "freed"
    BY DEF NewIsAlone
  <2>1. New(q, j)
    BY <1>4, <1>12
  <2>2. /\ dinode'[j].nlink = 0
        /\ \A r \in Proc \ {q} : Points(r, j) => pc[r] = "freed"
    BY <2>1 DEF NewIsAlone, RestKept
  <2> QED BY <1>4, <1>12, <2>2 DEF DropDup
<1>17. FreedIsAlone'
  <2>1. ASSUME NEW q \in Proc, pc'[q] \in {"free", "freed"}
        PROVE  /\ q \in Proc \ {p} /\ pc[q] = pc'[q] /\ ip'[q] = ip[q] /\ ip[q] \in Slot
               /\ me(q)'.inum = me(q).inum /\ me(q)'.nlink = me(q).nlink
    <3>1. q \in Proc \ {p} /\ pc[q] = pc'[q] /\ ip'[q] = ip[q]
      BY <1>4, <2>1 DEF DropIp, DropDup
    <3> QED BY <1>2, <1>3, <2>1, <3>1 DEF me
  <2>2. ASSUME NEW q \in Proc, pc'[q] = "free"
        PROVE  me(q)'.ref = 1
    <3>1. me(q).ref = 1 /\ q # p
      BY <2>1, <2>2 DEF FreedIsAlone
    <3>2. ip[q] # t
      BY <2>1, <2>2, <3>1, SMT DEF RefsView, DropIp, DropDup, me
    <3> QED BY <2>1, <2>2, <3>1, <3>2 DEF DropSlot, me
  <2>3. ASSUME NEW q \in Proc, pc'[q] \in {"free", "freed"}
        PROVE  /\ pc'[q] = "free" => me(q)'.nlink = 0
               /\ pc'[q] = "freed" => dinode'[me(q)'.inum].nlink = 0
    <3>1. /\ pc[q] = "free" => me(q).nlink = 0
          /\ pc[q] = "freed" => dinode[me(q).inum].nlink = 0
      BY DEF FreedIsAlone
    <3> QED BY <2>1, <2>3, <3>1 DEF RestKept
  <2>4. ASSUME NEW q \in Proc, pc'[q] = "freed", NEW r \in Proc \ {q}, ip'[r] = ip'[q]
        PROVE  op'[r] = "create" /\ pc'[r] \in {"ilock", "sleep"}
    <3>1. q \in Proc \ {p} /\ pc[q] = "freed" /\ ip'[q] = ip[q] /\ ip[q] \in Slot
      BY <2>1, <2>4
    <3>2. ip[r] = ip[q] => op[r] = "create" /\ pc[r] \in {"ilock", "sleep"}
      BY <2>4, <3>1 DEF FreedIsAlone
    <3>3. CASE r # p
      BY <1>4, <2>4, <3>1, <3>2, <3>3
    <3>4. CASE r = p
      BY <2>4, <3>1, <3>2, <3>4, Apart DEF DropIp, DropDup
    <3> QED BY <3>3, <3>4
  <2> QED BY <2>2, <2>3, <2>4 DEF FreedIsAlone
<1> QED BY <1>1, <1>5, <1>6, <1>9, <1>10, <1>11, <1>13, <1>14, <1>15, <1>16, <1>17
        DEF IInv, IcacheInv, FreedWhenUnreachable

\* What becomes of the call: dirlink() returns to sys_link(), or the call is over.
LEMMA DroppedPointer ==
  ASSUME Full, NEW p \in Proc, Dropped(p), pc' \in [Proc -> Places], pc'[p] = After(p),
         pc[p] \in {"iput", "freed"}, dir' = dir, dinode' = dinode, inum' = inum, panicked' = "no",
         icache' \in [Slot -> Cell],
         \A q \in Proc \ {p} : pc'[q] = pc[q] \/ (pc[q] = "sleep" /\ pc'[q] = "ilock")
  PROVE  /\ DropIp(p, Target(p)) \/ DropDup(p, Target(p))
         /\ RestKept(p) /\ OthersKept(p) /\ TypeOK' /\ CallInv(p)'
<1> USE Parts
<1>1. CallInv(p) /\ ip[p] # 0 /\ p # None
  BY Pointers, Apart DEF CallsInv
<1>2. CASE dup[p] # 0
  <2>1. /\ pc[p] = "iput" /\ op[p] = "link" /\ HasDir(p) /\ dlock = p /\ pc'[p] = "ilock"
        /\ Target(p) = dup[p] /\ nm[p] # None
    BY <1>1, <1>2 DEF CallInv, HasDir, Target, After
  <2>2. /\ dup' = [dup EXCEPT ![p] = 0] /\ op' = [op EXCEPT ![p] = "bad"] /\ dlock' = None
        /\ ip' = ip /\ nm' = nm
    BY <1>2 DEF Dropped
  <2>3. dup'[p] = 0 /\ op'[p] = "bad" /\ OthersKept(p)
    BY <2>2 DEF TypeOK, OthersKept
  <2>4. TypeOK'
    BY <2>2 DEF TypeOK, Panics
  <2>5. CallInv(p)'
    BY <1>1, <2>1, <2>2, <2>3 DEF CallInv, HasDir
  <2> QED BY <1>1, <1>2, <2>1, <2>2, <2>3, <2>4, <2>5 DEF DropDup, RestKept
<1>3. CASE dup[p] = 0
  <2>1. /\ pc'[p] = "idle" /\ Target(p) = ip[p] /\ ~HasDir(p) /\ dlock # p
    BY <1>1, <1>3 DEF CallInv, HasDir, Target, After
  <2>2. /\ ip' = [ip EXCEPT ![p] = 0] /\ nm' = [nm EXCEPT ![p] = None]
        /\ op' = [op EXCEPT ![p] = "open"] /\ dlock' = dlock /\ dup' = dup
    BY <1>3 DEF Dropped
  <2>3. ip'[p] = 0 /\ dup'[p] = 0 /\ op'[p] = "open" /\ OthersKept(p)
    BY <1>3, <2>2 DEF TypeOK, OthersKept
  <2>4. TypeOK'
    BY <2>2 DEF TypeOK, Panics
  <2>5. CallInv(p)'
    BY <2>1, <2>2, <2>3 DEF CallInv, HasDir
  <2> QED BY <1>3, <2>1, <2>2, <2>3, <2>4, <2>5 DEF DropIp, RestKept
<1> QED BY <1>2, <1>3

\* iput() of a pointer that is not the last to an unlinked inode
LEMMA IputStep ==
  ASSUME Full, NEW p \in Proc, iput(p)
  PROVE  IInv'
<1> USE Parts
<1> DEFINE t == Target(p)
           c == icache[t]
           e == [c EXCEPT !.ref = c.ref - 1]
<1>1. pc[p] = "iput" /\ ~LastUnlinked(t) /\ icache' = [icache EXCEPT ![t] = e]
  BY DEF iput
<1>2. t \in Slot /\ c \in Cell /\ c.ref \in Nat /\ c.ref > 0
  BY <1>1, Pointers DEF Target, TypeOK, Cell, me
<1>3. /\ e \in Cell /\ e.ref = c.ref - 1 /\ e.inum = c.inum /\ e.busy = c.busy /\ e.valid = c.valid
      /\ e.alloc = c.alloc /\ e.nlink = c.nlink
  BY <1>2, SMT DEF Cell
<1> HIDE DEF e
<1>4. /\ icache'[t] = e /\ icache' \in [Slot -> Cell] /\ \A s \in Slot : s # t => icache'[s] = icache[s]
  BY <1>1, <1>2, <1>3 DEF TypeOK
<1>5. DropSlot(t) /\ DropFlags(p, t)
  BY <1>1, <1>2, <1>3, <1>4 DEF DropSlot, DropFlags
<1>6. /\ pc' \in [Proc -> Places] /\ pc'[p] = After(p) /\ \A q \in Proc \ {p} : pc'[q] = pc[q]
  <2>1. After(p) \in Places
    BY DEF After, Places
  <2> QED BY <2>1, Goto DEF iput
<1>7. /\ DropIp(p, t) \/ DropDup(p, t)
      /\ RestKept(p) /\ OthersKept(p) /\ TypeOK' /\ CallInv(p)'
  BY <1>1, <1>4, <1>6, DroppedPointer DEF iput
<1> QED BY <1>2, <1>5, <1>7, DropStep

\* iput() drops the last pointer to the inode it has freed and wakes who waits for it.
LEMMA IputFinishStep ==
  ASSUME Full, NEW p \in Proc, iput_finish(p)
  PROVE  IInv'
<1> USE Parts
<1> DEFINE t == Target(p)
           c == icache[t]
           r == c.ref - 1
           e == [c EXCEPT !.busy = FALSE, !.valid = FALSE, !.ref = r]
<1>1. /\ pc[p] = "freed" /\ pc' = Woken([pc EXCEPT ![p] = After(p)], t)
  BY DEF iput_finish
<1>2. /\ t \in Slot /\ c \in Cell /\ c.ref \in Nat /\ c.ref > 0 /\ dup[p] = 0 /\ t = ip[p]
  BY <1>1, Pointers DEF Target, TypeOK, Cell, CallsInv, CallInv, me
<1>3. icache' = [icache EXCEPT ![t] = e]
  BY <1>2 DEF iput_finish, TypeOK
<1>4. /\ e \in Cell /\ e.ref = r /\ e.inum = c.inum /\ ~e.busy /\ ~e.valid
      /\ e.alloc = c.alloc /\ e.nlink = c.nlink
  <2>1. r \in Nat
    BY <1>2, SMT
  <2> HIDE DEF r
  <2> QED BY <1>2, <2>1 DEF Cell
<1> HIDE DEF e
<1>5. /\ icache'[t] = e /\ icache' \in [Slot -> Cell] /\ \A s \in Slot : s # t => icache'[s] = icache[s]
  BY <1>2, <1>3, <1>4 DEF TypeOK
<1>6. /\ pc' \in [Proc -> Places] /\ pc'[p] = After(p)
      /\ \A q \in Proc \ {p} : pc'[q] = pc[q] \/ (pc[q] = "sleep" /\ pc'[q] = "ilock")
      /\ \A q \in Proc : ip[q] = t => pc'[q] # "sleep"
  <2>1. After(p) \in Places /\ After(p) # "sleep" /\ "ilock" \in Places
    BY DEF After, Places
  <2> QED BY <1>1, <2>1 DEF Woken, TypeOK
<1>7. DropSlot(t) /\ DropFlags(p, t)
  BY <1>1, <1>2, <1>4, <1>5, <1>6 DEF DropSlot, DropFlags
<1>8. /\ DropIp(p, t) \/ DropDup(p, t)
      /\ RestKept(p) /\ OthersKept(p) /\ TypeOK' /\ CallInv(p)'
  BY <1>1, <1>5, <1>6, DroppedPointer DEF iput_finish
<1> QED BY <1>2, <1>7, <1>8, DropStep

-----------------------------------------------------------------------------
(* The theorems *)

\* An empty set has no members to count.
LEMMA CountNone == Counts(0, {})
<1> DEFINE f == [k \in 1..0 |-> 0]
<1>1. f \in [1..0 -> {}] /\ \A k \in 1..0 : FALSE
  BY SMT
<1> HIDE DEF f
<1> QED BY <1>1 DEF Counts

\* The invariant holds when the machine starts.
LEMMA InitInv ==
  Init => IInv
<1> SUFFICES ASSUME Init PROVE IInv
  OBVIOUS
<1>1. /\ \A q \in Proc : pc[q] = "idle" /\ op[q] = "open" /\ ip[q] = 0 /\ dup[q] = 0
      /\ \A s \in Slot : icache[s].ref = 0 /\ ~icache[s].busy
      /\ \A i \in Inum : dinode[i].nlink = 0 /\ ~dinode[i].alloc
      /\ (\A n \in Name : dir[n] = 0) /\ dlock = None /\ panicked = "no"
  BY DEF Init
<1>2. TypeOK
  <2>1. dinode \in [Inum -> Disk] /\ icache \in [Slot -> Cell]
    BY DEF Init, Disk, Cell
  <2>2. inum \in [Proc -> 1..ninodes]
    BY IcacheConstants, SMT DEF Init
  <2>3. pc \in [Proc -> Places] /\ panicked \in Panics
    BY DEF Init, Places, Panics
  <2> QED BY <2>1, <2>2, <2>3 DEF Init, TypeOK
<1>3. \A q \in Proc, i \in Inum : ~New(q, i) /\ ~Points(q, i) /\ ~Uses(q, i) /\ ~Owes(q, i)
  BY <1>1 DEF New, Points, Uses, Owes
<1>4. CallsInv
  BY <1>1, Apart DEF CallsInv, CallInv, HasDir
<1>5. BusyIsOwned /\ OneSlotPerInode /\ LockSleeperHasWaker /\ NoInodePanic
  BY <1>1, SMTT(10), SMTT(30) DEF BusyIsOwned, HasInode, OneSlotPerInode, LockSleeperHasWaker, NoInodePanic
<1>6. ValidMatchesDisk
  BY <1>1, SMT DEF ValidMatchesDisk
<1>7. RefsAreCounted
  <2> SUFFICES ASSUME NEW s \in Slot
               PROVE  \E n \in 0..icache[s].ref :
                        /\ Counts(n, {p \in Proc : ip[p] = s})
                        /\ Counts(icache[s].ref - n, {p \in Proc : dup[p] = s})
    BY DEF RefsAreCounted
  <2>1. {p \in Proc : ip[p] = s} = {} /\ {p \in Proc : dup[p] = s} = {}
    BY <1>1, Apart
  <2>2. icache[s].ref = 0 /\ 0 \in 0..0 /\ 0 - 0 = 0
    BY <1>1, SMT
  <2> QED BY <2>1, <2>2, CountNone
<1>8. LinksAreCounted
  <2> SUFFICES ASSUME NEW i \in Inum
               PROVE  \E n \in 0..dinode[i].nlink :
                        /\ Counts(n, {m \in Name : dir[m] = i})
                        /\ Counts(dinode[i].nlink - n, {p \in Proc : Owes(p, i)})
    BY DEF LinksAreCounted
  <2>1. {m \in Name : dir[m] = i} = {} /\ {p \in Proc : Owes(p, i)} = {}
    BY <1>1, <1>3, Apart
  <2>2. dinode[i].nlink = 0 /\ 0 \in 0..0 /\ 0 - 0 = 0
    BY <1>1, SMT
  <2> QED BY <2>1, <2>2, CountNone
<1>9. FreedWhenUnreachable
  BY <1>1, <1>3, Apart
     DEF FreedWhenUnreachable, InUseIsAllocated, UnlinkedIsHeld, FreedIsAlone, NewIsAlone
<1> QED BY <1>2, <1>4, <1>5, <1>6, <1>7, <1>8, <1>9 DEF IInv, IcacheInv

\* The machine stops, or does nothing.
LEMMA StandStill ==
  ASSUME Full, UNCHANGED <<dir, dlock, dinode, icache, locals>>, panicked' \in Panics, NoInodePanic'
  PROVE  IInv'
<1>1. /\ dir' = dir /\ dlock' = dlock /\ dinode' = dinode /\ icache' = icache /\ pc' = pc /\ op' = op
      /\ nm' = nm /\ ip' = ip /\ dup' = dup /\ inum' = inum
  BY DEF locals
<1> USE <1>1
<1> USE Parts
<1>2. TypeOK' /\ OneSlotPerInode'
  <2>1. TypeOK'
    BY DEF TypeOK
  <2>2. OneSlotPerInode'
    BY DEF OneSlotPerInode
  <2> QED BY <2>1, <2>2
<1>3. \A q \in Proc :
        /\ (HasDir(q)' <=> HasDir(q)) /\ (HasInode(q)' <=> HasInode(q)) /\ me(q)' = me(q)
        /\ \A i \in Inum : /\ Points(q, i)' <=> Points(q, i)
                           /\ New(q, i)' <=> New(q, i)
                           /\ Uses(q, i)' <=> Uses(q, i)
                           /\ Owes(q, i)' <=> Owes(q, i)
  BY SMTT(10), SMTT(30) DEF HasDir, HasInode, Points, New, Uses, Owes, me
<1>4. CallsInv' /\ BusyIsOwned' /\ LockSleeperHasWaker' /\ ValidMatchesDisk'
  <2>1. CallsInv'
    <3> SUFFICES ASSUME NEW q \in Proc PROVE CallInv(q)'
      BY DEF CallsInv
    <3> QED BY <1>3 DEF CallsInv, CallInv
  <2>2. BusyIsOwned' /\ LockSleeperHasWaker'
    BY <1>3, BusyKept DEF LockSleeperHasWaker
  <2>3. ValidMatchesDisk'
    BY <1>3 DEF ValidMatchesDisk
  <2> QED BY <2>1, <2>2, <2>3
<1>5. RefsAreCounted' /\ LinksAreCounted'
  <2>1. \A i \in Inum : Names(i)' = Names(i) /\ Owing(i)' = Owing(i)
    BY <1>3 DEF Names, Owing
  <2>2. LinksAreCounted'
    <3> SUFFICES ASSUME NEW i \in Inum
                 PROVE  \E k \in 0..dinode'[i].nlink :
                          Counts(k, Names(i)') /\ Counts(dinode'[i].nlink - k, Owing(i)')
      BY DEF LinksAreCounted, Names, Owing, Counts
    <3>1. \E k \in 0..dinode[i].nlink : Counts(k, Names(i)) /\ Counts(dinode[i].nlink - k, Owing(i))
      BY DEF LinksAreCounted, Names, Owing
    <3> QED BY <2>1, <3>1
  <2> QED BY <2>2, RefsKept
<1>6. InUseIsAllocated' /\ UnlinkedIsHeld' /\ FreedIsAlone' /\ NewIsAlone'
  <2>1. InUseIsAllocated' /\ UnlinkedIsHeld'
    BY <1>3 DEF InUseIsAllocated, UnlinkedIsHeld
  <2>2. FreedIsAlone'
    BY <1>3 DEF FreedIsAlone
  <2>3. NewIsAlone'
    BY <1>3 DEF NewIsAlone
  <2> QED BY <2>1, <2>2, <2>3
<1> QED BY <1>2, <1>4, <1>5, <1>6 DEF IInv, IcacheInv, FreedWhenUnreachable

\* The panics of the full tables stop the machine and change nothing else.
LEMMA PanicStep ==
  ASSUME Full, NEW p \in Proc, ialloc_panic(p) \/ \E n \in Name : lookup_panic(p, n)
  PROVE  IInv'
<1>1. UNCHANGED <<dir, dlock, dinode, icache, locals>>
  BY DEF ialloc_panic, lookup_panic, panic
<1>2. panicked' \in {"iget: no inodes", "ialloc: no inodes"}
  BY DEF ialloc_panic, lookup_panic, panic
<1>3. panicked' \in Panics /\ NoInodePanic'
  BY <1>2 DEF Panics, NoInodePanic
<1> QED BY <1>1, <1>3, StandStill

\* Every step keeps the invariant.
LEMMA NextInv ==
  IInv /\ [Next]_vars => IInv'
<1> SUFFICES ASSUME IInv, [Next]_vars PROVE IInv'
  OBVIOUS
<1>1. Full
  BY RefsInView, LinksInView DEF Full, IInv, IcacheInv
<1>2. CASE UNCHANGED vars
  <2>1. UNCHANGED <<dir, dlock, dinode, icache, locals>> /\ panicked' = panicked
    BY <1>2 DEF vars
  <2>2. panicked' \in Panics /\ NoInodePanic'
    BY <1>1, <2>1, Parts DEF TypeOK, NoInodePanic
  <2> QED BY <1>1, <2>1, <2>2, StandStill
<1>3. ASSUME NEW p \in Proc, step(p) PROVE IInv'
  <2>1. CASE ialloc_next(p) \/ ilock_sleep(p) \/ locked_open(p) \/ link_fail(p)
    BY <1>1, <2>1, MoveStep DEF Move
  <2>2. CASE ialloc_take(p) \/ ialloc_iget(p) \/ ialloc_panic(p)
    BY <1>1, <2>2, IallocTakeStep, IallocIgetStep, PanicStep
  <2>3. CASE ilock(p) \/ ilock_read(p) \/ iunlock(p)
    BY <1>1, <2>3, IlockStep, IlockReadStep, IunlockStep
  <2>4. CASE unlink_entry(p)
    BY <1>1, <2>4, UnlinkEntryStep
  <2>5. CASE unlink_update(p) \/ create_update(p) \/ link_update(p) \/ link_undo(p)
    BY <1>1, <2>5, UpdateStep
  <2>6. CASE create_dirlink(p)
    <3>1. nm[p] \in Name
      BY <1>1, <2>6, Parts DEF create_dirlink, TypeOK, CallsInv, CallInv
    <3> QED BY <1>1, <2>6, <3>1, DirlinkStep
  <2>7. CASE \E n \in Name : link_dirlink(p, n) \/ link_taken(p, n)
    BY <1>1, <2>7, DirlinkStep, LinkTakenStep
  <2>8. CASE iput(p) \/ iput_last(p) \/ iput_free(p) \/ iput_finish(p)
    BY <1>1, <2>8, IputStep, IputLastStep, IputFreeStep, IputFinishStep
  <2> QED BY <1>3, <2>1, <2>2, <2>3, <2>4, <2>5, <2>6, <2>7, <2>8 DEF step
<1>4. ASSUME NEW p \in Proc, syscall(p) PROVE IInv'
  <2>1. CASE close(p) \/ \E n \in Name : create(p, n)
    BY <1>1, <2>1, MoveStep DEF Move
  <2>2. CASE \E n \in Name : namei(p, n, "open") \/ namei(p, n, "link") \/ unlink(p, n)
    BY <1>1, <2>2, LookupStep
  <2>3. CASE \E n \in Name : lookup_panic(p, n)
    BY <1>1, <2>3, PanicStep
  <2> QED BY <1>4, <2>1, <2>2, <2>3 DEF syscall
<1> QED BY <1>2, <1>3, <1>4 DEF Next

\* The three invariants together are an invariant of the inode layer, each carried by
\* the other two: what iget(), ilock(), iput(), ialloc() and the calls that use them do
\* keeps the slots, the link counts and the disk inodes in step.
THEOREM InvHolds ==
  Spec => []IInv
BY InitInv, NextInv, PTL DEF Spec

\* The inode cache is sound under any number of calls of open(), close(), link() and
\* unlink(): an inode has one slot, ip->ref counts the pointers to it, I_BUSY has one
\* owner, a valid copy agrees with the disk, no wakeup of ilock() is lost, and iput(),
\* ilock() and sys_unlink() never come to their panics.
THEOREM IcacheSound ==
  Spec => []IcacheInv
<1>1. IInv => IcacheInv
  BY DEF IInv
<1> QED BY <1>1, InvHolds, PTL

\* The nlink of every disk inode is the number of its names and of the links that the
\* calls under way have counted ahead in sys_link() and create(), or not yet taken back
\* in sys_unlink() and at bad.
THEOREM LinksBalance ==
  Spec => []LinksAreCounted
<1>1. IInv => LinksAreCounted
  BY DEF IInv
<1> QED BY <1>1, InvHolds, PTL

\* iput() and ialloc(): an inode that has a name or a user is never freed nor handed out
\* again, and an allocated one without links has a user left, whose iput() frees it.
THEOREM FreedOnlyUnreachable ==
  Spec => []FreedWhenUnreachable
<1>1. IInv => FreedWhenUnreachable
  BY DEF IInv
<1> QED BY <1>1, InvHolds, PTL
=============================================================================
