---------------------------- MODULE BcacheProofs ----------------------------
(***************************************************************************)
(* Proofs about the buffer cache and the IDE driver, for any number of     *)
(* processes, buffers and blocks, whatever blocks the disk fails on.  Here *)
(* are the lemmas and the steps of bio.c; IdeProofs has the rest.          *)
(***************************************************************************)
EXTENDS Bcache, TLAPS

\* Time for the provers, and a second try for the first of them
USE SMTT(10), SMTT(30), ZenonT(30)

\* A step of BlockStore, or none.
StoreStep == [Blocks!Next]_(Blocks!vars)

-----------------------------------------------------------------------------
(* The list of buffers *)

\* binit() puts every buffer on the list.
LEMMA InitialListed ==
  ASSUME Init
  PROVE  /\ lru \in [1..NBUF -> Buf]
         /\ \A x \in Buf : \E i \in DOMAIN lru : lru[i] = x
<1>1. lru = [i \in 1..NBUF |-> NBUF + 1 - i] /\ NBUF \in Nat
  BY BcacheConstants DEF Init
<1>2. \A i \in 1..NBUF : NBUF + 1 - i \in 1..NBUF /\ lru[NBUF + 1 - i] = i
  BY <1>1
<1> QED BY <1>1, <1>2 DEF Buf

\* brelse() reorders the list and drops nobody from it.
LEMMA ListKept ==
  ASSUME NEW n \in Nat, NEW s \in [1..n -> Buf], NEW x \in Buf,
         \A y \in Buf : \E i \in 1..n : s[i] = y
  PROVE  /\ MoveToFront(s, x) \in [1..n -> Buf]
         /\ \A y \in Buf : \E i \in 1..n : MoveToFront(s, x)[i] = y
<1> DEFINE k == CHOOSE i \in DOMAIN s : s[i] = x
           t == MoveToFront(s, x)
<1>1. k \in 1..n /\ s[k] = x
  BY Zenon
<1>2. t = [i \in 1..n |-> IF i = 1 THEN x ELSE IF i <= k THEN s[i - 1] ELSE s[i]]
  BY DEF MoveToFront
<1> HIDE DEF k, t
<1>3. t \in [1..n -> Buf]
  BY <1>1, <1>2
<1>4. ASSUME NEW y \in Buf PROVE \E i \in 1..n : t[i] = y
  <2>1. PICK j \in 1..n : s[j] = y
    OBVIOUS
  <2>2. CASE j = k
    BY <1>1, <1>2, <2>1, <2>2
  <2>3. CASE j < k
    <3>1. j + 1 \in 1..n /\ t[j + 1] = y
      BY <1>1, <1>2, <2>1, <2>3
    <3> QED BY <3>1
  <2>4. CASE j > k
    BY <1>1, <1>2, <2>1, <2>4
  <2> QED BY <1>1, <2>2, <2>3, <2>4
<1> QED BY <1>3, <1>4 DEF t

-----------------------------------------------------------------------------
(* The two views *)

\* What the store shows of a block with one buffer, or with none.
LEMMA ContentsAt ==
  ASSUME NEW f, NEW d, NEW b \in Block \ BadBlock,
         \A x, y \in Buf : f[x].blockno = b /\ f[y].blockno = b => x = y
  PROVE  /\ \A x \in Buf : f[x].blockno = b
              => Contents(f, d)[b] = IF f[x].valid THEN f[x].data ELSE d[b]
         /\ (\A x \in Buf : f[x].blockno # b) => Contents(f, d)[b] = d[b]
<1>1. ASSUME NEW x \in Buf, f[x].blockno = b, f[x].valid
      PROVE  Contents(f, d)[b] = f[x].data
  <2> DEFINE y == CHOOSE z \in Buf : f[z].blockno = b /\ f[z].valid
  <2>1. y \in Buf /\ f[y].blockno = b
    BY <1>1, Zenon
  <2>2. y = x
    BY <1>1, <2>1, Zenon
  <2>3. Contents(f, d)[b] = f[y].data
    BY <1>1, Zenon DEF Contents
  <2> QED BY <2>2, <2>3, Zenon
<1>2. ASSUME \A x \in Buf : ~(f[x].blockno = b /\ f[x].valid)
      PROVE  Contents(f, d)[b] = d[b]
  BY <1>2, Zenon DEF Contents
<1>3. ASSUME NEW x \in Buf, f[x].blockno = b, ~f[x].valid
      PROVE  Contents(f, d)[b] = d[b]
  BY <1>2, <1>3, Zenon
<1> QED BY <1>1, <1>2, <1>3, Zenon

\* Owners asked for different blocks, and have different buffers.
LEMMA OwnersApart ==
  CacheInv => \A p, q \in Proc : (Owns(p) /\ Owns(q) /\ want[p] = want[q]) => p = q
<1> SUFFICES ASSUME CacheInv, NEW p \in Proc, NEW q \in Proc, Owns(p), Owns(q), want[p] = want[q]
             PROVE  p = q
  OBVIOUS
<1>1. /\ has[p] \in Buf /\ buf[has[p]].blockno = want[p]
      /\ has[q] \in Buf /\ buf[has[q]].blockno = want[q] /\ want[p] \in Block
  BY DEF CacheInv, ReadsWhatItAsked, Asked, Owns, Owning
<1>2. has[p] = has[q]
  BY <1>1, BcacheConstants DEF CacheInv, OneBufferPerBlock
<1> QED BY <1>2 DEF CacheInv, BusyIsOwned

\* And so in the next state.
LEMMA OwnersApartNext ==
  CacheInv' => (\A p, q \in Proc : (Owns(p) /\ Owns(q) /\ want[p] = want[q]) => p = q)'
BY OwnersApart, PTL

\* The owner that BlockStore sees is the process past bget() that asked.
OwnerIsWhoAsked ==
  \A b \in Block :
    /\ \A p \in Proc : (Owns(p) /\ want[p] = b) => OwnerView[b] = p
    /\ (\A p \in Proc : ~(Owns(p) /\ want[p] = b)) => OwnerView[b] = NoProc

\* The contents that BlockStore sees are the buffer's, or the disk's.
StoreIsCached ==
  \A b \in Block \ BadBlock :
    /\ \A x \in Buf : buf[x].blockno = b
         => StoreView[b] = IF buf[x].valid THEN buf[x].data ELSE disk[b]
    /\ (\A x \in Buf : buf[x].blockno # b) => StoreView[b] = disk[b]

\* Both hold in every state of the invariant.
LEMMA ViewsAre ==
  CacheInv => OwnerIsWhoAsked /\ StoreIsCached
<1> SUFFICES ASSUME CacheInv PROVE OwnerIsWhoAsked /\ StoreIsCached
  OBVIOUS
<1>1. OwnerIsWhoAsked
  <2> SUFFICES ASSUME NEW b \in Block
               PROVE  /\ \A p \in Proc : (Owns(p) /\ want[p] = b) => OwnerView[b] = p
                      /\ (\A p \in Proc : ~(Owns(p) /\ want[p] = b)) => OwnerView[b] = NoProc
    BY DEF OwnerIsWhoAsked
  <2>1. \A p \in Proc : Owns(p) => buf[has[p]].blockno = want[p]
    BY DEF CacheInv, ReadsWhatItAsked, Asked
  <2>2. ASSUME NEW p \in Proc, Owns(p), want[p] = b
        PROVE  OwnerView[b] = p
    <3> DEFINE y == CHOOSE z \in Proc : pc[z] \in Owning /\ buf[has[z]].blockno = b
    <3>1. y \in Proc /\ Owns(y) /\ buf[has[y]].blockno = b
      BY <2>1, <2>2, Zenon DEF Owns
    <3>2. y = p
      BY <2>1, <2>2, <3>1, OwnersApart, Zenon
    <3>3. OwnerView[b] = y
      BY <2>1, <2>2, Zenon DEF OwnerView, Owners, Owns
    <3> QED BY <3>2, <3>3, Zenon
  <2>3. ASSUME \A p \in Proc : ~(Owns(p) /\ want[p] = b)
        PROVE  OwnerView[b] = NoProc
    BY <2>1, <2>3, Zenon DEF OwnerView, Owners, Owns
  <2> QED BY <2>2, <2>3, Zenon
<1>2. StoreIsCached
  <2> SUFFICES ASSUME NEW b \in Block \ BadBlock
               PROVE  /\ \A x \in Buf : buf[x].blockno = b
                           => StoreView[b] = IF buf[x].valid THEN buf[x].data ELSE disk[b]
                      /\ (\A x \in Buf : buf[x].blockno # b) => StoreView[b] = disk[b]
    BY DEF StoreIsCached
  <2>1. \A x, y \in Buf : buf[x].blockno = b /\ buf[y].blockno = b => x = y
    BY BcacheConstants DEF CacheInv, OneBufferPerBlock
  <2>2. /\ \A x \in Buf : buf[x].blockno = b
              => Contents(buf, disk)[b] = IF buf[x].valid THEN buf[x].data ELSE disk[b]
        /\ (\A x \in Buf : buf[x].blockno # b) => Contents(buf, disk)[b] = disk[b]
    BY <2>1, ContentsAt
  <2> QED BY <2>2 DEF StoreView
<1> QED BY <1>1, <1>2

\* And in the next one.
LEMMA ViewsAreNext ==
  CacheInv' => OwnerIsWhoAsked' /\ StoreIsCached'
BY ViewsAre, PTL

\* The owners stay when nobody takes or releases a buffer.
LEMMA OwnersKept ==
  ASSUME CacheInv, CacheInv',
         \A q \in Proc : Owns(q)' <=> Owns(q),
         \A q \in Proc : Owns(q) => want'[q] = want[q]
  PROVE  OwnerView' = OwnerView
<1>1. OwnerIsWhoAsked /\ OwnerIsWhoAsked'
  BY ViewsAre, ViewsAreNext
<1>2. ASSUME NEW b \in Block PROVE OwnerView'[b] = OwnerView[b]
  <2>1. CASE \E p \in Proc : Owns(p) /\ want[p] = b
    BY <1>1, <2>1 DEF OwnerIsWhoAsked
  <2>2. CASE \A p \in Proc : ~(Owns(p) /\ want[p] = b)
    <3>1. \A p \in Proc : ~(Owns(p)' /\ want'[p] = b)
      BY <2>2
    <3> QED BY <1>1, <2>2, <3>1 DEF OwnerIsWhoAsked
  <2> QED BY <2>1, <2>2
<1> QED BY <1>2 DEF OwnerView, Owners

\* A process that gets hold of a buffer acquires its block, if nobody had it.
LEMMA OwnerTaken ==
  ASSUME CacheInv, CacheInv', NEW p \in Proc, want[p] \in Block, want' = want,
         ~Owns(p), Owns(p)', StoreView' = StoreView,
         \A q \in Proc \ {p} : (Owns(q)' <=> Owns(q))
  PROVE  Blocks!Acquire(p, want[p])
<1> DEFINE b == want[p]
<1>1. OwnerIsWhoAsked /\ OwnerIsWhoAsked'
  BY ViewsAre, ViewsAreNext
<1>2. \A q \in Proc : ~(Owns(q) /\ want[q] = b)
  <2>1. \A q \in Proc : (Owns(q)' /\ want'[q] = want'[p]) => q = p
    BY OwnersApartNext
  <2> QED BY <2>1
<1>3. OwnerView[b] = NoProc /\ OwnerView'[b] = p
  BY <1>1, <1>2 DEF OwnerIsWhoAsked
<1>4. ASSUME NEW c \in Block, c # b PROVE OwnerView'[c] = OwnerView[c]
  <2>1. CASE \E q \in Proc : Owns(q) /\ want[q] = c
    BY <1>1, <1>4, <2>1 DEF OwnerIsWhoAsked
  <2>2. CASE \A q \in Proc : ~(Owns(q) /\ want[q] = c)
    <3>1. \A q \in Proc : ~(Owns(q)' /\ want'[q] = c)
      BY <1>4, <2>2
    <3> QED BY <1>1, <2>2, <3>1 DEF OwnerIsWhoAsked
  <2> QED BY <2>1, <2>2
<1>5. OwnerView' = [OwnerView EXCEPT ![b] = p]
  <2>1. DOMAIN OwnerView = Block /\ DOMAIN OwnerView' = Block
    BY DEF OwnerView, Owners
  <2>2. OwnerView = [c \in Block |-> OwnerView[c]] /\ OwnerView' = [c \in Block |-> OwnerView'[c]]
    BY DEF OwnerView, Owners
  <2> QED BY <1>3, <1>4, <2>1, <2>2
<1> QED BY <1>3, <1>5 DEF Blocks!Acquire

\* A process that gives its buffer up releases the block.
LEMMA OwnerLeft ==
  ASSUME CacheInv, CacheInv', NEW p \in Proc, want[p] \in Block,
         Owns(p), ~Owns(p)', StoreView' = StoreView,
         \A q \in Proc \ {p} : (Owns(q)' <=> Owns(q)) /\ want'[q] = want[q]
  PROVE  Blocks!Release(p, want[p])
<1> DEFINE b == want[p]
<1>1. OwnerIsWhoAsked /\ OwnerIsWhoAsked'
  BY ViewsAre, ViewsAreNext
<1>2. \A q \in Proc : ~(Owns(q)' /\ want'[q] = b)
  BY OwnersApart
<1>3. OwnerView[b] = p /\ OwnerView'[b] = NoProc
  BY <1>1, <1>2 DEF OwnerIsWhoAsked
<1>4. ASSUME NEW c \in Block, c # b PROVE OwnerView'[c] = OwnerView[c]
  <2>1. CASE \E q \in Proc : Owns(q) /\ want[q] = c
    BY <1>1, <1>4, <2>1 DEF OwnerIsWhoAsked
  <2>2. CASE \A q \in Proc : ~(Owns(q) /\ want[q] = c)
    <3>1. \A q \in Proc : ~(Owns(q)' /\ want'[q] = c)
      BY <1>4, <2>2
    <3> QED BY <1>1, <2>2, <3>1 DEF OwnerIsWhoAsked
  <2> QED BY <2>1, <2>2
<1>5. OwnerView' = [OwnerView EXCEPT ![b] = NoProc]
  <2>1. DOMAIN OwnerView = Block /\ DOMAIN OwnerView' = Block
    BY DEF OwnerView, Owners
  <2>2. OwnerView = [c \in Block |-> OwnerView[c]] /\ OwnerView' = [c \in Block |-> OwnerView'[c]]
    BY DEF OwnerView, Owners
  <2> QED BY <1>3, <1>4, <2>1, <2>2
<1> QED BY <1>3, <1>5 DEF Blocks!Release

\* The contents stay when no buffer's block, data or B_VALID changes and the
\* disk neither.
LEMMA StoreKept ==
  ASSUME CacheInv, CacheInv', disk' = disk,
         \A x \in Buf : /\ buf'[x].blockno = buf[x].blockno /\ buf'[x].data = buf[x].data
                        /\ buf'[x].valid <=> buf[x].valid
  PROVE  StoreView' = StoreView
<1>1. StoreIsCached /\ StoreIsCached'
  BY ViewsAre, ViewsAreNext
<1>2. ASSUME NEW b \in Block \ BadBlock PROVE StoreView'[b] = StoreView[b]
  <2>1. CASE \E x \in Buf : buf[x].blockno = b
    BY <1>1, <2>1 DEF StoreIsCached
  <2>2. CASE \A x \in Buf : buf[x].blockno # b
    BY <1>1, <2>2 DEF StoreIsCached
  <2> QED BY <2>1, <2>2
<1> QED BY <1>2 DEF StoreView, Contents

-----------------------------------------------------------------------------
(* What the parts of the invariant depend on *)

\* The owners of the busy buffers.
LEMMA BusyKept ==
  ASSUME BusyIsOwned,
         \A x \in Buf : buf'[x].busy <=> buf[x].busy,
         \A q \in Proc : Owns(q)' <=> Owns(q),
         \A q \in Proc : Owns(q) => has'[q] = has[q]
  PROVE  BusyIsOwned'
BY DEF BusyIsOwned

\* The request queue.
LEMMA QueueKept ==
  ASSUME IoIsQueued, idequeue \in Seq(Buf), UNCHANGED <<idequeue, cmd, ide, disk>>,
         \A q \in Proc : pc'[q] = "iosleep" <=> pc[q] = "iosleep",
         \A q \in Proc : pc[q] = "iosleep" => /\ has'[q] = has[q]
                                              /\ buf'[has[q]] = buf[has[q]]
  PROVE  IoIsQueued'
<1>1. idequeue # <<>> => /\ 1 \in DOMAIN idequeue /\ Head(idequeue) = idequeue[1]
  OBVIOUS
<1>2. idequeue # <<>> => idestart(Head(idequeue))' = idestart(Head(idequeue))
  BY <1>1 DEF IoIsQueued, idestart
<1>3. /\ \A q \in Proc : pc'[q] = "iosleep" => has'[q] \in Range(idequeue)'
      /\ \A i \in DOMAIN idequeue : \E q \in Proc : pc'[q] = "iosleep" /\ has'[q] = idequeue[i]
  BY DEF IoIsQueued
<1> QED BY <1>2, <1>3 DEF IoIsQueued

\* The sleepers of bget().
LEMMA SleepersKept ==
  ASSUME BgetSleeperHasWaker,
         \A q \in Proc : pc'[q] = "bsleep" => pc[q] = "bsleep" /\ has'[q] = has[q],
         \A q \in Proc : Owns(q) => Owns(q)' /\ has'[q] = has[q]
  PROVE  BgetSleeperHasWaker'
BY DEF BgetSleeperHasWaker

\* What a process asked for, when it stays where it is or wakes in bget().
LEMMA AskedKept ==
  ASSUME ReadsWhatItAsked, NEW q \in Proc,
         pc'[q] = pc[q] \/ (pc[q] = "bsleep" /\ pc'[q] = "bget"),
         has'[q] = has[q], want'[q] = want[q],
         Owns(q) => buf'[has[q]] = buf[has[q]]
  PROVE  Asked(q)'
BY DEF ReadsWhatItAsked, Asked, Owns, Owning

\* The places of a process.
Places == {"idle", "bget", "bsleep", "iderw", "iosleep", "iotest", "hold"}

\* What a buffer's header and data may be.
BufType == [blockno : Block \cup {NoBlock}, busy : BOOLEAN, valid : BOOLEAN,
            dirty : BOOLEAN, data : Val]

\* One buffer is changed.
LEMMA BufferChanged ==
  ASSUME buf \in [Buf -> BufType], NEW x \in Buf, NEW r \in BufType,
         buf' = [buf EXCEPT ![x] = r]
  PROVE  /\ buf' \in [Buf -> BufType] /\ buf'[x] = r
         /\ \A y \in Buf \ {x} : buf'[y] = buf[y]
OBVIOUS

-----------------------------------------------------------------------------
(* bget() *)

\* A process calls bread().
LEMMA BreadStep ==
  ASSUME CacheInv, NEW p \in Proc, NEW b \in Block, bread(p, b)
  PROVE  CacheInv' /\ StoreStep
<1> USE DEF CacheInv
<1>0. /\ pc \in [Proc -> Places] /\ want \in [Proc -> Block \cup {NoBlock}]
      /\ idequeue \in Seq(Buf)
      /\ UNCHANGED <<buf, lru, idequeue, cmd, ide, disk, has, panicked>>
  BY DEF TypeOK, Places, bread, ideVars
<1>1. /\ pc[p] = "idle" /\ pc'[p] = "bget" /\ want'[p] = b
      /\ \A q \in Proc \ {p} : pc'[q] = pc[q] /\ want'[q] = want[q]
  BY <1>0 DEF bread
<1>2. \A q \in Proc : /\ Owns(q)' <=> Owns(q)
                      /\ Owns(q) => want'[q] = want[q]
                      /\ pc'[q] = "iosleep" <=> pc[q] = "iosleep"
  BY <1>1 DEF Owns, Owning
<1>3. TypeOK'
  BY <1>0 DEF TypeOK, bread
<1>4. BuffersSound' /\ OneBufferPerBlock' /\ CleanMatchesDisk'
  BY <1>0 DEF BuffersSound, OneBufferPerBlock, CleanMatchesDisk
<1>5. BusyIsOwned' /\ IoIsQueued'
  BY <1>0, <1>2, BusyKept, QueueKept
<1>6. ReadsWhatItAsked'
  BY <1>0, <1>1, <1>2 DEF ReadsWhatItAsked, Asked, Owns, Owning
<1>7. BgetSleeperHasWaker'
  BY <1>0, <1>1, <1>2, SleepersKept
<1>8. CacheInv'
  BY <1>3, <1>4, <1>5, <1>6, <1>7
<1>9. OwnerView' = OwnerView /\ StoreView' = StoreView
  BY <1>0, <1>2, <1>8, OwnersKept, StoreKept
<1> QED BY <1>8, <1>9 DEF StoreStep, Blocks!vars

\* bget() finds the block's buffer free and takes it.
LEMMA BgetHitStep ==
  ASSUME CacheInv, NEW p \in Proc, bget_hit(p)
  PROVE  CacheInv' /\ StoreStep
<1> USE DEF CacheInv
<1>0. /\ pc \in [Proc -> Places] /\ has \in [Proc -> Buf \cup {NoBuf}] /\ buf \in [Buf -> BufType]
      /\ idequeue \in Seq(Buf) /\ pc[p] = "bget"
      /\ UNCHANGED <<lru, idequeue, cmd, ide, disk, want, panicked>>
  BY DEF TypeOK, Places, BufType, bget_hit, ideVars
<1>1. PICK x \in Buf : /\ buf[x].blockno = want[p] /\ ~buf[x].busy
                       /\ buf' = [buf EXCEPT ![x].busy = TRUE]
                       /\ has' = [has EXCEPT ![p] = x]
                       /\ pc' = [pc EXCEPT ![p] = IF buf[x].valid THEN "hold" ELSE "iderw"]
  BY Zenon DEF bget_hit, Cached
<1>2. /\ has'[p] = x /\ \A q \in Proc \ {p} : pc'[q] = pc[q] /\ has'[q] = has[q]
      /\ pc'[p] = IF buf[x].valid THEN "hold" ELSE "iderw"
  BY <1>0, <1>1
<1>3. /\ buf'[x].busy /\ \A y \in Buf \ {x} : buf'[y] = buf[y]
      /\ \A y \in Buf : /\ buf'[y].blockno = buf[y].blockno /\ buf'[y].data = buf[y].data
                        /\ buf'[y].valid <=> buf[y].valid
                        /\ buf'[y].dirty <=> buf[y].dirty
      /\ buf' \in [Buf -> BufType]
  <2> DEFINE r == [buf[x] EXCEPT !.busy = TRUE]
  <2>1. buf[x] \in BufType /\ r \in BufType
    BY <1>0, Zenon DEF BufType
  <2>2. /\ r.busy /\ r.blockno = buf[x].blockno /\ r.data = buf[x].data
        /\ r.valid <=> buf[x].valid
        /\ r.dirty <=> buf[x].dirty
    BY <2>1 DEF BufType
  <2>3. buf' = [buf EXCEPT ![x] = r]
    BY <1>1, Zenon
  <2> HIDE DEF r
  <2>4. buf' \in [Buf -> BufType] /\ buf'[x] = r /\ \A y \in Buf \ {x} : buf'[y] = buf[y]
    BY <1>0, <2>1, <2>3, BufferChanged
  <2> QED BY <2>2, <2>4
<1>4. want[p] \in Block /\ ~Owns(p) /\ Owns(p)'
  BY <1>0, <1>2 DEF ReadsWhatItAsked, Asked, Owns, Owning
<1>5. \A q \in Proc \ {p} : (Owns(q)' <=> Owns(q)) /\ (Owns(q) => has[q] # x)
  BY <1>1, <1>2 DEF Owns, BusyIsOwned
<1>6. TypeOK'
  <2>1. pc' \in [Proc -> Places] /\ has' \in [Proc -> Buf \cup {NoBuf}]
    BY <1>0, <1>1 DEF Places
  <2> QED BY <1>0, <1>3, <2>1 DEF TypeOK, Places, BufType
<1>7. BuffersSound' /\ OneBufferPerBlock' /\ CleanMatchesDisk'
  BY <1>0, <1>3 DEF BuffersSound, OneBufferPerBlock, CleanMatchesDisk
<1>8. BusyIsOwned'
  <2>1. \A q, r \in Proc : (Owns(q)' /\ Owns(r)' /\ has'[q] = has'[r]) => q = r
    BY <1>2, <1>5 DEF BusyIsOwned
  <2>2. \A y \in Buf : buf'[y].busy <=> \E q \in Proc : Owns(q)' /\ has'[q] = y
    BY <1>2, <1>3, <1>4, <1>5 DEF BusyIsOwned
  <2> QED BY <2>1, <2>2 DEF BusyIsOwned
<1>9. IoIsQueued'
  <2>1. \A q \in Proc : /\ pc'[q] = "iosleep" <=> pc[q] = "iosleep"
                        /\ pc[q] = "iosleep" => q # p /\ Owns(q) /\ has[q] \in Buf
    BY <1>0, <1>2 DEF Owns, Owning, ReadsWhatItAsked, Asked
  <2>2. \A q \in Proc : pc[q] = "iosleep" => has'[q] = has[q] /\ buf'[has[q]] = buf[has[q]]
    BY <1>2, <1>3, <1>5, <2>1
  <2> QED BY <1>0, <2>1, <2>2, QueueKept
<1>10. ReadsWhatItAsked'
  <2>1. \A q \in Proc \ {p} : Owns(q) => buf'[has[q]] = buf[has[q]]
    BY <1>3, <1>5 DEF ReadsWhatItAsked, Asked
  <2>2. \A q \in Proc \ {p} : Asked(q)'
    BY <1>0, <1>2, <2>1, AskedKept
  <2>3. Asked(p)'
    BY <1>0, <1>1, <1>2, <1>3, <1>4 DEF Asked, Owns
  <2> QED BY <2>2, <2>3 DEF ReadsWhatItAsked
<1>11. BgetSleeperHasWaker'
  BY <1>2, <1>4, <1>5, SleepersKept
<1>12. CacheInv'
  BY <1>6, <1>7, <1>8, <1>9, <1>10, <1>11
<1>13. StoreView' = StoreView
  BY <1>0, <1>3, <1>12, StoreKept
<1>14. Blocks!Acquire(p, want[p])
  BY <1>0, <1>4, <1>5, <1>12, <1>13, OwnerTaken
<1> QED BY <1>4, <1>12, <1>14 DEF StoreStep, Blocks!Next

\* The block is cached and somebody has it: the process sleeps, and that
\* somebody will wake it.
LEMMA BgetSleepStep ==
  ASSUME CacheInv, NEW p \in Proc, bget_sleep(p)
  PROVE  CacheInv' /\ StoreStep
<1> USE DEF CacheInv
<1>0. /\ pc \in [Proc -> Places] /\ has \in [Proc -> Buf \cup {NoBuf}]
      /\ idequeue \in Seq(Buf) /\ pc[p] = "bget"
      /\ UNCHANGED <<buf, lru, idequeue, cmd, ide, disk, want, panicked>>
  BY DEF TypeOK, Places, bget_sleep, ideVars
<1>1. PICK x \in Buf : /\ buf[x].blockno = want[p] /\ buf[x].busy
                       /\ has' = [has EXCEPT ![p] = x]
                       /\ pc' = [pc EXCEPT ![p] = "bsleep"]
  BY Zenon DEF bget_sleep, Cached
<1>2. /\ has'[p] = x /\ pc'[p] = "bsleep"
      /\ \A q \in Proc \ {p} : pc'[q] = pc[q] /\ has'[q] = has[q]
  BY <1>0, <1>1
<1>3. \A q \in Proc : /\ Owns(q)' <=> Owns(q)
                      /\ Owns(q) => q # p /\ has'[q] = has[q] /\ want'[q] = want[q]
                      /\ pc'[q] = "iosleep" <=> pc[q] = "iosleep"
                      /\ pc[q] = "iosleep" => has'[q] = has[q] /\ buf'[has[q]] = buf[has[q]]
  BY <1>0, <1>2 DEF Owns, Owning
<1>4. TypeOK'
  BY <1>0, <1>1 DEF TypeOK
<1>5. BuffersSound' /\ OneBufferPerBlock' /\ CleanMatchesDisk'
  BY <1>0 DEF BuffersSound, OneBufferPerBlock, CleanMatchesDisk
<1>6. BusyIsOwned' /\ IoIsQueued'
  BY <1>0, <1>3, BusyKept, QueueKept
<1>7. ReadsWhatItAsked'
  BY <1>0, <1>2, <1>3 DEF ReadsWhatItAsked, Asked, Owns, Owning
<1>8. BgetSleeperHasWaker'
  <2>1. \E q \in Proc \ {p} : Owns(q)' /\ has'[q] = x
    BY <1>1, <1>3 DEF BusyIsOwned
  <2>2. ASSUME NEW r \in Proc \ {p}, pc'[r] = "bsleep"
        PROVE  \E q \in Proc \ {r} : Owns(q)' /\ has'[q] = has'[r]
    BY <1>2, <1>3, <2>2 DEF BgetSleeperHasWaker
  <2> QED BY <1>2, <2>1, <2>2 DEF BgetSleeperHasWaker
<1>9. CacheInv'
  BY <1>4, <1>5, <1>6, <1>7, <1>8
<1>10. OwnerView' = OwnerView /\ StoreView' = StoreView
  BY <1>0, <1>3, <1>9, OwnersKept, StoreKept
<1> QED BY <1>9, <1>10 DEF StoreStep, Blocks!vars

\* The block is not cached: a clean free buffer takes it on, and what that buffer
\* held of its old block is on the disk.
LEMMA BgetRecycleStep ==
  ASSUME CacheInv, NEW p \in Proc, bget_recycle(p)
  PROVE  CacheInv' /\ StoreStep
<1> USE DEF CacheInv
<1>0. /\ pc \in [Proc -> Places] /\ has \in [Proc -> Buf \cup {NoBuf}] /\ buf \in [Buf -> BufType]
      /\ idequeue \in Seq(Buf) /\ pc[p] = "bget"
      /\ UNCHANGED <<lru, idequeue, cmd, ide, disk, want, panicked>>
      /\ \A y \in Buf : buf[y].blockno # want[p]
      /\ want[p] \in Block
  BY DEF TypeOK, Places, BufType, bget_recycle, ideVars, Cached, ReadsWhatItAsked, Asked
<1>1. PICK x \in Buf :
        /\ Victim(x)
        /\ buf' = [buf EXCEPT ![x] = [@ EXCEPT !.blockno = want[p],
                             !.busy = TRUE, !.valid = FALSE, !.dirty = FALSE]]
        /\ has' = [has EXCEPT ![p] = x]
        /\ pc' = [pc EXCEPT ![p] = "iderw"]
  BY Zenon DEF bget_recycle
<1>2. ~buf[x].busy /\ ~buf[x].dirty
  BY <1>1 DEF Victim, Reusable
<1>3. /\ has'[p] = x /\ pc'[p] = "iderw"
      /\ \A q \in Proc \ {p} : pc'[q] = pc[q] /\ has'[q] = has[q]
  BY <1>0, <1>1
<1>4. /\ buf'[x].busy /\ ~buf'[x].valid /\ ~buf'[x].dirty /\ buf'[x].blockno = want[p]
      /\ \A y \in Buf \ {x} : buf'[y] = buf[y]
      /\ buf' \in [Buf -> BufType]
  <2> DEFINE r == [buf[x] EXCEPT !.blockno = want[p], !.busy = TRUE, !.valid = FALSE, !.dirty = FALSE]
  <2>1. buf[x] \in BufType /\ r \in BufType
    BY <1>0, Zenon DEF BufType
  <2>2. r.busy /\ ~r.valid /\ ~r.dirty /\ r.blockno = want[p]
    BY <2>1 DEF BufType
  <2>3. buf' = [buf EXCEPT ![x] = r]
    BY <1>1, Zenon
  <2> HIDE DEF r
  <2>4. buf' \in [Buf -> BufType] /\ buf'[x] = r /\ \A y \in Buf \ {x} : buf'[y] = buf[y]
    BY <1>0, <2>1, <2>3, BufferChanged
  <2> QED BY <2>2, <2>4
<1>5. ~Owns(p) /\ Owns(p)'
  BY <1>0, <1>3 DEF Owns, Owning
<1>6. \A q \in Proc \ {p} : (Owns(q)' <=> Owns(q)) /\ (Owns(q) => has[q] # x)
  BY <1>2, <1>3 DEF Owns, BusyIsOwned
<1>7. TypeOK'
  <2>1. pc' \in [Proc -> Places] /\ has' \in [Proc -> Buf \cup {NoBuf}]
    BY <1>0, <1>1 DEF Places
  <2> QED BY <1>0, <1>4, <2>1 DEF TypeOK, Places, BufType
<1>8. BuffersSound' /\ OneBufferPerBlock' /\ CleanMatchesDisk'
  BY <1>0, <1>4 DEF BuffersSound, OneBufferPerBlock, CleanMatchesDisk
<1>9. BusyIsOwned'
  <2>1. \A q, r \in Proc : (Owns(q)' /\ Owns(r)' /\ has'[q] = has'[r]) => q = r
    BY <1>3, <1>6 DEF BusyIsOwned
  <2>2. \A y \in Buf : buf'[y].busy <=> \E q \in Proc : Owns(q)' /\ has'[q] = y
    BY <1>3, <1>4, <1>5, <1>6 DEF BusyIsOwned
  <2> QED BY <2>1, <2>2 DEF BusyIsOwned
<1>10. IoIsQueued'
  <2>1. \A q \in Proc : /\ pc'[q] = "iosleep" <=> pc[q] = "iosleep"
                        /\ pc[q] = "iosleep" => q # p /\ Owns(q) /\ has[q] \in Buf
    BY <1>0, <1>3 DEF Owns, Owning, ReadsWhatItAsked, Asked
  <2>2. \A q \in Proc : pc[q] = "iosleep" => has'[q] = has[q] /\ buf'[has[q]] = buf[has[q]]
    BY <1>3, <1>4, <1>6, <2>1
  <2> QED BY <1>0, <2>1, <2>2, QueueKept
<1>11. ReadsWhatItAsked'
  <2>1. \A q \in Proc \ {p} : Owns(q) => buf'[has[q]] = buf[has[q]]
    BY <1>4, <1>6 DEF ReadsWhatItAsked, Asked
  <2>2. \A q \in Proc \ {p} : Asked(q)'
    BY <1>0, <1>3, <2>1, AskedKept
  <2>3. Asked(p)'
    BY <1>0, <1>3, <1>4 DEF Asked, Owns
  <2> QED BY <2>2, <2>3 DEF ReadsWhatItAsked
<1>12. BgetSleeperHasWaker'
  BY <1>3, <1>5, <1>6, SleepersKept
<1>13. CacheInv'
  BY <1>7, <1>8, <1>9, <1>10, <1>11, <1>12
<1>14. StoreView' = StoreView
  <2>1. StoreIsCached /\ StoreIsCached'
    BY <1>13, ViewsAre, ViewsAreNext
  <2>2. ASSUME NEW b \in Block \ BadBlock PROVE StoreView'[b] = StoreView[b]
    <3>1. CASE b = want[p]
      BY <1>0, <1>1, <1>4, <2>1, <3>1 DEF StoreIsCached
    <3>2. CASE b = buf[x].blockno
      <4>1. StoreView[b] = disk[b]
        BY <1>2, <2>1, <3>2 DEF StoreIsCached, CleanMatchesDisk
      <4>2. \A y \in Buf : buf'[y].blockno # b
        BY <1>0, <1>1, <1>4, <3>2, BcacheConstants DEF OneBufferPerBlock
      <4> QED BY <1>0, <2>1, <4>1, <4>2 DEF StoreIsCached
    <3>3. CASE b # want[p] /\ b # buf[x].blockno
      <4>1. \A y \in Buf : buf'[y].blockno = b <=> y # x /\ buf[y].blockno = b
        BY <1>1, <1>4, <3>3
      <4>2. CASE \E y \in Buf : y # x /\ buf[y].blockno = b
        BY <1>0, <1>4, <2>1, <4>1, <4>2 DEF StoreIsCached
      <4>3. CASE \A y \in Buf : y = x \/ buf[y].blockno # b
        BY <1>0, <2>1, <3>3, <4>1, <4>3 DEF StoreIsCached
      <4> QED BY <4>2, <4>3
    <3> QED BY <3>1, <3>2, <3>3
  <2> QED BY <2>2 DEF StoreView, Contents
<1>15. Blocks!Acquire(p, want[p])
  BY <1>0, <1>5, <1>6, <1>13, <1>14, OwnerTaken
<1> QED BY <1>0, <1>13, <1>15 DEF StoreStep, Blocks!Next

\* bget() finds no buffer: the machine stops.
LEMMA BgetPanicStep ==
  ASSUME CacheInv, NEW p \in Proc, bget_panic(p)
  PROVE  CacheInv' /\ StoreStep
<1>0. UNCHANGED <<buf, lru, idequeue, cmd, ide, disk, pc, want, has>> /\ panicked' = TRUE
  BY DEF bget_panic, ideVars
<1>1. CacheInv'
  <2>1. TypeOK'
    BY <1>0 DEF CacheInv, TypeOK
  <2>2. \A q \in Proc : Owns(q)' <=> Owns(q)
    BY <1>0 DEF Owns
  <2>3. BuffersSound'
    BY <1>0 DEF CacheInv, BuffersSound
  <2>4. OneBufferPerBlock'
    BY <1>0 DEF CacheInv, OneBufferPerBlock
  <2>5. CleanMatchesDisk'
    BY <1>0 DEF CacheInv, CleanMatchesDisk
  <2>6. BusyIsOwned'
    BY <1>0, <2>2 DEF CacheInv, BusyIsOwned
  <2>7. IoIsQueued'
    BY <1>0, Zenon DEF CacheInv, IoIsQueued, idestart
  <2>8. ReadsWhatItAsked'
    BY <1>0, <2>2 DEF CacheInv, ReadsWhatItAsked, Asked
  <2>9. BgetSleeperHasWaker'
    BY <1>0, <2>2 DEF CacheInv, BgetSleeperHasWaker
  <2> QED BY <2>1, <2>3, <2>4, <2>5, <2>6, <2>7, <2>8, <2>9 DEF CacheInv
<1>2. OwnerView' = OwnerView /\ StoreView' = StoreView
  BY <1>0 DEF OwnerView, StoreView
<1> QED BY <1>1, <1>2 DEF StoreStep, Blocks!vars

-----------------------------------------------------------------------------
(* The owner of a buffer *)

\* The owner changes the data and sets B_DIRTY; it keeps the buffer, or goes on
\* to iderw() with it.
Modify(p, v) ==
  /\ pc[p] = "hold"
  /\ buf' = [buf EXCEPT ![has[p]].data = v, ![has[p]].dirty = TRUE]
  /\ pc' = [pc EXCEPT ![p] = "hold"] \/ pc' = [pc EXCEPT ![p] = "iderw"]
  /\ UNCHANGED <<lru, idequeue, cmd, ide, disk, want, has, panicked>>

\* That is a write of its block, or nothing if the disk may fail on it.
LEMMA ModifyStep ==
  ASSUME CacheInv, NEW p \in Proc, NEW v \in Val, Modify(p, v)
  PROVE  CacheInv' /\ StoreStep
<1> USE DEF CacheInv
<1> DEFINE x == has[p]
<1>0. /\ pc \in [Proc -> Places] /\ buf \in [Buf -> BufType] /\ idequeue \in Seq(Buf)
      /\ pc[p] = "hold"
      /\ UNCHANGED <<lru, idequeue, cmd, ide, disk, want, has, panicked>>
  BY DEF TypeOK, Places, BufType, Modify
<1>1. x \in Buf /\ buf[x].blockno = want[p] /\ buf[x].valid /\ want[p] \in Block /\ Owns(p)
  BY <1>0 DEF ReadsWhatItAsked, Asked, Owns, Owning
<1>2. pc'[p] \in {"hold", "iderw"} /\ \A q \in Proc \ {p} : pc'[q] = pc[q]
  BY <1>0 DEF Modify
<1> HIDE DEF x
<1>3. /\ buf'[x].data = v /\ buf'[x].dirty /\ \A y \in Buf \ {x} : buf'[y] = buf[y]
      /\ \A y \in Buf : /\ buf'[y].blockno = buf[y].blockno
                        /\ buf'[y].valid <=> buf[y].valid
                        /\ buf'[y].busy <=> buf[y].busy
      /\ buf' \in [Buf -> BufType]
  <2> DEFINE r == [buf[x] EXCEPT !.data = v, !.dirty = TRUE]
  <2>1. buf[x] \in BufType /\ r \in BufType
    BY <1>0, <1>1, Zenon DEF BufType
  <2>2. /\ r.data = v /\ r.dirty /\ r.blockno = buf[x].blockno
        /\ r.valid <=> buf[x].valid
        /\ r.busy <=> buf[x].busy
    BY <2>1 DEF BufType
  <2>3. buf' = [buf EXCEPT ![x] = r]
    BY <1>0, <1>1, Zenon DEF Modify, x
  <2> HIDE DEF r
  <2>4. buf' \in [Buf -> BufType] /\ buf'[x] = r /\ \A y \in Buf \ {x} : buf'[y] = buf[y]
    BY <1>0, <1>1, <2>1, <2>3, BufferChanged, Zenon
  <2> QED BY <2>2, <2>4
<1>4. \A q \in Proc : Owns(q)' <=> Owns(q)
  BY <1>1, <1>2 DEF Owns, Owning
<1>5. \A q \in Proc \ {p} : Owns(q) => has[q] \in Buf /\ has[q] # x
  BY <1>1 DEF BusyIsOwned, ReadsWhatItAsked, Asked, x
<1>6. TypeOK'
  <2>1. pc' \in [Proc -> Places]
    BY <1>0 DEF Places, Modify
  <2> QED BY <1>0, <1>3, <2>1 DEF TypeOK, Places, BufType
<1>7. BuffersSound' /\ OneBufferPerBlock' /\ CleanMatchesDisk'
  <2>1. BuffersSound'
    BY <1>0, <1>1, <1>3 DEF BuffersSound
  <2>2. OneBufferPerBlock'
    BY <1>3 DEF OneBufferPerBlock
  <2>3. CleanMatchesDisk'
    BY <1>0, <1>3 DEF CleanMatchesDisk
  <2> QED BY <2>1, <2>2, <2>3
<1>8. BusyIsOwned'
  BY <1>0, <1>3, <1>4, BusyKept
<1>9. IoIsQueued'
  <2>1. \A q \in Proc : pc'[q] = "iosleep" <=> pc[q] = "iosleep"
    BY <1>0, <1>2
  <2>2. \A q \in Proc : pc[q] = "iosleep" => has'[q] = has[q] /\ buf'[has[q]] = buf[has[q]]
    BY <1>0, <1>2, <1>3, <1>5 DEF Owns, Owning
  <2> QED BY <1>0, <2>1, <2>2, QueueKept
<1>10. ReadsWhatItAsked'
  <2>1. \A q \in Proc \ {p} : Owns(q) => buf'[has[q]] = buf[has[q]]
    BY <1>3, <1>5
  <2>2. \A q \in Proc \ {p} : Asked(q)'
    BY <1>0, <1>2, <2>1, AskedKept
  <2>3. Asked(p)'
    BY <1>0, <1>1, <1>2, <1>3 DEF Asked, x
  <2> QED BY <2>2, <2>3 DEF ReadsWhatItAsked
<1>11. BgetSleeperHasWaker'
  BY <1>0, <1>2, <1>4, SleepersKept
<1>12. CacheInv'
  BY <1>6, <1>7, <1>8, <1>9, <1>10, <1>11
<1>13. OwnerView' = OwnerView /\ OwnerView[want[p]] = p
  BY <1>0, <1>1, <1>4, <1>12, OwnersKept, ViewsAre DEF OwnerIsWhoAsked
<1>14. \A b \in Block \ BadBlock : StoreView'[b] = IF b = want[p] THEN v ELSE StoreView[b]
  <2>1. StoreIsCached /\ StoreIsCached'
    BY <1>12, ViewsAre, ViewsAreNext
  <2>2. ASSUME NEW b \in Block \ BadBlock
        PROVE  StoreView'[b] = IF b = want[p] THEN v ELSE StoreView[b]
    <3>1. CASE b = want[p]
      BY <1>1, <1>3, <2>1, <3>1 DEF StoreIsCached
    <3>2. ASSUME b # want[p], NEW y \in Buf, buf[y].blockno = b
          PROVE  StoreView'[b] = StoreView[b]
      <4>1. buf'[y] = buf[y]
        BY <1>1, <1>3, <3>2
      <4> QED BY <1>0, <2>1, <3>2, <4>1 DEF StoreIsCached
    <3>3. CASE b # want[p] /\ \A y \in Buf : buf[y].blockno # b
      BY <1>0, <1>3, <2>1, <3>3 DEF StoreIsCached
    <3> QED BY <3>1, <3>2, <3>3
  <2> QED BY <2>2
<1>15. /\ DOMAIN StoreView = Block \ BadBlock
       /\ StoreView = [b \in Block \ BadBlock |-> StoreView[b]]
       /\ StoreView' = [b \in Block \ BadBlock |-> StoreView'[b]]
  BY Zenon DEF StoreView, Contents
<1>16. CASE want[p] \in BadBlock
  <2>1. StoreView' = StoreView
    BY <1>14, <1>15, <1>16
  <2> QED BY <1>12, <1>13, <2>1, Zenon DEF StoreStep, Blocks!vars
<1>17. CASE want[p] \notin BadBlock
  <2>1. StoreView' = [StoreView EXCEPT ![want[p]] = v]
    BY <1>1, <1>14, <1>15, <1>17
  <2>2. Blocks!Write(p, want[p], v)
    BY <1>13, <1>17, <2>1 DEF Blocks!Write
  <2> QED BY <1>1, <1>12, <2>2 DEF StoreStep, Blocks!Next
<1> QED BY <1>16, <1>17

\* bwrite(), up to its call of iderw().
LEMMA BwriteStep ==
  ASSUME CacheInv, NEW p \in Proc, NEW v \in Val, bwrite(p, v)
  PROVE  CacheInv' /\ StoreStep
BY ModifyStep, Zenon DEF bwrite, Modify, ideVars

\* log_write()'s pin.
LEMMA PinStep ==
  ASSUME CacheInv, NEW p \in Proc, NEW v \in Val, Pin(p, v)
  PROVE  CacheInv' /\ StoreStep
<1>1. pc' = [pc EXCEPT ![p] = "hold"]
  BY DEF Pin, CacheInv, TypeOK
<1> QED BY <1>1, ModifyStep, Zenon DEF Pin, Modify, ideVars

\* brelse(): the sleepers of bget() on this buffer wake, and no other process
\* sleeps on it.
LEMMA BrelseStep ==
  ASSUME CacheInv, NEW p \in Proc, brelse(p)
  PROVE  CacheInv' /\ StoreStep
<1> USE DEF CacheInv
<1> DEFINE x == has[p]
<1>0. /\ pc \in [Proc -> Places] /\ buf \in [Buf -> BufType] /\ idequeue \in Seq(Buf)
      /\ has \in [Proc -> Buf \cup {NoBuf}] /\ want \in [Proc -> Block \cup {NoBlock}]
      /\ lru \in [1..NBUF -> Buf]
      /\ pc[p] = "hold" /\ buf' = [buf EXCEPT ![x].busy = FALSE]
      /\ lru' = MoveToFront(lru, x)
      /\ UNCHANGED <<idequeue, cmd, ide, disk, panicked>>
  BY DEF TypeOK, Places, BufType, brelse, ideVars
<1>1. x \in Buf /\ buf[x].blockno = want[p] /\ want[p] \in Block /\ Owns(p)
  BY <1>0 DEF ReadsWhatItAsked, Asked, Owns, Owning
<1>2. \A q \in Proc \ {p} : Owns(q) => has[q] \in Buf /\ has[q] # x
  BY <1>1 DEF BusyIsOwned, ReadsWhatItAsked, Asked
<1>3. /\ pc' \in [Proc -> Places] /\ pc'[p] = "idle"
      /\ \A q \in Proc \ {p} :
           pc'[q] = IF pc[q] = "bsleep" /\ has[q] = x THEN "bget" ELSE pc[q]
  <2>1. \A q \in Proc \ {p} : ~(pc[q] = "iosleep" /\ has[q] = x)
    BY <1>2 DEF Owns, Owning
  <2>2. pc' = [q \in Proc |->
                 CASE [pc EXCEPT ![p] = "idle"][q] = "bsleep" /\ has[q] = x -> "bget"
                   [] [pc EXCEPT ![p] = "idle"][q] = "iosleep" /\ has[q] = x -> "iotest"
                   [] OTHER -> [pc EXCEPT ![p] = "idle"][q]]
    BY DEF brelse, WakeAll
  <2>3. pc'[p] = "idle"
    BY <1>0, <2>2
  <2>4. ASSUME NEW q \in Proc \ {p}
        PROVE  pc'[q] = IF pc[q] = "bsleep" /\ has[q] = x THEN "bget" ELSE pc[q]
    BY <1>0, <2>1, <2>2
  <2>5. ASSUME NEW q \in Proc PROVE pc'[q] \in Places
    BY <1>0, <2>3, <2>4 DEF Places
  <2> QED BY <2>2, <2>3, <2>4, <2>5
<1>4. /\ has'[p] = NoBuf /\ want'[p] = NoBlock
      /\ \A q \in Proc \ {p} : has'[q] = has[q] /\ want'[q] = want[q]
      /\ has' \in [Proc -> Buf \cup {NoBuf}] /\ want' \in [Proc -> Block \cup {NoBlock}]
  BY <1>0 DEF brelse
<1> HIDE DEF x
<1>5. /\ ~buf'[x].busy /\ \A y \in Buf \ {x} : buf'[y] = buf[y]
      /\ \A y \in Buf : /\ buf'[y].blockno = buf[y].blockno /\ buf'[y].data = buf[y].data
                        /\ buf'[y].valid <=> buf[y].valid
                        /\ buf'[y].dirty <=> buf[y].dirty
      /\ buf' \in [Buf -> BufType]
  <2> DEFINE r == [buf[x] EXCEPT !.busy = FALSE]
  <2>1. buf[x] \in BufType /\ r \in BufType
    BY <1>0, <1>1, Zenon DEF BufType
  <2>2. /\ ~r.busy /\ r.blockno = buf[x].blockno /\ r.data = buf[x].data
        /\ r.valid <=> buf[x].valid
        /\ r.dirty <=> buf[x].dirty
    BY <2>1 DEF BufType
  <2>3. buf' = [buf EXCEPT ![x] = r]
    BY <1>0, Zenon
  <2> HIDE DEF r
  <2>4. buf' \in [Buf -> BufType] /\ buf'[x] = r /\ \A y \in Buf \ {x} : buf'[y] = buf[y]
    BY <1>0, <1>1, <2>1, <2>3, BufferChanged, Zenon
  <2> QED BY <2>2, <2>4
<1>6. /\ lru' \in [1..NBUF -> Buf]
      /\ \A y \in Buf : \E i \in DOMAIN lru' : lru'[i] = y
  <2>1. NBUF \in Nat
    BY BcacheConstants
  <2>2. \A y \in Buf : \E i \in 1..NBUF : lru[i] = y
    BY <1>0 DEF BuffersSound
  <2>3. /\ lru' \in [1..NBUF -> Buf]
        /\ \A y \in Buf : \E i \in 1..NBUF : lru'[i] = y
    BY <1>0, <1>1, <2>1, <2>2, ListKept, Zenon
  <2> QED BY <2>3
<1>7. ~Owns(p)' /\ \A q \in Proc \ {p} : Owns(q)' <=> Owns(q)
  BY <1>3 DEF Owns, Owning
<1>8. TypeOK'
  BY <1>0, <1>3, <1>4, <1>5, <1>6 DEF TypeOK, Places, BufType
<1>9. BuffersSound' /\ OneBufferPerBlock' /\ CleanMatchesDisk'
  <2>1. BuffersSound'
    BY <1>5, <1>6 DEF BuffersSound
  <2>2. OneBufferPerBlock' /\ CleanMatchesDisk'
    BY <1>0, <1>5 DEF OneBufferPerBlock, CleanMatchesDisk
  <2> QED BY <2>1, <2>2
<1>10. BusyIsOwned'
  <2>1. \A q, r \in Proc : (Owns(q)' /\ Owns(r)' /\ has'[q] = has'[r]) => q = r
    BY <1>4, <1>7 DEF BusyIsOwned
  <2>2. ASSUME NEW y \in Buf
        PROVE  buf'[y].busy <=> \E q \in Proc : Owns(q)' /\ has'[q] = y
    <3>1. CASE y = x
      BY <1>2, <1>4, <1>5, <1>7, <3>1
    <3>2. CASE y # x
      <4>1. buf'[y].busy = buf[y].busy
        BY <1>5, <3>2
      <4>2. buf[y].busy <=> \E q \in Proc : Owns(q) /\ has[q] = y
        BY DEF BusyIsOwned
      <4>3. \A q \in Proc : (Owns(q)' /\ has'[q] = y) <=> (Owns(q) /\ has[q] = y)
        BY <1>4, <1>7, <3>2 DEF x
      <4> QED BY <4>1, <4>2, <4>3
    <3> QED BY <3>1, <3>2
  <2> QED BY <2>1, <2>2 DEF BusyIsOwned
<1>11. IoIsQueued'
  <2>1. \A q \in Proc : /\ pc'[q] = "iosleep" <=> pc[q] = "iosleep"
                        /\ pc[q] = "iosleep" => q # p /\ Owns(q)
    BY <1>0, <1>3 DEF Owns, Owning
  <2>2. \A q \in Proc : pc[q] = "iosleep" => has'[q] = has[q] /\ buf'[has[q]] = buf[has[q]]
    BY <1>2, <1>4, <1>5, <2>1
  <2> QED BY <1>0, <2>1, <2>2, QueueKept, Zenon
<1>12. ReadsWhatItAsked'
  <2>1. \A q \in Proc \ {p} : Owns(q) => buf'[has[q]] = buf[has[q]]
    BY <1>2, <1>5
  <2>2. \A q \in Proc \ {p} : Asked(q)'
    BY <1>3, <1>4, <2>1, AskedKept
  <2>3. Asked(p)'
    BY <1>3, <1>7 DEF Asked
  <2> QED BY <2>2, <2>3 DEF ReadsWhatItAsked
<1>13. BgetSleeperHasWaker'
  <2>1. ASSUME NEW r \in Proc, pc'[r] = "bsleep"
        PROVE  \E q \in Proc \ {r} : Owns(q)' /\ has'[q] = has'[r]
    <3>1. r # p /\ pc[r] = "bsleep" /\ has[r] # x
      BY <1>3, <2>1
    <3>2. PICK q \in Proc \ {r} : Owns(q) /\ has[q] = has[r]
      BY <3>1 DEF BgetSleeperHasWaker
    <3>3. q # p
      BY <3>1, <3>2 DEF x
    <3> QED BY <1>4, <1>7, <3>1, <3>2, <3>3
  <2> QED BY <2>1 DEF BgetSleeperHasWaker
<1>14. CacheInv'
  BY <1>8, <1>9, <1>10, <1>11, <1>12, <1>13
<1>15. StoreView' = StoreView
  BY <1>0, <1>5, <1>14, StoreKept
<1>16. Blocks!Release(p, want[p])
  BY <1>1, <1>4, <1>7, <1>14, <1>15, OwnerLeft
<1> QED BY <1>1, <1>14, <1>16 DEF StoreStep, Blocks!Next
=============================================================================
