----------------------------- MODULE IdeProofs -----------------------------
(***************************************************************************)
(* The steps of ide.c and of the disk, and with those of bio.c the results *)
(* about the two together.                                                 *)
(***************************************************************************)
EXTENDS BcacheProofs

\* Time for the provers, and a second try for the first of them
USE SMTT(10), SMTT(30), ZenonT(30)

-----------------------------------------------------------------------------
(* ide.c *)

\* iderw() queues the buffer, which was not in the queue, and starts the disk if
\* it is the first there.
LEMMA IderwStep ==
  ASSUME CacheInv, NEW p \in Proc, iderw(p)
  PROVE  CacheInv' /\ StoreStep
<1> USE DEF CacheInv
<1> DEFINE x == has[p]
<1>0. /\ pc \in [Proc -> Places] /\ buf \in [Buf -> BufType] /\ idequeue \in Seq(Buf)
      /\ cmd \in Command
      /\ pc[p] = "iderw" /\ UNCHANGED <<buf, lru, disk, want, has, panicked>>
  BY DEF TypeOK, Places, BufType, iderw
<1>1. x \in Buf /\ Owns(p)
  BY <1>0 DEF ReadsWhatItAsked, Asked, Owns, Owning
<1>2. /\ pc'[p] = "iosleep" /\ \A q \in Proc \ {p} : pc'[q] = pc[q]
      /\ pc' \in [Proc -> Places]
  BY <1>0 DEF iderw, Places
<1>3. /\ idequeue' = Append(idequeue, x)
      /\ idequeue = <<>> => cmd' = idestart(x) /\ ide' = "busy"
      /\ idequeue # <<>> => cmd' = cmd /\ ide' = ide
  BY DEF iderw
<1>4. idestart(x) \in Command
  BY <1>0, <1>1 DEF idestart, Command, BufType
<1> HIDE DEF x
<1>5. \A i \in DOMAIN idequeue : idequeue[i] # x
  BY <1>0, <1>1 DEF IoIsQueued, BusyIsOwned, Owns, Owning, x
<1>6. \A q \in Proc : Owns(q)' <=> Owns(q)
  BY <1>1, <1>2 DEF Owns, Owning
<1>7. TypeOK'
  <2>1. idequeue' \in Seq(Buf) /\ cmd' \in Command /\ ide' \in {"idle", "busy", "done", "error"}
    BY <1>0, <1>1, <1>3, <1>4 DEF TypeOK
  <2> QED BY <1>0, <1>2, <2>1 DEF TypeOK, Places
<1>8. BuffersSound' /\ OneBufferPerBlock' /\ CleanMatchesDisk' /\ BusyIsOwned'
  BY <1>0, <1>6 DEF BuffersSound, OneBufferPerBlock, CleanMatchesDisk, BusyIsOwned
<1>9. IoIsQueued'
  <2> DEFINE n == Len(idequeue)
  <2>1. /\ n \in Nat /\ DOMAIN idequeue = 1..n /\ DOMAIN idequeue' = 1..(n + 1)
        /\ idequeue'[n + 1] = x /\ \A i \in 1..n : idequeue'[i] = idequeue[i]
    BY <1>0, <1>1, <1>3
  <2>2. \A q \in Proc : pc'[q] = "iosleep" => has'[q] \in Range(idequeue')
    <3>1. ASSUME NEW q \in Proc \ {p}, pc[q] = "iosleep"
          PROVE  has[q] \in Range(idequeue')
      <4>1. PICK i \in 1..n : idequeue[i] = has[q]
        BY <2>1, <3>1 DEF IoIsQueued, Range
      <4>2. i \in 1..(n + 1) /\ idequeue'[i] = has[q]
        BY <2>1, <4>1
      <4> QED BY <2>1, <4>2 DEF Range
    <3>2. x \in Range(idequeue')
      BY <2>1 DEF Range
    <3> QED BY <1>0, <1>2, <3>1, <3>2 DEF x
  <2>3. \A i, j \in DOMAIN idequeue' : idequeue'[i] = idequeue'[j] => i = j
    <3>1. \A i, j \in 1..n : idequeue[i] = idequeue[j] => i = j
      BY <2>1 DEF IoIsQueued
    <3>2. \A i \in 1..n : idequeue[i] # x
      BY <1>5, <2>1
    <3> QED BY <2>1, <3>1, <3>2
  <2>4. \A i \in DOMAIN idequeue' : \E q \in Proc : pc'[q] = "iosleep" /\ has'[q] = idequeue'[i]
    <3>1. ASSUME NEW i \in 1..n PROVE \E q \in Proc : pc'[q] = "iosleep" /\ has'[q] = idequeue'[i]
      <4>1. PICK q \in Proc : pc[q] = "iosleep" /\ has[q] = idequeue[i]
        BY <2>1 DEF IoIsQueued
      <4> QED BY <1>0, <1>2, <2>1, <4>1
    <3>2. \E q \in Proc : pc'[q] = "iosleep" /\ has'[q] = idequeue'[n + 1]
      BY <1>0, <1>2, <2>1 DEF x
    <3> QED BY <2>1, <3>1, <3>2
  <2>5. idequeue' # <<>> /\ ide' # "idle"
    <3>1. idequeue' # <<>>
      BY <1>0, <1>1, <1>3
    <3>2. ide' # "idle"
      BY <1>3 DEF IoIsQueued
    <3> QED BY <3>1, <3>2
  <2>6. cmd' = idestart(Head(idequeue))'
    <3>1. CASE idequeue = <<>>
      <4>1. Head(idequeue') = x
        BY <1>0, <1>1, <1>3, <3>1
      <4> QED BY <1>0, <1>3, <3>1, <4>1 DEF idestart
    <3>2. CASE idequeue # <<>>
      <4>1. Head(idequeue') = Head(idequeue)
        BY <1>0, <1>1, <1>3, <3>2
      <4> QED BY <1>0, <1>3, <3>2, <4>1 DEF IoIsQueued, idestart
    <3> QED BY <3>1, <3>2
  <2>7. /\ (ide' = "done" /\ cmd'.write) => disk'[cmd'.blockno] = cmd'.data
        /\ ide' = "error" => cmd'.blockno \in BadBlock
    BY <1>0, <1>3 DEF IoIsQueued
  <2> QED BY <2>2, <2>3, <2>4, <2>5, <2>6, <2>7 DEF IoIsQueued
<1>10. ReadsWhatItAsked'
  BY <1>0, <1>1, <1>2, <1>6 DEF ReadsWhatItAsked, Asked, Owns, Owning
<1>11. BgetSleeperHasWaker'
  BY <1>0, <1>2, <1>6, SleepersKept
<1>12. CacheInv'
  BY <1>7, <1>8, <1>9, <1>10, <1>11
<1>13. OwnerView' = OwnerView /\ StoreView' = StoreView
  BY <1>0, <1>6, <1>12, OwnersKept, StoreKept
<1> QED BY <1>12, <1>13 DEF StoreStep, Blocks!vars

\* After the wakeup the buffer is valid and clean: iderw() returns.
LEMMA IderwTestStep ==
  ASSUME CacheInv, NEW p \in Proc, iderw_test(p)
  PROVE  CacheInv' /\ StoreStep
<1> USE DEF CacheInv
<1>0. /\ pc \in [Proc -> Places] /\ idequeue \in Seq(Buf) /\ pc[p] = "iotest"
      /\ UNCHANGED <<buf, lru, idequeue, cmd, ide, disk, want, has, panicked>>
  BY DEF TypeOK, Places, iderw_test, ideVars
<1>1. buf[has[p]].valid /\ ~buf[has[p]].dirty
  BY <1>0 DEF ReadsWhatItAsked, Asked
<1>2. /\ pc'[p] = "hold" /\ \A q \in Proc \ {p} : pc'[q] = pc[q]
      /\ pc' \in [Proc -> Places]
  BY <1>0, <1>1 DEF iderw_test, Places
<1>3. \A q \in Proc : /\ Owns(q)' <=> Owns(q)
                      /\ pc'[q] = "iosleep" <=> pc[q] = "iosleep"
                      /\ pc'[q] = "bsleep" <=> pc[q] = "bsleep"
  BY <1>0, <1>2 DEF Owns, Owning
<1>4. TypeOK'
  BY <1>0, <1>2 DEF TypeOK, Places
<1>5. BuffersSound' /\ OneBufferPerBlock' /\ CleanMatchesDisk' /\ BusyIsOwned'
  BY <1>0, <1>3 DEF BuffersSound, OneBufferPerBlock, CleanMatchesDisk, BusyIsOwned
<1>6. IoIsQueued'
  BY <1>0, <1>3, QueueKept
<1>7. ReadsWhatItAsked'
  BY <1>0, <1>1, <1>2, <1>3 DEF ReadsWhatItAsked, Asked, Owns, Owning
<1>8. BgetSleeperHasWaker'
  BY <1>0, <1>3, SleepersKept
<1>9. CacheInv'
  BY <1>4, <1>5, <1>6, <1>7, <1>8
<1>10. OwnerView' = OwnerView /\ StoreView' = StoreView
  BY <1>0, <1>3, <1>9, OwnersKept, StoreKept
<1> QED BY <1>9, <1>10 DEF StoreStep, Blocks!vars

\* The disk carries out the command of the first buffer in the queue.
LEMMA DiskDoneStep ==
  ASSUME CacheInv, DiskDone
  PROVE  CacheInv' /\ StoreStep
<1> USE DEF CacheInv
<1> DEFINE x == Head(idequeue)
<1>0. /\ buf \in [Buf -> BufType] /\ idequeue \in Seq(Buf) /\ cmd \in Command
      /\ disk \in [Block -> Val] /\ ide = "busy" /\ ide' = "done"
      /\ UNCHANGED <<buf, lru, idequeue, cmd, pc, want, has, panicked>>
  BY DEF TypeOK, BufType, DiskDone
<1>1. idequeue # <<>> /\ cmd = idestart(x)
  BY <1>0 DEF IoIsQueued
<1>2. x \in Buf /\ (cmd.write <=> buf[x].dirty) /\ cmd.blockno = buf[x].blockno /\ cmd.data = buf[x].data
  BY <1>0, <1>1 DEF idestart
<1> HIDE DEF x
<1>3. cmd.write => buf[x].valid /\ cmd.blockno \in Block
  BY <1>2 DEF BuffersSound
<1>4. /\ disk' \in [Block -> Val]
      /\ cmd.write => disk'[cmd.blockno] = cmd.data
      /\ \A b \in Block : disk'[b] # disk[b] => cmd.write /\ b = cmd.blockno
  BY <1>0, <1>3 DEF DiskDone, Command
<1>5. \A q \in Proc : Owns(q)' <=> Owns(q)
  BY <1>0 DEF Owns
<1>6. TypeOK'
  BY <1>0, <1>4 DEF TypeOK
<1>7. BuffersSound' /\ OneBufferPerBlock' /\ BusyIsOwned' /\ ReadsWhatItAsked' /\ BgetSleeperHasWaker'
  BY <1>0, <1>5 DEF BuffersSound, OneBufferPerBlock, BusyIsOwned, ReadsWhatItAsked, Asked, BgetSleeperHasWaker
<1>8. ASSUME NEW y \in Buf, buf[y].blockno \in Block, y # x \/ ~buf[x].dirty
      PROVE  disk'[buf[y].blockno] = disk[buf[y].blockno]
  BY <1>2, <1>4, <1>8, BcacheConstants DEF OneBufferPerBlock
<1>9. CleanMatchesDisk'
  <2>1. ASSUME NEW y \in Buf, buf[y].valid, ~buf[y].dirty, buf[y].blockno \notin BadBlock
        PROVE  buf[y].data = disk'[buf[y].blockno]
    BY <1>8, <2>1 DEF BuffersSound, CleanMatchesDisk
  <2> QED BY <1>0, <2>1 DEF CleanMatchesDisk
<1>10. IoIsQueued'
  <2>1. idestart(Head(idequeue))' = idestart(Head(idequeue))
    BY <1>0 DEF idestart
  <2> QED BY <1>0, <1>1, <1>4, <2>1 DEF IoIsQueued, Range
<1>11. CacheInv'
  BY <1>6, <1>7, <1>9, <1>10
<1>12. StoreView' = StoreView
  <2>1. StoreIsCached /\ StoreIsCached'
    BY <1>11, ViewsAre, ViewsAreNext
  <2>2. ASSUME NEW b \in Block \ BadBlock PROVE StoreView'[b] = StoreView[b]
    <3>1. ASSUME NEW y \in Buf, buf[y].blockno = b, buf[y].valid
          PROVE  StoreView'[b] = StoreView[b]
      BY <1>0, <2>1, <3>1 DEF StoreIsCached
    <3>2. ASSUME NEW y \in Buf, buf[y].blockno = b, ~buf[y].valid
          PROVE  StoreView'[b] = StoreView[b]
      <4>1. disk'[b] = disk[b]
        BY <1>2, <1>3, <1>8, <3>2
      <4> QED BY <1>0, <2>1, <3>2, <4>1 DEF StoreIsCached
    <3>3. CASE \A y \in Buf : buf[y].blockno # b
      <4>1. disk'[b] = disk[b]
        BY <1>2, <1>4, <3>3
      <4> QED BY <1>0, <2>1, <3>3, <4>1 DEF StoreIsCached
    <3> QED BY <3>1, <3>2, <3>3
  <2> QED BY <2>2 DEF StoreView, Contents
<1>13. OwnerView' = OwnerView
  BY <1>0, <1>5, <1>11, OwnersKept
<1> QED BY <1>11, <1>12, <1>13 DEF StoreStep, Blocks!vars

\* The disk fails a command: only its status register tells.
LEMMA DiskFailsStep ==
  ASSUME CacheInv, DiskFails
  PROVE  CacheInv' /\ StoreStep
<1> USE DEF CacheInv
<1>0. /\ ide = "busy" /\ ide' = "error" /\ cmd.blockno \in BadBlock
      /\ UNCHANGED <<buf, lru, idequeue, cmd, disk, pc, want, has, panicked>>
  BY DEF DiskFails
<1>1. \A q \in Proc : Owns(q)' <=> Owns(q)
  BY <1>0 DEF Owns
<1>2. TypeOK'
  BY <1>0 DEF TypeOK
<1>3. BuffersSound' /\ OneBufferPerBlock' /\ BusyIsOwned' /\ CleanMatchesDisk'
  BY <1>0, <1>1 DEF BuffersSound, OneBufferPerBlock, BusyIsOwned, CleanMatchesDisk
<1>4. ReadsWhatItAsked' /\ BgetSleeperHasWaker'
  BY <1>0, <1>1 DEF ReadsWhatItAsked, Asked, BgetSleeperHasWaker
<1>5. IoIsQueued'
  <2>1. idestart(Head(idequeue))' = idestart(Head(idequeue))
    BY <1>0 DEF idestart
  <2> QED BY <1>0, <2>1 DEF IoIsQueued, Range
<1>6. CacheInv'
  BY <1>2, <1>3, <1>4, <1>5
<1>7. OwnerView' = OwnerView /\ StoreView' = StoreView
  BY <1>0 DEF OwnerView, StoreView
<1> QED BY <1>6, <1>7 DEF StoreStep, Blocks!vars

\* The disk's registers at rest.
LEMMA NoCommand == NoCmd \in Command
BY BcacheConstants DEF NoCmd, Command

\* ideintr(): the first buffer in the queue is served, the process that waits
\* for it goes on, and the next command is started.
LEMMA IdeintrStep ==
  ASSUME CacheInv, ideintr
  PROVE  CacheInv' /\ StoreStep
<1> USE DEF CacheInv
<1> DEFINE x == Head(idequeue)
           b == buf[x].blockno
           n == Len(idequeue)
<1>0. /\ buf \in [Buf -> BufType] /\ idequeue \in Seq(Buf) /\ cmd \in Command
      /\ pc \in [Proc -> Places] /\ disk \in [Block -> Val] /\ ide \in {"done", "error"}
      /\ UNCHANGED <<lru, disk, want, has, panicked>>
  BY DEF TypeOK, BufType, Places, ideintr
<1>1. /\ idequeue # <<>> /\ cmd = idestart(x) /\ x \in Buf
      /\ n \in Nat \ {0} /\ DOMAIN idequeue = 1..n /\ x = idequeue[1]
      /\ \A i, j \in 1..n : idequeue[i] = idequeue[j] => i = j
  BY <1>0 DEF IoIsQueued
<1>2. PICK p \in Proc : pc[p] = "iosleep" /\ has[p] = x
  BY <1>1 DEF IoIsQueued
<1>3. b \in Block /\ b = want[p] /\ Owns(p)
  BY <1>2 DEF ReadsWhatItAsked, Asked, Owns, Owning
<1>4. \A q \in Proc \ {p} : Owns(q) => has[q] \in Buf /\ has[q] # x
  BY <1>2, <1>3 DEF BusyIsOwned, ReadsWhatItAsked, Asked
<1>5. /\ pc' \in [Proc -> Places] /\ pc'[p] = "iotest"
      /\ \A q \in Proc \ {p} :
           pc'[q] = IF pc[q] = "bsleep" /\ has[q] = x THEN "bget" ELSE pc[q]
  <2>1. \A q \in Proc \ {p} : ~(pc[q] = "iosleep" /\ has[q] = x)
    BY <1>4 DEF Owns, Owning
  <2>2. pc' = [q \in Proc |-> CASE pc[q] = "bsleep" /\ has[q] = x -> "bget"
                                [] pc[q] = "iosleep" /\ has[q] = x -> "iotest"
                                [] OTHER -> pc[q]]
    BY DEF ideintr, WakeAll
  <2>3. pc'[p] = "iotest"
    BY <1>2, <2>2
  <2>4. ASSUME NEW q \in Proc \ {p}
        PROVE  pc'[q] = IF pc[q] = "bsleep" /\ has[q] = x THEN "bget" ELSE pc[q]
    BY <2>1, <2>2
  <2>5. ASSUME NEW q \in Proc PROVE pc'[q] \in Places
    BY <1>0, <2>3, <2>4 DEF Places
  <2> QED BY <2>2, <2>3, <2>4, <2>5
<1>6. /\ cmd.write <=> buf[x].dirty
      /\ cmd.blockno = b /\ cmd.data = buf[x].data
  BY <1>1 DEF idestart
<1>7. /\ buf' \in [Buf -> BufType] /\ \A y \in Buf \ {x} : buf'[y] = buf[y]
      /\ buf'[x].valid /\ ~buf'[x].dirty /\ buf'[x].blockno = b
      /\ buf'[x].busy <=> buf[x].busy
      /\ buf'[x].data = IF ~buf[x].dirty /\ ide = "done" THEN disk[b] ELSE buf[x].data
  <2> DEFINE d == IF ~buf[x].dirty /\ ide = "done" THEN disk[cmd.blockno] ELSE buf[x].data
  <2>1. buf' = [buf EXCEPT ![x] = [@ EXCEPT !.valid = TRUE, !.dirty = FALSE, !.data = d]]
    BY Zenon DEF ideintr
  <2>2. d \in Val /\ buf[x] \in BufType
    BY <1>0, <1>1, <1>3, <1>6 DEF BufType
  <2> HIDE DEF x, d
  <2> DEFINE r == [buf[x] EXCEPT !.valid = TRUE, !.dirty = FALSE, !.data = d]
  <2>3. /\ r \in BufType /\ r.data = d /\ r.valid /\ ~r.dirty /\ r.blockno = buf[x].blockno
        /\ r.busy <=> buf[x].busy
    BY <2>2, Zenon DEF BufType
  <2>4. buf' = [buf EXCEPT ![x] = r]
    BY <2>1, Zenon
  <2> HIDE DEF r
  <2>5. buf' \in [Buf -> BufType] /\ buf'[x] = r /\ \A y \in Buf \ {x} : buf'[y] = buf[y]
    BY <1>0, <1>1, <2>3, <2>4, BufferChanged
  <2> QED BY <1>6, <2>3, <2>5 DEF d
<1>8. /\ idequeue' = Tail(idequeue)
      /\ n > 1 => cmd' = idestart(idequeue[2]) /\ ide' = "busy"
      /\ ~(n > 1) => cmd' = NoCmd /\ ide' = "idle"
  BY DEF ideintr
<1>9. /\ idequeue' \in Seq(Buf) /\ DOMAIN idequeue' = 1..(n - 1)
      /\ \A i \in 1..(n - 1) : i + 1 \in 1..n /\ idequeue'[i] = idequeue[i + 1]
      /\ idequeue' = <<>> <=> n = 1
      /\ n > 1 => Head(idequeue') = idequeue[2] /\ 2 \in 1..n
  <2>1. idequeue' \in Seq(Buf) /\ Len(idequeue') = n - 1
    BY <1>0, <1>1, <1>8
  <2>2. DOMAIN idequeue' = 1..(n - 1)
    BY <2>1
  <2>3. \A i \in 1..(n - 1) : i + 1 \in 1..n /\ idequeue'[i] = idequeue[i + 1]
    BY <1>0, <1>1, <1>8
  <2>4. idequeue' = <<>> <=> n = 1
    BY <1>1, <2>1
  <2>5. n > 1 => Head(idequeue') = idequeue[2] /\ 2 \in 1..n
    BY <1>0, <1>1, <1>8
  <2> QED BY <2>1, <2>2, <2>3, <2>4, <2>5
<1>10. \A i \in 2..n : idequeue[i] \in Buf /\ idequeue[i] # x
  BY <1>0, <1>1
<1> HIDE DEF x, b, n
<1>11. \A q \in Proc : Owns(q)' <=> Owns(q)
  BY <1>3, <1>5 DEF Owns, Owning
<1>12. n > 1 => /\ cmd' = idestart(idequeue[2]) /\ cmd' \in Command
                /\ cmd' = idestart(Head(idequeue))'
  <2>1. n > 1 => idequeue[2] \in Buf /\ buf'[idequeue[2]] = buf[idequeue[2]]
    BY <1>1, <1>7, <1>10
  <2>2. n > 1 => idestart(idequeue[2]) \in Command
    BY <1>0, <2>1 DEF idestart, Command, BufType
  <2>3. n > 1 => idestart(idequeue[2]) = idestart(Head(idequeue))'
    BY <1>9, <2>1 DEF idestart
  <2> QED BY <1>8, <2>2, <2>3, Zenon
<1>13. TypeOK'
  <2>1. cmd' \in Command /\ ide' \in {"idle", "busy", "done", "error"}
    BY <1>8, <1>12, NoCommand
  <2> QED BY <1>0, <1>5, <1>7, <1>9, <2>1 DEF TypeOK, Places, BufType
<1>14. BuffersSound' /\ OneBufferPerBlock'
  <2>1. \A y \in Buf : buf'[y].blockno = buf[y].blockno
    BY <1>7 DEF b
  <2>2. OneBufferPerBlock'
    BY <2>1 DEF OneBufferPerBlock
  <2>3. BuffersSound'
    BY <1>0, <1>3, <1>7 DEF BuffersSound
  <2> QED BY <2>2, <2>3
<1>15. ide # "done" => b \in BadBlock
  BY <1>0, <1>6 DEF IoIsQueued
<1>16. b \notin BadBlock => buf'[x].data = disk[b]
  BY <1>0, <1>6, <1>7, <1>15 DEF IoIsQueued
<1>17. CleanMatchesDisk'
  BY <1>0, <1>7, <1>16 DEF CleanMatchesDisk
<1>18. BusyIsOwned'
  BY <1>0, <1>7, <1>11, BusyKept
<1>19. ReadsWhatItAsked'
  <2>1. \A q \in Proc \ {p} : Owns(q) => buf'[has[q]] = buf[has[q]]
    BY <1>4, <1>7
  <2>2. \A q \in Proc \ {p} : Asked(q)'
    BY <1>0, <1>5, <2>1, AskedKept
  <2>3. Asked(p)'
    BY <1>0, <1>1, <1>2, <1>3, <1>5, <1>7 DEF Asked
  <2> QED BY <2>2, <2>3 DEF ReadsWhatItAsked
<1>20. BgetSleeperHasWaker'
  BY <1>0, <1>5, <1>11, SleepersKept
<1>21. IoIsQueued'
  <2>1. ASSUME NEW q \in Proc, pc'[q] = "iosleep" PROVE has'[q] \in Range(idequeue')
    <3>1. q # p /\ pc[q] = "iosleep" /\ has[q] # x
      BY <1>4, <1>5, <2>1 DEF Owns, Owning
    <3>2. PICK i \in 1..n : idequeue[i] = has[q]
      BY <1>1, <3>1 DEF IoIsQueued, Range
    <3>3. i # 1
      BY <1>1, <3>1, <3>2
    <3>4. i - 1 \in 1..(n - 1) /\ idequeue'[i - 1] = has[q]
      BY <1>1, <1>9, <3>2, <3>3
    <3> QED BY <1>0, <1>9, <3>4 DEF Range
  <2>2. \A i, j \in DOMAIN idequeue' : idequeue'[i] = idequeue'[j] => i = j
    BY <1>1, <1>9
  <2>3. ASSUME NEW i \in DOMAIN idequeue'
        PROVE  \E q \in Proc : pc'[q] = "iosleep" /\ has'[q] = idequeue'[i]
    <3>1. i + 1 \in 2..n /\ idequeue'[i] = idequeue[i + 1]
      BY <1>1, <1>9
    <3>2. PICK q \in Proc : pc[q] = "iosleep" /\ has[q] = idequeue[i + 1]
      BY <1>1, <3>1 DEF IoIsQueued
    <3>3. q # p
      BY <1>2, <1>10, <3>1, <3>2
    <3> QED BY <1>0, <1>5, <3>1, <3>2, <3>3
  <2>4. /\ ide' = "idle" <=> idequeue' = <<>>
        /\ idequeue' # <<>> => cmd' = idestart(Head(idequeue))'
        /\ ide' # "done" /\ ide' # "error"
    BY <1>1, <1>8, <1>9, <1>12
  <2> QED BY <2>1, <2>2, <2>3, <2>4 DEF IoIsQueued
<1>22. CacheInv'
  BY <1>13, <1>14, <1>17, <1>18, <1>19, <1>20, <1>21
<1>23. StoreView' = StoreView
  <2>1. StoreIsCached /\ StoreIsCached'
    BY <1>22, ViewsAre, ViewsAreNext
  <2>2. ASSUME NEW c \in Block \ BadBlock PROVE StoreView'[c] = StoreView[c]
    <3>1. CASE c = b
      <4>1. StoreView'[c] = disk[b]
        BY <1>1, <1>7, <1>16, <2>1, <3>1 DEF StoreIsCached
      <4>2. StoreView[c] = IF buf[x].valid THEN buf[x].data ELSE disk[b]
        BY <1>1, <2>1, <3>1 DEF StoreIsCached, b
      <4>3. buf[x].valid => buf[x].data = disk[b]
        <5>1. CASE buf[x].dirty
          BY <1>0, <1>6, <1>15, <3>1, <5>1 DEF IoIsQueued
        <5>2. CASE ~buf[x].dirty
          BY <1>1, <3>1, <5>2 DEF CleanMatchesDisk, b
        <5> QED BY <5>1, <5>2
      <4> QED BY <4>1, <4>2, <4>3
    <3>2. ASSUME c # b, NEW y \in Buf, buf[y].blockno = c
          PROVE  StoreView'[c] = StoreView[c]
      <4>1. buf'[y] = buf[y]
        BY <1>7, <3>2 DEF b
      <4> QED BY <1>0, <2>1, <3>2, <4>1 DEF StoreIsCached
    <3>3. CASE c # b /\ \A y \in Buf : buf[y].blockno # c
      <4>1. \A y \in Buf : buf'[y].blockno # c
        BY <1>7, <3>3
      <4> QED BY <1>0, <2>1, <3>3, <4>1 DEF StoreIsCached
    <3> QED BY <3>1, <3>2, <3>3
  <2> QED BY <2>2, Zenon DEF StoreView, Contents
<1>24. OwnerView' = OwnerView
  BY <1>0, <1>11, <1>22, OwnersKept
<1> QED BY <1>22, <1>23, <1>24 DEF StoreStep, Blocks!vars

-----------------------------------------------------------------------------
(* The results *)

\* binit() leaves an empty cache over an idle disk.
LEMMA InitCache ==
  ASSUME Init
  PROVE  CacheInv /\ Blocks!Init
<1> USE DEF Init
<1>1. TypeOK
  <2>1. buf \in [Buf -> BufType]
    BY BcacheConstants DEF BufType
  <2>2. lru \in [1..NBUF -> Buf]
    BY InitialListed, Zenon
  <2>5. cmd \in Command /\ idequeue \in Seq(Buf)
    BY NoCommand
  <2>3. /\ disk \in [Block -> Val] /\ want \in [Proc -> Block \cup {NoBlock}]
        /\ has \in [Proc -> Buf \cup {NoBuf}]
    BY BcacheConstants
  <2>4. /\ ide \in {"idle", "busy", "done", "error"} /\ panicked \in BOOLEAN
        /\ pc \in [Proc -> {"idle", "bget", "bsleep", "iderw", "iosleep", "iotest", "hold"}]
    BY Zenon
  <2> HIDE DEF Init
  <2> QED BY <2>1, <2>2, <2>3, <2>4, <2>5 DEF TypeOK, BufType
<1>2. \A q \in Proc : ~Owns(q) /\ pc[q] = "idle"
  BY DEF Owns, Owning
<1>3. BuffersSound
  <2>1. \A x \in Buf : ~buf[x].valid /\ ~buf[x].dirty
    OBVIOUS
  <2> QED BY <2>1, InitialListed, Zenon DEF BuffersSound
<1>4. OneBufferPerBlock /\ BusyIsOwned /\ CleanMatchesDisk
  BY <1>2 DEF OneBufferPerBlock, BusyIsOwned, CleanMatchesDisk
<1>5. IoIsQueued /\ ReadsWhatItAsked /\ BgetSleeperHasWaker
  BY <1>2 DEF IoIsQueued, ReadsWhatItAsked, Asked, BgetSleeperHasWaker
<1>6. CacheInv
  BY <1>1, <1>3, <1>4, <1>5 DEF CacheInv
<1>7. StoreView = [b \in Block \ BadBlock |-> Zero]
  <2>1. StoreIsCached
    BY <1>6, ViewsAre
  <2>2. \A b \in Block \ BadBlock : StoreView[b] = Zero
    BY <2>1, BcacheConstants DEF StoreIsCached
  <2> QED BY <2>2 DEF StoreView, Contents
<1>8. OwnerView = [b \in Block |-> NoProc]
  <2>1. \A b \in Block : OwnerView[b] = NoProc
    BY <1>2, <1>6, ViewsAre DEF OwnerIsWhoAsked
  <2> QED BY <2>1, Zenon DEF OwnerView, Owners
<1> QED BY <1>6, <1>7, <1>8 DEF Blocks!Init

\* Every step keeps the invariant, and is a step of the store or none.
LEMMA NextCache ==
  ASSUME CacheInv, [Next]_vars
  PROVE  CacheInv' /\ StoreStep
<1>1. CASE Next
  <2>1. ASSUME NEW p \in Proc, bget(p) PROVE CacheInv' /\ StoreStep
    BY <2>1, BgetHitStep, BgetSleepStep, BgetRecycleStep, BgetPanicStep DEF bget
  <2>2. ASSUME NEW p \in Proc, NEW b \in Block, bread(p, b) PROVE CacheInv' /\ StoreStep
    BY <2>2, BreadStep
  <2>3. ASSUME NEW p \in Proc, NEW v \in Val, bwrite(p, v) \/ Pin(p, v)
        PROVE  CacheInv' /\ StoreStep
    BY <2>3, BwriteStep, PinStep
  <2>4. ASSUME NEW p \in Proc, brelse(p) \/ iderw(p) \/ iderw_test(p)
        PROVE  CacheInv' /\ StoreStep
    BY <2>4, BrelseStep, IderwStep, IderwTestStep
  <2>5. CASE DiskDone \/ DiskFails \/ ideintr
    BY <2>5, DiskDoneStep, DiskFailsStep, IdeintrStep
  <2> QED BY <1>1, <2>1, <2>2, <2>3, <2>4, <2>5 DEF Next
<1>2. CASE UNCHANGED vars
  <2>0. UNCHANGED <<buf, lru, idequeue, cmd, ide, disk, pc, want, has, panicked>>
    BY <1>2 DEF vars, ideVars
  <2>1. \A q \in Proc : Owns(q)' <=> Owns(q)
    BY <2>0 DEF Owns
  <2>2. TypeOK'
    BY <2>0 DEF CacheInv, TypeOK
  <2>3. BuffersSound' /\ OneBufferPerBlock' /\ BusyIsOwned' /\ CleanMatchesDisk'
    BY <2>0, <2>1 DEF CacheInv, BuffersSound, OneBufferPerBlock, BusyIsOwned, CleanMatchesDisk
  <2>4. IoIsQueued' /\ ReadsWhatItAsked' /\ BgetSleeperHasWaker'
    BY <2>0, <2>1 DEF CacheInv, IoIsQueued, idestart, ReadsWhatItAsked, Asked, BgetSleeperHasWaker
  <2>5. OwnerView' = OwnerView /\ StoreView' = StoreView
    BY <2>0 DEF OwnerView, StoreView
  <2> QED BY <2>2, <2>3, <2>4, <2>5 DEF CacheInv, StoreStep, Blocks!vars
<1> QED BY <1>1, <1>2

\* The cache and the request queue of bio.c and ide.c are sound at every step,
\* however the calls, the disk and its interrupts interleave.
THEOREM CacheInvTheorem == Spec => []CacheInv
<1>1. Init => CacheInv
  BY InitCache
<1>2. CacheInv /\ [Next]_vars => CacheInv'
  BY NextCache
<1> QED BY <1>1, <1>2, PTL DEF Spec

\* bread(), bwrite() and brelse() through the cache, the queue and the disk
\* implement a store in which a block has one owner at a time, who finds there
\* what the previous owner left.
THEOREM StoreTheorem == Spec => StoreRefinement
<1>1. Init => Blocks!Init
  BY InitCache
<1>2. CacheInv /\ [Next]_vars => [Blocks!Next]_(Blocks!vars)
  BY NextCache DEF StoreStep
<1> QED BY <1>1, <1>2, CacheInvTheorem, PTL DEF Spec, StoreRefinement, Blocks!Spec
=============================================================================
