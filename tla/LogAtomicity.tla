---------------------------- MODULE LogAtomicity ----------------------------
(***************************************************************************)
(* log.c implements AtomicDisk, for any number of processes, blocks and    *)
(* crashes: where the contents of every block are at each stage of the     *)
(* commit and of recovery, and the step of AtomicDisk that each step of    *)
(* log.c is, as long as no transaction outgrows the log.                   *)
(***************************************************************************)
EXTENDS LogProofs

\* Time for the provers, and a second try for the first of them
USE SMTT(10), SMTT(30), ZenonT(30)

\* The stages of commit() in which it matters what the log blocks hold.
Stage == {"write_log", "write_head", "install", "erase"}

\* A step of AtomicDisk with its promise in force, or none.
AtomicStep == Atomic!Step \/ UNCHANGED <<DurableView, MemView, Active>>

-----------------------------------------------------------------------------
(* Addresses and views *)

\* Log blocks and home blocks are apart while no transaction outgrows the log.
LEMMA Geometry ==
  ASSUME LInv, ~overrun
  PROVE  /\ lh \in Seq(Home) /\ dhead \in Seq(Home)
         /\ Len(lh) \in Nat /\ Len(dhead) \in Nat
         /\ \A b \in Home : b \in Addr /\ b # 0
         /\ \A i \in 1..Len(lh) : i \in Addr /\ i \notin Home /\ lh[i] \in Home
         /\ \A i \in 1..Len(dhead) : i \in Addr /\ i \notin Home /\ dhead[i] \in Home
<1> USE DEF LInv, SpaceAccounting
<1>1. /\ lh \in Seq(Home) /\ dhead \in Seq(Home)
      /\ Len(lh) \in Nat /\ Len(dhead) \in Nat
  BY DEF TypeOK
<1>2. \A b \in Home : b \in Addr /\ b # 0
  BY LogConstants DEF Home, Addr
<1>3. Len(lh) <= NLOG - 1 /\ Len(dhead) <= NLOG - 1
  <2>1. Len(lh) <= Limit /\ Len(dhead) <= Limit
    BY Zenon DEF Space, Bounded
  <2> QED BY <1>1, <2>1, Sizes, LogConstants
<1>4. \A i \in 1..(NLOG - 1) : i \in Addr /\ i \notin Home
  BY LogConstants DEF Home, Addr
<1> QED BY <1>1, <1>2, <1>3, <1>4, LogConstants

\* What an overlay shows: a listed block's log copy, else the block itself.
LEMMA OverlayAt ==
  ASSUME NEW d, NEW h \in Seq(Home), Distinct(h)
  PROVE  /\ \A i \in 1..Len(h) : Overlay(d, h)[h[i]] = d[i]
         /\ \A b \in Home : (\A i \in 1..Len(h) : h[i] # b) => Overlay(d, h)[b] = d[b]
<1>1. DOMAIN h = 1..Len(h)
  OBVIOUS
<1>2. ASSUME NEW i \in 1..Len(h) PROVE Overlay(d, h)[h[i]] = d[i]
  <2>1. h[i] \in Home
    OBVIOUS
  <2> DEFINE k == CHOOSE j \in DOMAIN h : h[j] = h[i]
  <2>2. k \in DOMAIN h /\ h[k] = h[i]
    BY <1>1, Zenon
  <2>3. k = i
    BY <1>1, <2>2, Zenon DEF Distinct
  <2>4. Overlay(d, h)[h[i]] = d[k]
    BY <1>1, <2>1, Zenon DEF Overlay
  <2> QED BY <2>3, <2>4, Zenon
<1> QED BY <1>1, <1>2, Zenon DEF Overlay

\* Two disks show the same through one header if they agree on its log blocks
\* and on the blocks it does not list.
LEMMA OverlaySame ==
  ASSUME NEW d, NEW e, NEW h \in Seq(Home), Distinct(h),
         \A i \in 1..Len(h) : d[i] = e[i],
         \A b \in Home : (\A i \in 1..Len(h) : h[i] # b) => d[b] = e[b]
  PROVE  Overlay(d, h) = Overlay(e, h)
<1>1. \A b \in Home : Overlay(d, h)[b] = Overlay(e, h)[b]
  <2> SUFFICES ASSUME NEW b \in Home PROVE Overlay(d, h)[b] = Overlay(e, h)[b]
    OBVIOUS
  <2>1. CASE \E i \in 1..Len(h) : h[i] = b
    BY <2>1, OverlayAt
  <2>2. CASE \A i \in 1..Len(h) : h[i] # b
    BY <2>2, OverlayAt
  <2> QED BY <2>1, <2>2
<1> QED BY <1>1, Zenon DEF Overlay

\* Through an empty header the disk shows as it is.
LEMMA OverlayEmpty ==
  ASSUME NEW d
  PROVE  Overlay(d, <<>>) = [b \in Home |-> d[b]]
BY DEF Overlay

\* When nothing but the control state moves, both views stay.
LEMMA ViewsKept ==
  ASSUME UNCHANGED <<disk, dhead, cache, boot>>
  PROVE  DurableView' = DurableView /\ MemView' = MemView
<1>1. \A b \in Home : bread(b)' = bread(b)
  BY DEF bread
<1>2. DurableView' = DurableView
  BY DEF DurableView
<1>3. [b \in Home |-> bread(b)]' = [b \in Home |-> bread(b)]
  BY <1>1
<1> QED BY <1>2, <1>3, Zenon DEF MemView

-----------------------------------------------------------------------------
(* Steps that only move the control state *)

\* With the disk, the buffers and the log untouched, what is not about the
\* stages of a commit stays.
LEMMA BuffersKept ==
  ASSUME DataInv, UNCHANGED <<disk, dhead, cache, dirty, held, lh>>,
         boot = "up", boot' = "up"
  PROVE  Distinct(lh)' /\ Distinct(dhead)' /\ CleanMatchesDisk' /\ RecoveryStages'
BY DEF DataInv, Distinct, CleanMatchesDisk, RecoveryStages

\* The stages of a commit stay when no process enters or leaves one.
LEMMA StagesKept ==
  ASSUME DataInv, UNCHANGED <<disk, dhead, cache, dirty, lh, tail, boot>>,
         \A q \in Proc : pc'[q] = pc[q] \/ (pc[q] \notin Stage /\ pc'[q] \notin Stage)
  PROVE  CommitStages'
<1>1. /\ Logged' = Logged
      /\ \A n : LogHoldsCache(n)' <=> LogHoldsCache(n)
  BY DEF Logged, LogHoldsCache, bread
<1>2. \A q \in Proc, l \in Stage : pc'[q] = l <=> pc[q] = l
  OBVIOUS
<1>3. \A q \in Proc : /\ pc'[q] = "write_log" <=> pc[q] = "write_log"
                      /\ pc'[q] = "write_head" <=> pc[q] = "write_head"
                      /\ pc'[q] = "install" <=> pc[q] = "install"
                      /\ pc'[q] = "erase" <=> pc[q] = "erase"
  BY <1>2 DEF Stage
<1> QED BY <1>1, <1>3 DEF DataInv, CommitStages

\* The two together.
LEMMA DataKept ==
  ASSUME DataInv, UNCHANGED <<disk, dhead, cache, dirty, held, lh, tail>>,
         boot = "up", boot' = "up",
         \A q \in Proc : pc'[q] = pc[q] \/ (pc[q] \notin Stage /\ pc'[q] \notin Stage),
         \A q \in Proc : pc[q] = "append" => pc'[q] = "append"
  PROVE  DataInv' /\ DurableView' = DurableView /\ MemView' = MemView
<1>1. CommitStages'
  BY StagesKept
<1>2. Distinct(lh)' /\ Distinct(dhead)' /\ CleanMatchesDisk' /\ RecoveryStages'
  BY BuffersKept
<1>3. \A q \in Proc : pc'[q] # "append" => held'[q] = 0
  BY DEF DataInv
<1> QED BY <1>1, <1>2, <1>3, ViewsKept DEF DataInv

\* begin_op() opens an operation.
LEMMA BeginOpData ==
  ASSUME LInv, ~overrun, DataInv, NEW p \in Proc, begin_op(p)
  PROVE  DataInv' /\ AtomicStep
<1>1. DataInv' /\ DurableView' = DurableView /\ MemView' = MemView
  BY DataKept DEF begin_op, LInv, TypeOK, Running, diskVars, bufVars, sysVars, Stage
<1>2. Active' = Active \cup {p} /\ p \notin Active
  BY DEF begin_op, Active, LInv, TypeOK
<1>3. Atomic!Begin(p)
  BY <1>1, <1>2 DEF Atomic!Begin
<1> QED BY <1>1, <1>3 DEF AtomicStep, Atomic!Step

\* begin_op() going to sleep does nothing to the disk.
LEMMA BeginOpSleepData ==
  ASSUME LInv, ~overrun, DataInv, NEW p \in Proc, begin_op_sleep(p)
  PROVE  DataInv' /\ AtomicStep
<1>1. DataInv' /\ DurableView' = DurableView /\ MemView' = MemView
  BY DataKept DEF begin_op_sleep, LInv, TypeOK, Running, diskVars, bufVars, logVars, sysVars, Stage
<1>2. Active' = Active
  BY DEF begin_op_sleep, Active, LInv, TypeOK
<1> QED BY <1>1, <1>2 DEF AtomicStep

\* end_op() with other operations open closes one.
LEMMA EndOpData ==
  ASSUME LInv, ~overrun, DataInv, NEW p \in Proc, end_op(p)
  PROVE  DataInv' /\ AtomicStep
<1>0. pc \in [Proc -> Places]
  BY DEF LInv, TypeOK
<1>1. /\ pc'[p] = "idle"
      /\ \A q \in Proc \ {p} : pc'[q] = IF pc[q] = "sleep" THEN "retry" ELSE pc[q]
  BY <1>0 DEF end_op, wakeup
<1>2. DataInv' /\ DurableView' = DurableView /\ MemView' = MemView
  BY <1>1, DataKept, Zenon DEF end_op, Running, diskVars, bufVars, Stage
<1>3. Active' = Active \ {p} /\ p \in Active
  BY <1>1, Zenon DEF end_op, Active
<1>4. Atomic!End(p)
  BY <1>2, <1>3 DEF Atomic!End
<1> QED BY <1>2, <1>4 DEF AtomicStep, Atomic!Step

\* The last end_op() closes its operation and starts to write the log.
LEMMA EndOpLastData ==
  ASSUME LInv, ~overrun, DataInv, NEW p \in Proc, end_op_last(p)
  PROVE  DataInv' /\ AtomicStep
<1>0. /\ pc \in [Proc -> Places]
      /\ boot = "up" /\ boot' = "up" /\ tail' = 1
      /\ UNCHANGED <<disk, dhead, cache, dirty, held, lh>>
  BY DEF LInv, TypeOK, end_op_last, Running, diskVars, bufVars
<1>1. /\ pc[p] = "op" /\ pc'[p] \in {"done", "write_log"}
      /\ \A q \in Proc \ {p} : pc'[q] = pc[q]
  BY <1>0 DEF end_op_last
<1>2. p \in Active
  BY <1>1 DEF Active
<1>3. \A q \in Proc : pc[q] \notin Stage
  BY <1>2 DEF LInv, SpaceAccounting, Control, Commit, Stage
<1>4. \A q \in Proc : pc'[q] \notin {"write_head", "install", "erase"}
  BY <1>1, <1>3 DEF Stage
<1>5. CommitStages'
  <2>1. dhead = <<>> /\ dirty = Logged /\ Logged' = Logged
    BY <1>0, <1>3 DEF DataInv, CommitStages, Stage, Logged
  <2>2. LogHoldsCache(tail - 1)'
    BY <1>0 DEF LogHoldsCache
  <2> QED BY <1>0, <1>4, <2>1, <2>2 DEF CommitStages
<1>6. DataInv'
  <2>1. \A q \in Proc : pc'[q] # "append" => held'[q] = 0
    BY <1>0, <1>1 DEF DataInv
  <2> QED BY <1>0, <1>5, <2>1, BuffersKept DEF DataInv
<1>7. DurableView' = DurableView /\ MemView' = MemView
  BY <1>0, ViewsKept
<1>8. Active' = Active \ {p}
  BY <1>1 DEF Active
<1>9. Atomic!End(p)
  BY <1>2, <1>7, <1>8 DEF Atomic!End
<1> QED BY <1>6, <1>9 DEF AtomicStep, Atomic!Step

\* The end of end_op() lets new operations in.
LEMMA EndOpFinishData ==
  ASSUME LInv, ~overrun, DataInv, NEW p \in Proc, end_op_finish(p)
  PROVE  DataInv' /\ AtomicStep
<1>0. pc \in [Proc -> Places]
  BY DEF LInv, TypeOK
<1>1. /\ pc[p] = "done" /\ pc'[p] = "idle"
      /\ \A q \in Proc \ {p} : pc'[q] = IF pc[q] = "sleep" THEN "retry" ELSE pc[q]
  BY <1>0 DEF end_op_finish, wakeup
<1>2. DataInv' /\ DurableView' = DurableView /\ MemView' = MemView
  BY <1>1, DataKept, Zenon DEF end_op_finish, Running, diskVars, bufVars, sysVars, Stage
<1>3. Active' = Active
  BY <1>1 DEF Active
<1> QED BY <1>2, <1>3 DEF AtomicStep

-----------------------------------------------------------------------------
(* log_write() *)

\* The caller of log_write() modifies a buffer that no other process holds.
LEMMA LogWriteTestData ==
  ASSUME LInv, ~overrun, DataInv, NEW p \in Proc, NEW b \in Home, NEW v \in Val, log_write_test(p, b, v)
  PROVE  DataInv' /\ AtomicStep
<1>0. /\ pc \in [Proc -> Places] /\ held \in [Proc -> Home \cup {0}]
      /\ cache \in [Home -> Val \cup {NoBuf}]
      /\ boot = "up" /\ boot' = "up"
      /\ UNCHANGED <<disk, dhead, dirty, lh, tail>>
      /\ v # NoBuf
  BY LogConstants, Zenon DEF LInv, TypeOK, log_write_test, Running, diskVars, logVars
<1>1. /\ pc[p] = "op" /\ pc'[p] = "append" /\ held'[p] = b
      /\ \A q \in Proc \ {p} : pc'[q] = pc[q] /\ held'[q] = held[q]
  BY <1>0, Zenon DEF log_write_test
<1>2. cache'[b] = v /\ \A c \in Home \ {b} : cache'[c] = cache[c]
  BY <1>0, Zenon DEF log_write_test
<1>3. p \in Active /\ \A q \in Proc : pc[q] \notin Stage /\ pc'[q] \notin Stage
  BY <1>1 DEF Active, LInv, SpaceAccounting, Control, Commit, Stage
<1>4. CommitStages'
  <2>1. dhead = <<>> /\ dirty = Logged /\ Logged' = Logged
    BY <1>0, <1>3 DEF DataInv, CommitStages, Stage, Logged
  <2> QED BY <1>0, <1>3, <2>1 DEF CommitStages, Stage
<1>5. CleanMatchesDisk'
  <2> SUFFICES ASSUME NEW c \in Home, cache'[c] # NoBuf, c \notin dirty,
                      \A q \in Proc : held'[q] # c
               PROVE  cache'[c] = disk[c]
    BY <1>0 DEF CleanMatchesDisk
  <2>1. c # b /\ cache'[c] = cache[c]
    BY <1>1, <1>2
  <2>2. held[p] = 0 /\ c # 0
    BY <1>1, Geometry DEF DataInv
  <2>3. \A q \in Proc : held[q] # c
    BY <1>1, <2>2
  <2> QED BY <2>1, <2>3 DEF DataInv, CleanMatchesDisk
<1>6. DataInv'
  <2>1. \A q \in Proc : pc'[q] # "append" => held'[q] = 0
    BY <1>1 DEF DataInv
  <2>2. Distinct(lh)' /\ Distinct(dhead)' /\ RecoveryStages'
    BY <1>0 DEF DataInv, RecoveryStages
  <2> QED BY <1>4, <1>5, <2>1, <2>2 DEF DataInv
<1>7. DurableView' = DurableView
  BY <1>0 DEF DurableView
<1>8. MemView' = [MemView EXCEPT ![b] = v]
  <2>1. bread(b)' = v /\ \A c \in Home \ {b} : bread(c)' = bread(c)
    BY <1>0, <1>2 DEF bread
  <2>2. MemView = [c \in Home |-> bread(c)] /\ MemView' = [c \in Home |-> bread(c)']
    BY <1>0 DEF MemView
  <2> QED BY <2>1, <2>2
<1>9. Active' = Active
  BY <1>1 DEF Active
<1>10. Atomic!Write(p, b, v)
  BY <1>3, <1>7, <1>8, <1>9 DEF Atomic!Write
<1> QED BY <1>6, <1>10 DEF AtomicStep, Atomic!Step

\* log_write() logs the block, or absorbs the write, and pins the buffer.
LEMMA LogWriteAppendData ==
  ASSUME LInv, ~overrun, DataInv, NEW p \in Proc, log_write_append(p)
  PROVE  DataInv' /\ AtomicStep
<1> DEFINE b == held[p]
<1>0. /\ pc \in [Proc -> Places] /\ held \in [Proc -> Home \cup {0}]
      /\ lh \in Seq(Home) /\ Len(lh) \in Nat
      /\ boot = "up" /\ boot' = "up"
      /\ UNCHANGED <<disk, dhead, cache, tail>>
      /\ dirty' = dirty \cup {b}
  BY DEF LInv, TypeOK, log_write_append, Running, diskVars, sysVars
<1>1. /\ pc[p] = "append" /\ pc'[p] = "op" /\ held'[p] = 0
      /\ \A q \in Proc \ {p} : pc'[q] = pc[q] /\ held'[q] = held[q]
  BY <1>0 DEF log_write_append
<1>2. b \in Home
  BY <1>1, Zenon DEF LInv, SpaceAccounting, Space, Bounded
<1>3. p \in Active /\ \A q \in Proc : pc[q] \notin Stage /\ pc'[q] \notin Stage
  BY <1>1 DEF Active, LInv, SpaceAccounting, Control, Commit, Stage
<1>4. lh' = IF b \in Logged THEN lh ELSE Append(lh, b)
  BY DEF log_write_append
<1> HIDE DEF b
<1>5. Logged' = Logged \cup {b} /\ Distinct(lh')
  <2>1. CASE b \in Logged
    BY <1>4, <2>1 DEF Logged, DataInv
  <2>2. CASE b \notin Logged
    <3>1. lh' = Append(lh, b)
      BY <1>4, <2>2
    <3>2. /\ DOMAIN lh' = 1..(Len(lh) + 1) /\ DOMAIN lh = 1..Len(lh)
          /\ lh'[Len(lh) + 1] = b
          /\ \A i \in 1..Len(lh) : lh'[i] = lh[i] /\ lh[i] # b
      BY <1>0, <1>2, <2>2, <3>1 DEF Logged
    <3>3. Logged' = Logged \cup {b}
      BY <1>0, <3>2 DEF Logged
    <3>4. Distinct(lh')
      BY <1>0, <3>2 DEF Distinct, DataInv
    <3> QED BY <3>3, <3>4
  <2> QED BY <2>1, <2>2
<1>6. CommitStages'
  <2>1. dhead = <<>> /\ dirty = Logged
    BY <1>0, <1>3 DEF DataInv, CommitStages, Stage
  <2> QED BY <1>0, <1>3, <1>5, <2>1 DEF CommitStages, Stage
<1>7. CleanMatchesDisk'
  <2> SUFFICES ASSUME NEW c \in Home, cache[c] # NoBuf, c \notin dirty',
                      \A q \in Proc : held'[q] # c
               PROVE  cache[c] = disk[c]
    BY <1>0 DEF CleanMatchesDisk
  <2>1. c \notin dirty /\ \A q \in Proc : held[q] # c
    BY <1>0, <1>1 DEF b
  <2> QED BY <2>1 DEF DataInv, CleanMatchesDisk
<1>8. DataInv'
  <2>1. \A q \in Proc : pc'[q] # "append" => held'[q] = 0
    BY <1>1 DEF DataInv
  <2>2. Distinct(lh)' /\ Distinct(dhead)' /\ RecoveryStages'
    BY <1>0, <1>5 DEF DataInv, RecoveryStages, Distinct
  <2> QED BY <1>6, <1>7, <2>1, <2>2 DEF DataInv
<1>9. DurableView' = DurableView /\ MemView' = MemView /\ Active' = Active
  BY <1>0, <1>1, ViewsKept DEF Active
<1> QED BY <1>8, <1>9 DEF AtomicStep

-----------------------------------------------------------------------------
(* commit() *)

\* While a process commits, no buffer is held and no other process is at a stage.
LEMMA CommitterAlone ==
  ASSUME LInv, ~overrun, DataInv, NEW p \in Proc, Commit(p)
  PROVE  /\ boot = "up" /\ pc \in [Proc -> Places]
         /\ \A q \in Proc : held[q] = 0 /\ pc[q] \notin {"op", "append"}
         /\ \A q \in Proc \ {p} : pc[q] \notin Stage
         /\ \A b \in Home : cache[b] # NoBuf /\ b \notin dirty => cache[b] = disk[b]
<1>1. /\ Active = {} /\ boot = "up" /\ \A q \in Proc \ {p} : ~Commit(q)
  BY CommitAlone
<1>2. pc \in [Proc -> Places]
  BY DEF LInv, TypeOK
<1>3. \A q \in Proc : pc[q] \notin {"op", "append"} /\ held[q] = 0
  BY <1>1 DEF Active, DataInv
<1>4. \A b \in Home : b # 0
  BY Geometry
<1>5. \A b \in Home : cache[b] # NoBuf /\ b \notin dirty => cache[b] = disk[b]
  BY <1>3, <1>4 DEF DataInv, CleanMatchesDisk
<1> QED BY <1>1, <1>2, <1>3, <1>5, Zenon DEF Commit, Stage

\* write_log() copies one block of the transaction to its log block.
LEMMA WriteLogData ==
  ASSUME LInv, ~overrun, DataInv, NEW p \in Proc, write_log(p)
  PROVE  DataInv' /\ AtomicStep
<1>0. /\ disk \in [Addr -> Val] /\ cache \in [Home -> Val \cup {NoBuf}] /\ dirty \in SUBSET Home
      /\ UNCHANGED <<dhead, lh, held, boot>> /\ tail' = tail + 1 /\ tail \in Nat
  BY DEF LInv, TypeOK, write_log, logVars, sysVars
<1>1. /\ boot = "up" /\ pc \in [Proc -> Places]
      /\ \A q \in Proc : held[q] = 0 /\ pc[q] \notin {"op", "append"}
      /\ \A q \in Proc \ {p} : pc[q] \notin Stage
  BY CommitterAlone DEF write_log, Commit
<1>2. /\ pc[p] = "write_log" /\ pc'[p] = IF tail = Len(lh) THEN "write_head" ELSE "write_log"
      /\ \A q \in Proc \ {p} : pc'[q] = pc[q]
  BY <1>1 DEF write_log
<1>3. tail \in 1..Len(lh) /\ Len(lh) \in Nat
  BY <1>2, Geometry DEF LInv, SpaceAccounting, Control
<1>4. tail \in Addr /\ tail \notin Home /\ \A i \in 1..Len(lh) : lh[i] \in Home
  BY <1>3, Geometry
<1>5. /\ disk' = [disk EXCEPT ![tail] = bread(lh[tail])]
      /\ cache' = cache /\ dirty' = dirty
  BY <1>0, <1>4 DEF write_log, bwrite
<1>6. /\ disk'[tail] = bread(lh[tail])
      /\ \A i \in 1..Len(lh) : i # tail => disk'[i] = disk[i]
      /\ \A b \in Home : disk'[b] = disk[b]
  BY <1>0, <1>4, <1>5
<1>7. \A b \in Home : bread(b)' = bread(b)
  BY <1>5, <1>6 DEF bread
<1>8. dhead = <<>> /\ dirty = Logged /\ Logged' = Logged /\ LogHoldsCache(tail - 1)
  BY <1>0, <1>1, <1>2 DEF DataInv, CommitStages, Stage, Logged
<1>9. \A i \in 1..tail : disk'[i] = bread(lh[i])'
  <2> SUFFICES ASSUME NEW i \in 1..tail PROVE disk'[i] = bread(lh[i])'
    OBVIOUS
  <2>1. bread(lh[i])' = bread(lh[i])
    BY <1>0, <1>3, <1>4, <1>7
  <2>2. CASE i = tail
    BY <1>6, <2>1, <2>2
  <2>3. CASE i # tail
    BY <1>3, <1>6, <1>8, <2>1, <2>3 DEF LogHoldsCache
  <2> QED BY <2>2, <2>3
<1>10. CommitStages'
  <2>1. \A q \in Proc : /\ pc'[q] \notin {"install", "erase"}
                        /\ pc'[q] = "write_head" => tail = Len(lh)
    BY <1>1, <1>2 DEF Stage
  <2>2. LogHoldsCache(tail - 1)'
    BY <1>0, <1>9 DEF LogHoldsCache
  <2>3. \A q \in Proc : pc'[q] = "write_head" => LogHoldsCache(Len(lh))'
    BY <1>0, <1>9, <2>1 DEF LogHoldsCache
  <2> QED BY <1>0, <1>5, <1>8, <2>1, <2>2, <2>3, Zenon DEF CommitStages
<1>11. CleanMatchesDisk'
  BY <1>0, <1>5, <1>6 DEF DataInv, CleanMatchesDisk
<1>12. DataInv'
  <2>1. Distinct(lh)' /\ Distinct(dhead)' /\ RecoveryStages'
    BY <1>0, <1>1 DEF DataInv, RecoveryStages, Distinct
  <2> QED BY <1>0, <1>1, <1>10, <1>11, <2>1 DEF DataInv
<1>13. DurableView' = DurableView
  BY <1>0, <1>6, <1>8, OverlayEmpty DEF DurableView
<1>14. MemView' = MemView
  BY <1>0, <1>1, <1>7 DEF MemView
<1>15. Active' = Active
  BY <1>1, <1>2 DEF Active
<1> QED BY <1>12, <1>13, <1>14, <1>15 DEF AtomicStep

\* write_head() is the commit point: what a reboot recovers becomes, in one
\* step, what the file system has in memory.
LEMMA WriteHeadData ==
  ASSUME LInv, ~overrun, DataInv, NEW p \in Proc, write_head(p)
  PROVE  DataInv' /\ AtomicStep
<1>0. UNCHANGED <<disk, cache, dirty, lh, held, boot>> /\ tail' = 1 /\ dhead' = lh
  BY DEF write_head, bufVars, logVars, sysVars
<1>1. /\ boot = "up" /\ pc \in [Proc -> Places]
      /\ \A q \in Proc : held[q] = 0 /\ pc[q] \notin {"op", "append"}
      /\ \A q \in Proc \ {p} : pc[q] \notin Stage
      /\ \A b \in Home : cache[b] # NoBuf /\ b \notin dirty => cache[b] = disk[b]
  BY CommitterAlone DEF write_head, Commit
<1>2. /\ pc[p] = "write_head" /\ pc'[p] = "install"
      /\ \A q \in Proc \ {p} : pc'[q] = pc[q]
  BY <1>1 DEF write_head
<1>3. /\ lh \in Seq(Home) /\ Len(lh) \in Nat
      /\ \A i \in 1..Len(lh) : lh[i] \in Home /\ i \notin Home
  BY Geometry
<1>4. /\ dhead = <<>> /\ dirty = Logged /\ LogHoldsCache(Len(lh))
      /\ Logged = {lh[i] : i \in 1..Len(lh)}
  BY <1>1, <1>2, <1>3 DEF DataInv, CommitStages, Stage, Logged
<1>5. LogHoldsCache(Len(lh))'
  BY <1>0, <1>4 DEF LogHoldsCache, bread
<1>6. CommitStages'
  <2>1. \A q \in Proc : pc'[q] \notin {"write_log", "write_head", "erase"}
    BY <1>1, <1>2 DEF Stage
  <2>2. dirty' = {lh'[i] : i \in tail'..Len(lh')}
    BY <1>0, <1>4
  <2>3. dhead' = lh' /\ pc'[p] = "install"
    BY <1>0, <1>2
  <2> QED BY <1>5, <2>1, <2>2, <2>3, Zenon DEF CommitStages
<1>7. DataInv'
  <2>1. Distinct(lh)' /\ Distinct(dhead)' /\ RecoveryStages' /\ CleanMatchesDisk'
    BY <1>0, <1>1 DEF DataInv, RecoveryStages, CleanMatchesDisk, Distinct
  <2> QED BY <1>0, <1>1, <1>6, <2>1 DEF DataInv
<1>8. MemView' = MemView /\ MemView = [b \in Home |-> bread(b)]
  BY <1>0, <1>1 DEF MemView, bread
<1>9. DurableView' = MemView
  <2>1. DurableView' = Overlay(disk, lh) /\ Distinct(lh)
    BY <1>0 DEF DurableView, DataInv
  <2>2. \A b \in Home : Overlay(disk, lh)[b] = bread(b)
    <3> SUFFICES ASSUME NEW b \in Home PROVE Overlay(disk, lh)[b] = bread(b)
      OBVIOUS
    <3>1. CASE \E i \in 1..Len(lh) : lh[i] = b
      BY <1>3, <1>4, <2>1, <3>1, OverlayAt DEF LogHoldsCache
    <3>2. CASE \A i \in 1..Len(lh) : lh[i] # b
      <4>1. b \notin dirty
        BY <1>4, <3>2
      <4>2. bread(b) = disk[b]
        BY <1>1, <4>1 DEF bread
      <4> QED BY <1>3, <2>1, <3>2, <4>2, OverlayAt
    <3> QED BY <3>1, <3>2
  <2>3. Overlay(disk, lh) = [b \in Home |-> Overlay(disk, lh)[b]]
    BY DEF Overlay
  <2> QED BY <1>8, <2>1, <2>2, <2>3
<1>10. Active' = Active /\ Active = {}
  BY <1>1, <1>2 DEF Active
<1>11. Atomic!Commit
  BY <1>8, <1>9, <1>10 DEF Atomic!Commit
<1> QED BY <1>7, <1>11 DEF AtomicStep, Atomic!Step

\* install_trans() during a commit writes home what the log block holds, which
\* is what the cache already shows.
LEMMA InstallTransData ==
  ASSUME LInv, ~overrun, DataInv, NEW p \in Proc, install_trans(p)
  PROVE  DataInv' /\ AtomicStep
<1>0. /\ disk \in [Addr -> Val] /\ cache \in [Home -> Val \cup {NoBuf}] /\ dirty \in SUBSET Home
      /\ UNCHANGED <<dhead, lh, held, boot>> /\ tail' = tail + 1 /\ tail \in Nat
  BY DEF LInv, TypeOK, install_trans, install_block, logVars, sysVars
<1>1. /\ boot = "up" /\ pc \in [Proc -> Places]
      /\ \A q \in Proc : held[q] = 0 /\ pc[q] \notin {"op", "append"}
      /\ \A q \in Proc \ {p} : pc[q] \notin Stage
      /\ \A b \in Home : cache[b] # NoBuf /\ b \notin dirty => cache[b] = disk[b]
  BY CommitterAlone DEF install_trans, Commit
<1>2. /\ pc[p] = "install" /\ pc'[p] = IF tail = Len(lh) THEN "erase" ELSE "install"
      /\ \A q \in Proc \ {p} : pc'[q] = pc[q]
  BY <1>1 DEF install_trans
<1>3. /\ lh \in Seq(Home) /\ Len(lh) \in Nat /\ tail \in 1..Len(lh)
      /\ \A i \in 1..Len(lh) : lh[i] \in Home /\ i \notin Home /\ lh[i] \in Addr
      /\ Distinct(lh)
  BY <1>2, Geometry DEF LInv, SpaceAccounting, Control, DataInv
<1>4. /\ dhead = lh /\ LogHoldsCache(Len(lh)) /\ dirty = {lh[i] : i \in tail..Len(lh)}
  BY <1>2 DEF DataInv, CommitStages
<1> DEFINE b == lh[tail]
<1>5. /\ bread(tail) = disk[tail] /\ disk[tail] = bread(b) /\ b \in Home
      /\ disk[tail] \in Val
  BY <1>0, <1>3, <1>4, Geometry DEF bread, LogHoldsCache
<1>6. /\ disk' = [disk EXCEPT ![b] = disk[tail]]
      /\ cache' = [c \in Home |-> IF c = b THEN disk[tail] ELSE cache[c]]
      /\ dirty' = dirty \ {b}
  BY <1>5 DEF install_trans, install_block, bwrite
<1>. HIDE DEF b
<1>7. /\ disk'[b] = disk[tail] /\ cache'[b] = disk[tail]
      /\ \A c \in Home \ {b} : disk'[c] = disk[c] /\ cache'[c] = cache[c]
      /\ \A i \in 1..Len(lh) : disk'[i] = disk[i]
  BY <1>0, <1>3, <1>5, <1>6, Geometry
<1>8. \A c \in Home : bread(c)' = bread(c)
  BY <1>5, <1>7, LogConstants DEF bread
<1>9. dirty' = {lh[i] : i \in (tail + 1)..Len(lh)}
  <2>1. \A i \in 1..Len(lh) : lh[i] = b => i = tail
    BY <1>3 DEF Distinct, b
  <2> QED BY <1>3, <1>4, <1>6, <2>1 DEF b
<1>10. LogHoldsCache(Len(lh))'
  BY <1>0, <1>3, <1>4, <1>7, <1>8 DEF LogHoldsCache
<1>11. CommitStages'
  <2>1. \A q \in Proc : /\ pc'[q] \notin {"write_log", "write_head"}
                        /\ pc'[q] = "erase" => tail = Len(lh)
    BY <1>1, <1>2 DEF Stage
  <2>2. dirty' = {lh'[i] : i \in tail'..Len(lh')}
    BY <1>0, <1>9
  <2>3. tail = Len(lh) => dirty' = {}
    BY <1>3, <1>9
  <2>4. dhead' = lh' /\ pc'[p] \in {"install", "erase"}
    BY <1>0, <1>2, <1>4
  <2> QED BY <1>10, <2>1, <2>2, <2>3, <2>4, Zenon DEF CommitStages
<1>12. CleanMatchesDisk'
  <2> SUFFICES ASSUME NEW c \in Home, cache'[c] # NoBuf, c \notin dirty'
               PROVE  cache'[c] = disk'[c]
    BY DEF CleanMatchesDisk
  <2>1. CASE c = b
    BY <1>7, <2>1
  <2>2. CASE c # b
    BY <1>1, <1>6, <1>7, <2>2
  <2> QED BY <2>1, <2>2
<1>13. DataInv'
  <2>1. Distinct(lh)' /\ Distinct(dhead)' /\ RecoveryStages'
    BY <1>0, <1>1 DEF DataInv, RecoveryStages, Distinct
  <2> QED BY <1>0, <1>1, <1>11, <1>12, <2>1 DEF DataInv
<1>14. DurableView' = DurableView
  <2>1. DurableView' = Overlay(disk', lh) /\ DurableView = Overlay(disk, lh)
    BY <1>0, <1>4 DEF DurableView
  <2>2. \A c \in Home : (\A i \in 1..Len(lh) : lh[i] # c) => disk'[c] = disk[c]
    BY <1>3, <1>7 DEF b
  <2> QED BY <1>3, <1>7, <2>1, <2>2, OverlaySame
<1>15. MemView' = MemView
  BY <1>0, <1>1, <1>8 DEF MemView
<1>16. Active' = Active
  BY <1>1, <1>2 DEF Active
<1> QED BY <1>13, <1>14, <1>15, <1>16 DEF AtomicStep

\* A header whose blocks have all been installed can go: the disk shows the same
\* without it.
LEMMA InstalledShows ==
  ASSUME NEW d, NEW h \in Seq(Home), Distinct(h), \A i \in 1..Len(h) : d[h[i]] = d[i]
  PROVE  Overlay(d, h) = Overlay(d, <<>>)
<1>1. \A b \in Home : Overlay(d, h)[b] = d[b]
  <2> SUFFICES ASSUME NEW b \in Home PROVE Overlay(d, h)[b] = d[b]
    OBVIOUS
  <2>1. CASE \E i \in 1..Len(h) : h[i] = b
    BY <2>1, OverlayAt
  <2>2. CASE \A i \in 1..Len(h) : h[i] # b
    BY <2>2, OverlayAt
  <2> QED BY <2>1, <2>2
<1>2. Overlay(d, h) = [b \in Home |-> Overlay(d, h)[b]]
  BY DEF Overlay
<1> QED BY <1>1, <1>2, OverlayEmpty

\* The end of a commit erases the header, when every block is home.
LEMMA CommitEraseData ==
  ASSUME LInv, ~overrun, DataInv, NEW p \in Proc, commit_erase(p)
  PROVE  DataInv' /\ AtomicStep
<1>0. UNCHANGED <<disk, cache, dirty, held, boot>> /\ dhead' = <<>> /\ lh' = <<>>
  BY DEF commit_erase, erase_head, bufVars, sysVars
<1>1. /\ boot = "up" /\ pc \in [Proc -> Places]
      /\ \A q \in Proc : held[q] = 0 /\ pc[q] \notin {"op", "append"}
      /\ \A q \in Proc \ {p} : pc[q] \notin Stage
      /\ \A b \in Home : cache[b] # NoBuf /\ b \notin dirty => cache[b] = disk[b]
  BY CommitterAlone DEF commit_erase, Commit
<1>2. /\ pc[p] = "erase" /\ pc'[p] = "done"
      /\ \A q \in Proc \ {p} : pc'[q] = pc[q]
  BY <1>1 DEF commit_erase
<1>3. /\ lh \in Seq(Home) /\ \A i \in 1..Len(lh) : lh[i] \in Home
  BY Geometry
<1>4. dhead = lh /\ LogHoldsCache(Len(lh)) /\ dirty = {} /\ Distinct(lh)
  BY <1>2 DEF DataInv, CommitStages
<1>5. \A i \in 1..Len(lh) : disk[lh[i]] = disk[i]
  BY <1>1, <1>3, <1>4 DEF LogHoldsCache, bread
<1>6. DataInv'
  <2>1. \A q \in Proc : pc'[q] \notin Stage
    BY <1>1, <1>2 DEF Stage
  <2>2. Logged' = {}
    BY <1>0 DEF Logged
  <2>3. CommitStages'
    BY <1>0, <1>4, <2>1, <2>2 DEF CommitStages, Stage
  <2>4. Distinct(lh)' /\ Distinct(dhead)' /\ RecoveryStages'
    BY <1>0, <1>1 DEF RecoveryStages, Distinct
  <2>5. CleanMatchesDisk'
    BY <1>0, <1>1 DEF CleanMatchesDisk
  <2> QED BY <1>0, <1>1, <2>3, <2>4, <2>5 DEF DataInv
<1>7. DurableView' = DurableView
  BY <1>0, <1>3, <1>4, <1>5, InstalledShows DEF DurableView
<1>8. MemView' = MemView
  BY <1>0, <1>1 DEF MemView, bread
<1>9. Active' = Active
  BY <1>1, <1>2 DEF Active
<1> QED BY <1>6, <1>7, <1>8, <1>9 DEF AtomicStep

-----------------------------------------------------------------------------
(* The buffer cache, crashes and recovery *)

\* bget() recycles only buffers that the disk can give back.
LEMMA RecycleData ==
  ASSUME LInv, ~overrun, DataInv, NEW b \in Home, Recycle(b)
  PROVE  DataInv' /\ AtomicStep
<1>0. /\ cache \in [Home -> Val \cup {NoBuf}]
      /\ UNCHANGED <<disk, dhead, dirty, held, lh, pc, tail, boot>>
  BY DEF LInv, TypeOK, Recycle, diskVars, logVars, sysVars
<1>1. cache[b] = disk[b]
  BY DEF Recycle, DataInv, CleanMatchesDisk
<1>2. cache'[b] = NoBuf /\ \A c \in Home \ {b} : cache'[c] = cache[c]
  BY <1>0 DEF Recycle
<1>3. \A a : bread(a)' = bread(a)
  BY <1>0, <1>1, <1>2 DEF bread
<1>4. CommitStages'
  <2>1. Logged' = Logged /\ \A n : LogHoldsCache(n)' <=> LogHoldsCache(n)
    BY <1>0, <1>3 DEF Logged, LogHoldsCache
  <2> QED BY <1>0, <2>1 DEF DataInv, CommitStages
<1>5. DataInv'
  <2>1. CleanMatchesDisk'
    BY <1>0, <1>2 DEF DataInv, CleanMatchesDisk
  <2>2. Distinct(lh)' /\ Distinct(dhead)' /\ RecoveryStages'
    BY <1>0 DEF DataInv, RecoveryStages, Installed
  <2> QED BY <1>0, <1>4, <2>1, <2>2 DEF DataInv
<1>6. DurableView' = DurableView /\ Active' = Active
  BY <1>0 DEF DurableView, Active
<1>7. MemView' = MemView
  BY <1>0, <1>3, <1>6 DEF MemView
<1> QED BY <1>5, <1>6, <1>7 DEF AtomicStep

\* A crash throws away what is in memory and nothing of what is durable.
LEMMA CrashData ==
  ASSUME LInv, ~overrun, DataInv, Crash
  PROVE  DataInv' /\ AtomicStep
<1>0. /\ UNCHANGED <<disk, dhead>> /\ lh' = <<>> /\ dirty' = {} /\ boot' = "read"
      /\ \A b \in Home : cache'[b] = NoBuf
      /\ \A q \in Proc : pc'[q] = "idle" /\ held'[q] = 0
  BY DEF Crash, diskVars
<1>1. DataInv'
  <2>1. CommitStages' /\ RecoveryStages' /\ CleanMatchesDisk'
    BY <1>0 DEF CommitStages, RecoveryStages, CleanMatchesDisk
  <2>2. Distinct(lh)' /\ Distinct(dhead)'
    BY <1>0 DEF DataInv, Distinct
  <2> QED BY <1>0, <2>1, <2>2 DEF DataInv
<1>2. DurableView' = DurableView /\ Active' = {}
  BY <1>0 DEF DurableView, Active
<1>3. MemView' = DurableView
  BY <1>0, <1>2 DEF MemView
<1>4. Atomic!Crash
  BY <1>2, <1>3 DEF Atomic!Crash
<1> QED BY <1>1, <1>4 DEF AtomicStep, Atomic!Step

\* During recovery no process runs and no buffer is held.
LEMMA BootAlone ==
  ASSUME LInv, ~overrun, DataInv, boot # "up"
  PROVE  /\ \A q \in Proc : pc[q] = "idle" /\ held[q] = 0
         /\ \A b \in Home : cache[b] # NoBuf => cache[b] = disk[b]
         /\ dirty = {}
<1>1. \A q \in Proc : pc[q] = "idle" /\ held[q] = 0
  BY DEF LInv, SpaceAccounting, Control, DataInv
<1>2. dirty = {} /\ \A b \in Home : b # 0
  BY Geometry DEF DataInv, RecoveryStages
<1> QED BY <1>1, <1>2 DEF DataInv, CleanMatchesDisk

\* read_head() takes the header the disk has.
LEMMA ReadHeadData ==
  ASSUME LInv, ~overrun, DataInv, read_head
  PROVE  DataInv' /\ AtomicStep
<1>0. /\ UNCHANGED <<disk, dhead, cache, dirty, held, pc>> /\ lh' = dhead /\ tail' = 1
      /\ boot = "read" /\ boot' = IF dhead = <<>> THEN "erase" ELSE "install"
  BY DEF read_head, diskVars, bufVars
<1>1. /\ \A q \in Proc : pc[q] = "idle" /\ held[q] = 0
      /\ dirty = {}
  BY <1>0, BootAlone
<1>2. DataInv'
  <2>1. CommitStages' /\ CleanMatchesDisk'
    BY <1>0, <1>1 DEF CommitStages, CleanMatchesDisk, DataInv
  <2>2. Distinct(lh)' /\ Distinct(dhead)'
    BY <1>0 DEF DataInv, Distinct
  <2>3. RecoveryStages'
    BY <1>0, <1>1 DEF RecoveryStages, Installed
  <2> QED BY <1>0, <1>1, <2>1, <2>2, <2>3 DEF DataInv
<1>3. DurableView' = DurableView /\ MemView' = MemView /\ Active' = Active
  BY <1>0 DEF DurableView, MemView, Active
<1> QED BY <1>2, <1>3 DEF AtomicStep

\* install_trans() during recovery writes a listed block home.
LEMMA RecoverInstallData ==
  ASSUME LInv, ~overrun, DataInv, recover_install
  PROVE  DataInv' /\ AtomicStep
<1>0. /\ disk \in [Addr -> Val] /\ cache \in [Home -> Val \cup {NoBuf}]
      /\ UNCHANGED <<dhead, lh, held, pc>> /\ tail' = tail + 1
      /\ boot = "install" /\ boot' = IF tail = Len(lh) THEN "erase" ELSE "install"
  BY DEF LInv, TypeOK, recover_install, install_block, logVars
<1>1. /\ \A q \in Proc : pc[q] = "idle" /\ held[q] = 0
      /\ \A b \in Home : cache[b] # NoBuf => cache[b] = disk[b]
      /\ dirty = {}
  BY <1>0, BootAlone
<1>2. /\ lh \in Seq(Home) /\ Len(lh) \in Nat /\ tail \in 1..Len(lh)
      /\ \A i \in 1..Len(lh) : lh[i] \in Home /\ i \notin Home /\ lh[i] \in Addr
      /\ Distinct(lh) /\ lh = dhead /\ Installed(tail - 1)
  BY <1>0, Geometry DEF LInv, SpaceAccounting, Control, DataInv, RecoveryStages
<1> DEFINE b == lh[tail]
<1>3. b \in Home /\ bread(tail) = disk[tail]
  BY <1>2 DEF bread
<1>4. /\ disk' = [disk EXCEPT ![b] = disk[tail]]
      /\ cache' = [c \in Home |-> IF c = b THEN disk[tail] ELSE cache[c]]
      /\ dirty' = dirty \ {b}
  BY <1>3 DEF recover_install, install_block, bwrite
<1>5. b # tail /\ \A i \in 1..Len(lh) : lh[i] = b => i = tail
  BY <1>2 DEF Distinct
<1> HIDE DEF b
<1>6. /\ disk'[b] = disk[tail] /\ cache'[b] = disk[tail]
      /\ \A c \in Home \ {b} : disk'[c] = disk[c] /\ cache'[c] = cache[c]
      /\ \A i \in 1..Len(lh) : disk'[i] = disk[i]
  BY <1>0, <1>2, <1>3, <1>4, Geometry
<1>7. \A i \in 1..tail : disk'[lh[i]] = disk'[i]
  <2> SUFFICES ASSUME NEW i \in 1..tail PROVE disk'[lh[i]] = disk'[i]
    OBVIOUS
  <2>1. CASE i = tail
    BY <1>2, <1>6, <2>1 DEF b
  <2>2. CASE i # tail
    <3>1. i \in 1..(tail - 1) /\ i \in 1..Len(lh) /\ lh[i] \in Home /\ lh[i] # b
      BY <1>2, <1>5, <2>2
    <3> QED BY <1>2, <1>6, <3>1 DEF Installed
  <2> QED BY <2>1, <2>2
<1>8. RecoveryStages'
  BY <1>0, <1>1, <1>2, <1>4, <1>7 DEF RecoveryStages, Installed
<1>9. DataInv'
  <2>1. CleanMatchesDisk'
    BY <1>1, <1>6 DEF CleanMatchesDisk
  <2>2. CommitStages'
    BY <1>0, <1>1 DEF CommitStages
  <2>3. Distinct(lh)' /\ Distinct(dhead)'
    BY <1>0 DEF DataInv, Distinct
  <2> QED BY <1>0, <1>1, <1>8, <2>1, <2>2, <2>3 DEF DataInv
<1>10. DurableView' = DurableView
  <2>1. DurableView' = Overlay(disk', lh) /\ DurableView = Overlay(disk, lh)
    BY <1>0, <1>2 DEF DurableView
  <2>2. \A c \in Home : (\A i \in 1..Len(lh) : lh[i] # c) => disk'[c] = disk[c]
    BY <1>2, <1>6 DEF b
  <2> QED BY <1>2, <1>6, <2>1, <2>2, OverlaySame
<1>11. MemView' = MemView /\ Active' = Active
  BY <1>0, <1>10 DEF MemView, Active
<1> QED BY <1>9, <1>10, <1>11 DEF AtomicStep

\* Recovery erases the header when every listed block is home, and hands the
\* file system exactly what was durable.
LEMMA RecoverEraseData ==
  ASSUME LInv, ~overrun, DataInv, recover_erase
  PROVE  DataInv' /\ AtomicStep
<1>0. /\ UNCHANGED <<disk, cache, dirty, held, pc>> /\ lh' = <<>> /\ dhead' = <<>>
      /\ boot = "erase" /\ boot' = "up"
  BY DEF recover_erase, erase_head, bufVars
<1>1. /\ \A q \in Proc : pc[q] = "idle" /\ held[q] = 0
      /\ \A b \in Home : cache[b] # NoBuf => cache[b] = disk[b]
      /\ dirty = {}
  BY <1>0, BootAlone
<1>2. lh \in Seq(Home) /\ Distinct(lh) /\ lh = dhead /\ Installed(Len(lh))
  BY <1>0, Geometry DEF DataInv, RecoveryStages
<1>3. DataInv'
  <2>1. Logged' = {} /\ Distinct(lh)' /\ Distinct(dhead)'
    BY <1>0 DEF Logged, Distinct
  <2>2. CommitStages' /\ RecoveryStages' /\ CleanMatchesDisk'
    BY <1>0, <1>1, <2>1 DEF CommitStages, RecoveryStages, CleanMatchesDisk
  <2> QED BY <1>0, <1>1, <2>1, <2>2 DEF DataInv
<1>4. DurableView' = DurableView /\ DurableView = [b \in Home |-> disk[b]]
  BY <1>0, <1>2, InstalledShows, OverlayEmpty DEF DurableView, Installed
<1>5. MemView' = MemView
  <2>1. MemView = DurableView /\ MemView' = [b \in Home |-> bread(b)']
    BY <1>0 DEF MemView
  <2>2. \A b \in Home : bread(b)' = disk[b]
    BY <1>0, <1>1 DEF bread
  <2> QED BY <1>4, <2>1, <2>2
<1>6. Active' = Active
  BY <1>0 DEF Active
<1> QED BY <1>3, <1>4, <1>5, <1>6 DEF AtomicStep

\* A step of something else.
LEMMA StutterData ==
  ASSUME DataInv, UNCHANGED vars
  PROVE  DataInv' /\ AtomicStep
<1>0. UNCHANGED <<disk, dhead, cache, dirty, held, lh, pc, tail, boot>>
  BY DEF vars, diskVars, bufVars, logVars, sysVars
<1>1. CommitStages'
  BY <1>0, StagesKept
<1>2. DataInv'
  BY <1>0, <1>1 DEF DataInv, Distinct, CleanMatchesDisk, RecoveryStages, Installed
<1>3. DurableView' = DurableView /\ MemView' = MemView /\ Active' = Active
  BY <1>0, ViewsKept DEF Active
<1> QED BY <1>2, <1>3 DEF AtomicStep

-----------------------------------------------------------------------------
(* The theorems *)

\* Every step of log.c keeps the blocks where they belong, and is a step of
\* AtomicDisk or changes neither of its views.
LEMMA NextData ==
  ASSUME LInv, ~overrun, DataInv, [Next]_vars
  PROVE  DataInv' /\ AtomicStep
<1>1. CASE UNCHANGED vars
  BY <1>1, StutterData
<1>2. ASSUME NEW p \in Proc, op_step(p) PROVE DataInv' /\ AtomicStep
  <2>1. ASSUME NEW w \in Writes, log_write_test(p, w[1], w[2]) PROVE DataInv' /\ AtomicStep
    BY <2>1, LogWriteTestData, WritesAssumption
  <2> QED BY <1>2, <2>1, BeginOpData, BeginOpSleepData, LogWriteAppendData, EndOpData,
             EndOpLastData DEF op_step
<1>3. ASSUME NEW p \in Proc, commit_step(p) PROVE DataInv' /\ AtomicStep
  BY <1>3, WriteLogData, WriteHeadData, InstallTransData, CommitEraseData, EndOpFinishData
  DEF commit_step
<1>4. CASE recovery
  BY <1>4, ReadHeadData, RecoverInstallData, RecoverEraseData DEF recovery
<1> QED BY <1>1, <1>2, <1>3, <1>4, RecycleData, CrashData DEF Next

\* The freshly made disk.
LEMMA InitData ==
  ASSUME Init
  PROVE  DataInv /\ ~overrun /\ Atomic!Init
<1>1. DataInv
  BY DEF Init, DataInv, Distinct, CleanMatchesDisk, CommitStages, RecoveryStages
<1>2. DurableView = [b \in Home |-> Zero]
  <2>1. \A b \in Home : b \in Addr
    BY LogConstants DEF Home, Addr
  <2> QED BY <2>1, OverlayEmpty DEF Init, DurableView
<1>3. MemView = DurableView /\ Active = {}
  BY DEF Init, MemView, Active
<1>4. overrun = FALSE
  BY DEF Init
<1> QED BY <1>1, <1>2, <1>3, <1>4 DEF Atomic!Init

\* When no operation is open and no commit is under way, all is durable.
LEMMA QuietIsDurable ==
  ASSUME LInv, ~overrun, DataInv
  PROVE  QuiescentDurable
<1> SUFFICES ASSUME Running, Active = {}, ~committing
             PROVE  dhead = <<>> /\ lh = <<>> /\ dirty = {} /\ MemView = DurableView
  BY DEF QuiescentDurable
<1>1. boot = "up" /\ lh = <<>> /\ \A q \in Proc : ~Commit(q)
  BY DEF Running, LInv, SpaceAccounting, Control
<1>2. dhead = <<>> /\ dirty = {}
  BY <1>1 DEF DataInv, CommitStages, Commit, Logged
<1>3. \A b \in Home : bread(b) = disk[b]
  <2>1. \A q \in Proc : held[q] = 0
    BY DEF Active, DataInv
  <2> QED BY <1>2, <2>1, Geometry DEF DataInv, CleanMatchesDisk, bread
<1> QED BY <1>1, <1>2, <1>3, OverlayEmpty DEF MemView, DurableView

\* A log that has been outgrown stays so in the history.
LEMMA OverrunStays ==
  ASSUME TypeOK, overrun, [Next]_vars
  PROVE  overrun' = TRUE
<1>0. overrun = TRUE
  BY DEF TypeOK
<1>1. CASE UNCHANGED vars
  BY <1>0, <1>1 DEF vars, history
<1>2. ASSUME NEW p \in Proc, op_step(p) PROVE overrun' = TRUE
  BY <1>0, <1>2, Zenon DEF op_step, begin_op, begin_op_sleep, log_write_test, log_write_append,
     end_op, end_op_last, history
<1>3. ASSUME NEW p \in Proc, commit_step(p) PROVE overrun' = TRUE
  BY <1>0, <1>3, Zenon DEF commit_step, write_log, write_head, install_trans, commit_erase,
     end_op_finish, history
<1>4. CASE recovery
  BY <1>0, <1>4, Zenon DEF recovery, read_head, recover_install, recover_erase, history
<1>5. ASSUME NEW b \in Home, Recycle(b) PROVE overrun' = TRUE
  BY <1>0, <1>5, Zenon DEF Recycle, history
<1>6. CASE Crash
  BY <1>0, <1>6, Zenon DEF Crash, history
<1> QED BY <1>1, <1>2, <1>3, <1>4, <1>5, <1>6, Zenon DEF Next

\* What the theorems are proved from.
WhereInv == LInv /\ (overrun \/ DataInv)

\* It is inductive, and its steps are steps of AtomicDisk.
LEMMA NextWhere ==
  ASSUME WhereInv, [Next]_vars
  PROVE  WhereInv' /\ [Atomic!Next]_(Atomic!vars)
<1> USE DEF WhereInv
<1>1. LInv' /\ overrun' \in BOOLEAN
  BY NextLInv DEF LInv, TypeOK
<1>2. CASE overrun
  <2>1. overrun' = TRUE
    BY <1>2, OverrunStays DEF LInv
  <2> QED BY <1>1, <2>1 DEF Atomic!Next
<1>3. CASE ~overrun
  <2>1. DataInv' /\ AtomicStep
    BY <1>3, NextData
  <2>2. CASE overrun'
    BY <1>1, <2>2 DEF Atomic!Next
  <2>3. CASE ~overrun'
    <3>1. overrun' = overrun
      BY <1>1, <1>3, <2>3 DEF LInv, TypeOK
    <3> QED BY <1>1, <1>3, <2>1, <3>1 DEF AtomicStep, Atomic!Next, Atomic!vars
  <2> QED BY <2>2, <2>3
<1> QED BY <1>2, <1>3

\* At every step of every execution each block's contents are where the next
\* stage of commit() or of recovery looks for them; and when the last end_op()
\* has returned everything written is durable and the on-disk log is empty; as
\* long as no transaction outgrows the log.
THEOREM DurableTheorem == Spec => []DurableInv
<1>1. Init => WhereInv
  BY InitLInv, InitData DEF WhereInv
<1>2. WhereInv /\ [Next]_vars => WhereInv'
  BY NextWhere
<1>3. WhereInv => DurableInv
  BY QuietIsDurable DEF DurableInv, WhereInv
<1> QED BY <1>1, <1>2, <1>3, PTL DEF Spec

\* Crash atomicity: log.c implements AtomicDisk.  Whatever the interleaving of
\* operations, the commit and the crashes, what a reboot recovers changes only in
\* write_head(), in one step, to all that has been written, with no operation
\* open, until a transaction outgrows the log.
THEOREM CrashAtomicityTheorem == Spec => CrashAtomicity
<1>1. Init => WhereInv /\ Atomic!Init
  BY InitLInv, InitData DEF WhereInv
<1>2. WhereInv /\ [Next]_vars => WhereInv'
  BY NextWhere
<1>3. WhereInv /\ [Next]_vars => [Atomic!Next]_(Atomic!vars)
  BY NextWhere
<1> QED BY <1>1, <1>2, <1>3, PTL DEF Spec, CrashAtomicity, Atomic!Spec
=============================================================================
