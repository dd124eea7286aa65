------------------------------- MODULE Bcache -------------------------------
(***************************************************************************)
(* The buffer cache (bio.c) on top of the IDE driver (ide.c).              *)
(*                                                                         *)
(* Processes bread() blocks, modify them, bwrite() them or pin them with   *)
(* B_DIRTY the way log_write() does, and brelse() them.  A step is one     *)
(* critical section of bcache.lock or of idelock; the disk works on one    *)
(* command at a time and raises an interrupt when it is done.  A process   *)
(* holds one buffer at a time.                                             *)
(***************************************************************************)
EXTENDS Integers, Sequences, FiniteSets, Functions

CONSTANTS Proc,        \* processes
          NBUF,        \* number of buffers
          Block,       \* block numbers
          Val, Zero,   \* block contents; contents of the fresh disk
          NoProc, NoBuf, NoBlock,
          MaxPinned,   \* buffers log.c keeps pinned with B_DIRTY, at most
          BadBlock     \* blocks on which the disk may fail a command

ASSUME BcacheConstants ==
  /\ NBUF \in Nat /\ Zero \in Val /\ MaxPinned \in Nat
  /\ BadBlock \subseteq Block
  /\ NoProc \notin Proc /\ NoBuf \notin 1..NBUF /\ NoBlock \notin Block

\* The array bcache.buf.
Buf == 1..NBUF

VARIABLES
  buf,       \* struct buf: blockno, the flags B_BUSY/B_VALID/B_DIRTY, data
  lru,       \* the list bcache.head: most recently used first
  idequeue,  \* buffers waiting for the disk, the active request first
  cmd,       \* the command in the disk's registers
  ide,       \* the disk: "idle", "busy", or an interrupt pending after it
             \* is "done" or hit an "error"
  disk,      \* contents of the disk
  pc,        \* where each process is in bread/bwrite/brelse
  want,      \* the block a process asked bread() for
  has,       \* the buffer bget() gave it, or NoBuf; bget's sleep channel
  panicked   \* panic("bget: no buffers")

ideVars == <<idequeue, cmd, ide, disk>>
vars == <<buf, lru, ideVars, pc, want, has, panicked>>

Command == [write : BOOLEAN, blockno : Block \cup {NoBlock}, data : Val]
NoCmd == [write |-> FALSE, blockno |-> NoBlock, data |-> Zero]

TypeOK ==
  /\ buf \in [Buf -> [blockno : Block \cup {NoBlock}, busy : BOOLEAN,
                      valid : BOOLEAN, dirty : BOOLEAN, data : Val]]
  /\ lru \in [1..NBUF -> Buf]
  /\ idequeue \in Seq(Buf)
  /\ cmd \in Command
  /\ ide \in {"idle", "busy", "done", "error"}
  /\ disk \in [Block -> Val]
  /\ pc \in [Proc -> {"idle", "bget", "bsleep", "iderw", "iosleep", "iotest",
                      "hold"}]
  /\ want \in [Proc -> Block \cup {NoBlock}]
  /\ has \in [Proc -> Buf \cup {NoBuf}]
  /\ panicked \in BOOLEAN

\* binit(): no buffer stands for any block; each is put in front of the list.
Init ==
  /\ buf = [x \in Buf |-> [blockno |-> NoBlock, busy |-> FALSE,
                           valid |-> FALSE, dirty |-> FALSE, data |-> Zero]]
  /\ lru = [i \in 1..NBUF |-> NBUF + 1 - i]
  /\ idequeue = <<>>
  /\ cmd = NoCmd
  /\ ide = "idle"
  /\ disk = [b \in Block |-> Zero]
  /\ pc = [p \in Proc |-> "idle"]
  /\ want = [p \in Proc |-> NoBlock]
  /\ has = [p \in Proc |-> NoBuf]
  /\ panicked = FALSE

\* Past bget() and before brelse(): the process owns a buffer.
Owning == {"iderw", "iosleep", "iotest", "hold"}
Owns(p) == pc[p] \in Owning
Pinned == {x \in Buf : buf[x].dirty /\ x \notin Range(idequeue)}

-----------------------------------------------------------------------------
(* bget(), one pass through its loop *)

Cached(b) == {x \in Buf : buf[x].blockno = b}

\* Fault: a pinned buffer may be recycled.
FaultReusable == {x \in Buf : ~buf[x].busy}

\* The buffers the second loop of bget() may take.
Reusable == {x \in Buf : ~buf[x].busy /\ ~buf[x].dirty}

\* The one it takes: the one of them furthest back in the list.
Victim(x) ==
  \E i \in DOMAIN lru : /\ lru[i] = x /\ x \in Reusable
                        /\ \A j \in DOMAIN lru : j > i => lru[j] \notin Reusable

\* A process calls bread().
bread(p, b) ==
  /\ ~panicked
  /\ pc[p] = "idle"
  /\ pc' = [pc EXCEPT ![p] = "bget"]
  /\ want' = [want EXCEPT ![p] = b]
  /\ UNCHANGED <<buf, lru, ideVars, has, panicked>>

\* The block is cached and free: take it, and skip the disk if B_VALID.
bget_hit(p) ==
  /\ ~panicked
  /\ pc[p] = "bget"
  /\ \E x \in Cached(want[p]) :
       /\ ~buf[x].busy
       /\ buf' = [buf EXCEPT ![x].busy = TRUE]
       /\ has' = [has EXCEPT ![p] = x]
       /\ pc' = [pc EXCEPT ![p] = IF buf[x].valid THEN "hold" ELSE "iderw"]
  /\ UNCHANGED <<lru, ideVars, want, panicked>>

\* The block is cached and somebody has it: sleep on the buffer.
bget_sleep(p) ==
  /\ ~panicked
  /\ pc[p] = "bget"
  /\ \E x \in Cached(want[p]) :
       /\ buf[x].busy
       /\ has' = [has EXCEPT ![p] = x]
  /\ pc' = [pc EXCEPT ![p] = "bsleep"]
  /\ UNCHANGED <<buf, lru, ideVars, want, panicked>>

\* Not cached: recycle the least recently used clean free buffer.
bget_recycle(p) ==
  /\ ~panicked
  /\ pc[p] = "bget"
  /\ Cached(want[p]) = {}
  /\ \E x \in Buf :
       /\ Victim(x)
       /\ buf' = [buf EXCEPT ![x] = [@ EXCEPT !.blockno = want[p],
                            !.busy = TRUE, !.valid = FALSE, !.dirty = FALSE]]
       /\ has' = [has EXCEPT ![p] = x]
  /\ pc' = [pc EXCEPT ![p] = "iderw"]
  /\ UNCHANGED <<lru, ideVars, want, panicked>>

\* panic("bget: no buffers")
bget_panic(p) ==
  /\ ~panicked
  /\ pc[p] = "bget"
  /\ Cached(want[p]) = {}
  /\ Reusable = {}
  /\ panicked' = TRUE
  /\ UNCHANGED <<buf, lru, ideVars, pc, want, has>>

-----------------------------------------------------------------------------
(* The owner of a buffer *)

\* Modify the data and bwrite() it.
bwrite(p, v) ==
  /\ ~panicked
  /\ pc[p] = "hold"
  /\ buf' = [buf EXCEPT ![has[p]].data = v, ![has[p]].dirty = TRUE]
  /\ pc' = [pc EXCEPT ![p] = "iderw"]
  /\ UNCHANGED <<lru, ideVars, want, has, panicked>>

\* Modify the data and pin the buffer with B_DIRTY, as log_write() does.
Pin(p, v) ==
  /\ ~panicked
  /\ pc[p] = "hold"
  /\ Cardinality(Pinned \cup {has[p]}) <= MaxPinned
  /\ buf' = [buf EXCEPT ![has[p]].data = v, ![has[p]].dirty = TRUE]
  /\ UNCHANGED <<lru, ideVars, pc, want, has, panicked>>

\* wakeup(x), for sleepers in bget() and in iderw() alike: both sleep on x.
WakeAll(f, x) ==
  [q \in Proc |-> CASE f[q] = "bsleep" /\ has[q] = x -> "bget"
                    [] f[q] = "iosleep" /\ has[q] = x -> "iotest"
                    [] OTHER -> f[q]]

\* The list with x taken out and put back at its head.
MoveToFront(s, x) ==
  LET k == CHOOSE i \in DOMAIN s : s[i] = x
  IN [i \in DOMAIN s |-> IF i = 1 THEN x ELSE IF i <= k THEN s[i - 1] ELSE s[i]]

brelse(p) ==
  /\ ~panicked
  /\ pc[p] = "hold"
  /\ LET x == has[p] IN
       /\ buf' = [buf EXCEPT ![x].busy = FALSE]
       /\ lru' = MoveToFront(lru, x)
       /\ pc' = WakeAll([pc EXCEPT ![p] = "idle"], x)
  /\ has' = [has EXCEPT ![p] = NoBuf]
  /\ want' = [want EXCEPT ![p] = NoBlock]
  /\ UNCHANGED <<ideVars, panicked>>

-----------------------------------------------------------------------------
(* ide.c *)

\* idestart(): what the disk is told to do for buffer x.  The data of a write
\* is handed over here.
idestart(x) == [write |-> buf[x].dirty, blockno |-> buf[x].blockno,
                data |-> buf[x].data]

\* Fault: the disk is started even if it is at work.
FaultIderw(p) ==
  /\ ~panicked
  /\ pc[p] = "iderw"
  /\ idequeue' = Append(idequeue, has[p])
  /\ cmd' = idestart(has[p]) /\ ide' = "busy"
  /\ pc' = [pc EXCEPT ![p] = "iosleep"]
  /\ UNCHANGED <<buf, lru, disk, want, has, panicked>>

\* iderw() up to its sleep: append to the queue, start the disk if idle.
iderw(p) ==
  /\ ~panicked
  /\ pc[p] = "iderw"
  /\ idequeue' = Append(idequeue, has[p])
  /\ IF idequeue = <<>>
     THEN cmd' = idestart(has[p]) /\ ide' = "busy"
     ELSE UNCHANGED <<cmd, ide>>
  /\ pc' = [pc EXCEPT ![p] = "iosleep"]
  /\ UNCHANGED <<buf, lru, disk, want, has, panicked>>

\* The test of iderw()'s loop after a wakeup.
iderw_test(p) ==
  /\ ~panicked
  /\ pc[p] = "iotest"
  /\ pc' = [pc EXCEPT ![p] = IF buf[has[p]].valid /\ ~buf[has[p]].dirty
                             THEN "hold" ELSE "iosleep"]
  /\ UNCHANGED <<buf, lru, ideVars, want, has, panicked>>

\* The disk carries out its command and raises the interrupt.
DiskDone ==
  /\ ~panicked
  /\ ide = "busy"
  /\ ide' = "done"
  /\ disk' = IF cmd.write THEN [disk EXCEPT ![cmd.blockno] = cmd.data] ELSE disk
  /\ UNCHANGED <<buf, lru, idequeue, cmd, pc, want, has, panicked>>

\* The disk fails the command: nothing is read or written.
DiskFails ==
  /\ ~panicked
  /\ ide = "busy"
  /\ cmd.blockno \in BadBlock
  /\ ide' = "error"
  /\ UNCHANGED <<buf, lru, idequeue, cmd, disk, pc, want, has, panicked>>

\* ideintr(): the first queued buffer is the active request.  insl() is
\* skipped when the status register shows an error; B_VALID is set anyway.
ideintr ==
  /\ ~panicked
  /\ ide \in {"done", "error"}
  /\ LET x == Head(idequeue)
         insl == ~buf[x].dirty /\ ide = "done"
     IN /\ buf' = [buf EXCEPT ![x] =
                     [@ EXCEPT !.valid = TRUE, !.dirty = FALSE,
                               !.data = IF insl THEN disk[cmd.blockno] ELSE buf[x].data]]
        /\ pc' = WakeAll(pc, x)
  /\ idequeue' = Tail(idequeue)
  /\ IF Len(idequeue) > 1
     THEN cmd' = idestart(idequeue[2]) /\ ide' = "busy"
     ELSE cmd' = NoCmd /\ ide' = "idle"
  /\ UNCHANGED <<lru, disk, want, has, panicked>>

-----------------------------------------------------------------------------
bget(p) == bget_hit(p) \/ bget_sleep(p) \/ bget_recycle(p) \/ bget_panic(p)

Next ==
  \/ \E p \in Proc : \/ \E b \in Block : bread(p, b)
                     \/ bget(p)
                     \/ \E v \in Val : bwrite(p, v) \/ Pin(p, v)
                     \/ brelse(p)
                     \/ iderw(p)
                     \/ iderw_test(p)
  \/ DiskDone
  \/ DiskFails
  \/ ideintr

Spec == Init /\ [][Next]_vars

-----------------------------------------------------------------------------
(* The refinement: bio.c and ide.c implement BlockStore. *)

\* The contents of a block, given the buffers and the disk: its valid buffer's,
\* else the disk's.
Contents(f, d) ==
  [b \in Block \ BadBlock |->
     IF \E x \in Buf : f[x].blockno = b /\ f[x].valid
     THEN f[CHOOSE x \in Buf : f[x].blockno = b /\ f[x].valid].data
     ELSE d[b]]

StoreView == Contents(buf, disk)

\* The process that owns a block's buffer, given the buffers and where each
\* process is and what it has.
Owners(f, c, h) ==
  [b \in Block |-> IF \E p \in Proc : c[p] \in Owning /\ f[h[p]].blockno = b
                   THEN CHOOSE p \in Proc : c[p] \in Owning /\ f[h[p]].blockno = b
                   ELSE NoProc]

OwnerView == Owners(buf, pc, has)

Blocks == INSTANCE BlockStore WITH store <- StoreView, owner <- OwnerView

\* Recycling buffers and going through the disk is invisible: a block has one
\* owner at a time, who finds there what the previous owner left, whatever the
\* disk's failures on other blocks.
StoreRefinement == Blocks!Spec

-----------------------------------------------------------------------------
(* Properties. *)

\* bget() never makes a second buffer for a block, even when the process slept
\* and the buffer it slept on was recycled meanwhile.
OneBufferPerBlock ==
  \A x, y \in Buf : (x # y /\ buf[x].blockno = buf[y].blockno)
                      => buf[x].blockno = NoBlock

\* B_BUSY is a lock: exactly the processes past bget() own a busy buffer, each
\* a different one.
BusyIsOwned ==
  /\ \A p, q \in Proc : (Owns(p) /\ Owns(q) /\ has[p] = has[q]) => p = q
  /\ \A x \in Buf : buf[x].busy <=> \E p \in Proc : Owns(p) /\ has[p] = x

\* The buffer that bget() gave a process is for the block it asked for, and valid
\* when bread() returns; iderw() finds something to do and is not left before it
\* is done.
Asked(p) ==
  /\ pc[p] # "idle" => want[p] \in Block
  /\ pc[p] = "bsleep" => has[p] \in Buf
  /\ Owns(p) => has[p] \in Buf /\ buf[has[p]].blockno = want[p]
  /\ pc[p] = "iderw" => ~buf[has[p]].valid \/ buf[has[p]].dirty
  /\ pc[p] \in {"iotest", "hold"} => buf[has[p]].valid
  /\ pc[p] = "iotest" => ~buf[has[p]].dirty

ReadsWhatItAsked == \A p \in Proc : Asked(p)

\* Only a buffer that stands for a block is valid, and only a valid one dirty;
\* no buffer drops off the list.
BuffersSound ==
  /\ \A x \in Buf : buf[x].valid => buf[x].blockno \in Block
  /\ \A x \in Buf : buf[x].dirty => buf[x].valid
  /\ \A x \in Buf : \E i \in DOMAIN lru : lru[i] = x

\* A buffer that has been read and is not dirty agrees with the disk, unless
\* the disk failed on it: ideintr() sets B_VALID and clears B_DIRTY all the same.
CleanMatchesDisk ==
  \A x \in Buf : (buf[x].valid /\ ~buf[x].dirty /\ buf[x].blockno \notin BadBlock)
                   => buf[x].data = disk[buf[x].blockno]

\* A process asleep in iderw() has its buffer in the queue, once, and the queue
\* holds nothing else; the disk is at work exactly when the queue is not empty,
\* and on its first buffer.
IoIsQueued ==
  /\ \A p \in Proc : pc[p] = "iosleep" => has[p] \in Range(idequeue)
  /\ \A i, j \in DOMAIN idequeue : idequeue[i] = idequeue[j] => i = j
  /\ \A i \in DOMAIN idequeue : \E p \in Proc : pc[p] = "iosleep" /\ has[p] = idequeue[i]
  /\ ide = "idle" <=> idequeue = <<>>
  /\ idequeue # <<>> => cmd = idestart(Head(idequeue))
  /\ (ide = "done" /\ cmd.write) => disk[cmd.blockno] = cmd.data
  /\ ide = "error" => cmd.blockno \in BadBlock

\* A process asleep in bget() sleeps on a buffer that another process owns and
\* will release: the wakeup is not lost.
BgetSleeperHasWaker ==
  \A p \in Proc : pc[p] = "bsleep" =>
    \E q \in Proc \ {p} : Owns(q) /\ has[q] = has[p]

\* The cache and the request queue are sound together at every step of bget(),
\* brelse(), iderw() and ideintr(): a block has one buffer, a busy buffer one
\* owner, a clean buffer what is on the disk, and a waiting one its request; a caller
\* gets the block that it asked for; and a sleeper in bget() will be woken.  The
\* conjunction is inductive.
CacheInv ==
  /\ TypeOK /\ BuffersSound /\ OneBufferPerBlock /\ BusyIsOwned /\ CleanMatchesDisk
  /\ IoIsQueued /\ ReadsWhatItAsked /\ BgetSleeperHasWaker
=============================================================================
