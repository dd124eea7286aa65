-------------------------------- MODULE Log --------------------------------
(***************************************************************************)
(* The write-ahead log of log.c: begin_op/log_write/end_op by concurrent   *)
(* file-system calls, the group commit, a crash at any disk write, and the *)
(* recovery that initlog() runs at boot.                                   *)
(*                                                                         *)
(* Steps are the pieces of log.c between two points where another process  *)
(* (or a crash) can get in: one critical section of log.lock, one unlocked *)
(* test, or one synchronous bwrite().  A write of one 512-byte sector is   *)
(* atomic.  The buffer cache is what log.c relies on: a buffer held by a   *)
(* process is exclusive, a buffer with B_DIRTY is never recycled, and a    *)
(* clean one may be dropped at any time.                                   *)
(***************************************************************************)
EXTENDS Integers, Sequences, FiniteSets

CONSTANTS Proc,         \* processes that run file-system calls
          Val, Zero,    \* block contents; what mkfs leaves in a block
          NoBuf,        \* "not in the buffer cache"
          MAXOPBLOCKS,  \* log blocks begin_op() reserves for each operation
          LOGSIZE,      \* capacity of struct logheader
          NLOG,         \* sb.nlog: blocks of the on-disk log, header included
          NHOME,        \* blocks after the log area
          Writes,       \* what the operations write: a block and its new contents
          MaxCrashes    \* bound on the number of crashes

ASSUME LogConstants ==
  /\ MAXOPBLOCKS \in Nat \ {0}
  /\ LOGSIZE \in Nat /\ NLOG \in Nat \ {0} /\ NHOME \in Nat
  /\ MAXOPBLOCKS <= LOGSIZE /\ LOGSIZE \div MAXOPBLOCKS <= NHOME + 1
  /\ MaxCrashes \in Nat
  /\ Zero \in Val /\ NoBuf \notin Val
  /\ IsFiniteSet(Proc)

(***************************************************************************)
(* Disk addresses relative to log.start: the header is block 0 and has a   *)
(* variable of its own, log block number i (tail = i-1 in the code) is at  *)
(* i, and the first inode block follows the log area at NLOG.              *)
(***************************************************************************)
Home == NLOG..(NLOG + NHOME - 1)
Addr == 1..(NLOG + NHOME - 1)

ASSUME WritesAssumption == Writes \subseteq Home \X Val

\* The blocks that both the header and the log area have room for, the
\* operations that begin_op() lets in at a time, and the blocks that an
\* operation may log without endangering the others.
Limit == IF LOGSIZE < NLOG THEN LOGSIZE ELSE NLOG - 1
MaxOps == LOGSIZE \div MAXOPBLOCKS
Share == IF LOGSIZE < NLOG THEN MAXOPBLOCKS ELSE MAXOPBLOCKS + NLOG - 1 - LOGSIZE

VARIABLES
  disk,         \* contents of every block but the log header
  dhead,        \* the on-disk log header: the block numbers it lists
  cache,        \* cached contents of the home blocks, or NoBuf
  dirty,        \* home blocks whose buffer has B_DIRTY
  lh,           \* log.lh: block numbers logged by the current transaction
  outstanding,  \* log.outstanding
  committing,   \* log.committing
  pc,           \* where each process is in begin_op/log_write/end_op
  held,         \* the buffer a process holds with B_BUSY, or 0
  wrote,        \* blocks the process's current operation has logged
  tail,         \* next log block of write_log()/install_trans(), from 1
  boot,         \* progress of initlog(): "read", "install", "erase", "up"
  panicked,     \* the panic() that stopped the machine, or "no"
  crashes,      \* crashes so far
  greedy,       \* history: an operation of the transaction in the log has called
                \* log_write() with its share of the log used up
  overrun       \* history: a transaction has outgrown the log

diskVars == <<disk, dhead>>
bufVars  == <<cache, dirty, held>>
logVars  == <<lh, outstanding, committing>>
sysVars  == <<boot, panicked, crashes>>
history  == <<greedy, overrun>>
vars     == <<diskVars, bufVars, logVars, pc, wrote, tail, sysVars, history>>

Logged == {lh[i] : i \in DOMAIN lh}
Running == boot = "up" /\ panicked = "no"

\* Processes counted in log.outstanding.
Active == {p \in Proc : pc[p] \in {"op", "append"}}

Panics == {"no", "too big a transaction", "log_write outside of trans", "log.committing"}
Places == {"idle", "retry", "sleep", "op", "append", "write_log", "write_head",
           "install", "erase", "done"}

TypeOK ==
  /\ disk \in [Addr -> Val]
  /\ dhead \in Seq(Home)
  /\ cache \in [Home -> Val \cup {NoBuf}]
  /\ dirty \in SUBSET Home
  /\ lh \in Seq(Home)
  /\ outstanding \in 0..Cardinality(Proc)
  /\ committing \in BOOLEAN
  /\ pc \in [Proc -> Places]
  /\ held \in [Proc -> Home \cup {0}]
  /\ wrote \in [Proc -> SUBSET Home]
  /\ tail \in Nat
  /\ boot \in {"read", "install", "erase", "up"}
  /\ panicked \in Panics
  /\ crashes \in 0..MaxCrashes
  /\ greedy \in BOOLEAN
  /\ overrun \in BOOLEAN

\* mkfs has just made the file system and the kernel boots for the first time.
Init ==
  /\ disk = [a \in Addr |-> Zero]
  /\ dhead = <<>>
  /\ cache = [b \in Home |-> NoBuf]
  /\ dirty = {}
  /\ lh = <<>>
  /\ outstanding = 0
  /\ committing = FALSE
  /\ pc = [p \in Proc |-> "idle"]
  /\ held = [p \in Proc |-> 0]
  /\ wrote = [p \in Proc |-> {}]
  /\ tail = 1
  /\ boot = "read"
  /\ panicked = "no"
  /\ crashes = 0
  /\ greedy = FALSE
  /\ overrun = FALSE

-----------------------------------------------------------------------------
(* The buffer cache as log.c uses it. *)

\* What bread() of block a returns: the cached copy, else the disk's.
bread(a) == IF a \in Home /\ cache[a] # NoBuf THEN cache[a] ELSE disk[a]

\* bwrite() of block a with contents v: the copy and the disk agree, and the
\* driver has cleared B_DIRTY when it returns.
bwrite(a, v) ==
  /\ disk' = [disk EXCEPT ![a] = v]
  /\ cache' = [b \in Home |-> IF b = a THEN v ELSE cache[b]]
  /\ dirty' = dirty \ {a}

\* bget() recycles a buffer that is neither B_BUSY nor B_DIRTY.
Recycle(b) ==
  /\ panicked = "no"
  /\ cache[b] # NoBuf
  /\ b \notin dirty
  /\ \A p \in Proc : held[p] # b
  /\ cache' = [cache EXCEPT ![b] = NoBuf]
  /\ UNCHANGED <<diskVars, dirty, held, logVars, pc, wrote, tail, sysVars, history>>

\* wakeup(&log): every sleeper becomes runnable and will test again.
wakeup(f) == [q \in Proc |-> IF f[q] = "sleep" THEN "retry" ELSE f[q]]

-----------------------------------------------------------------------------
(* begin_op() *)

\* Fault: the reservation forgets the operation that is about to start.
FaultMustWait ==
  \/ committing
  \/ Len(lh) + outstanding * MAXOPBLOCKS > LOGSIZE

\* The two tests on which begin_op() sleeps.
MustWait ==
  \/ committing
  \/ Len(lh) + (outstanding + 1) * MAXOPBLOCKS > LOGSIZE

begin_op_sleep(p) ==
  /\ Running
  /\ pc[p] \in {"idle", "retry"}
  /\ MustWait
  /\ pc' = [pc EXCEPT ![p] = "sleep"]
  /\ UNCHANGED <<diskVars, bufVars, logVars, wrote, tail, sysVars, history>>

begin_op(p) ==
  /\ Running
  /\ pc[p] \in {"idle", "retry"}
  /\ ~MustWait
  /\ outstanding' = outstanding + 1
  /\ pc' = [pc EXCEPT ![p] = "op"]
  /\ UNCHANGED <<diskVars, bufVars, lh, committing, wrote, tail, sysVars, history>>

-----------------------------------------------------------------------------
(* log_write() *)

\* The size test at the head of log_write(), made without log.lock.
TooBig == Len(lh) >= LOGSIZE \/ Len(lh) >= NLOG - 1

\* bread(), modify, and the unlocked tests of log_write().  The caller holds
\* the buffer from here to brelse().
log_write_test(p, b, v) ==
  /\ Running
  /\ pc[p] = "op"
  /\ \A q \in Proc : held[q] # b
  /\ cache' = [cache EXCEPT ![b] = v]
  /\ held' = [held EXCEPT ![p] = b]
  /\ panicked' = IF TooBig THEN "too big a transaction"
                 ELSE IF outstanding < 1 THEN "log_write outside of trans" ELSE "no"
  /\ pc' = [pc EXCEPT ![p] = "append"]
  /\ greedy' = (greedy \/ Cardinality(wrote[p]) >= Share)
  /\ UNCHANGED <<diskVars, dirty, logVars, wrote, tail, boot, crashes, overrun>>

\* The locked half of log_write(): absorption, B_DIRTY, and the caller's
\* brelse().  The array of the header has room for LOGSIZE blocks; what is
\* stored behind it is read back from there.
log_write_append(p) ==
  /\ Running
  /\ pc[p] = "append"
  /\ lh' = IF held[p] \in Logged THEN lh ELSE Append(lh, held[p])
  /\ dirty' = dirty \cup {held[p]}
  /\ wrote' = [wrote EXCEPT ![p] = @ \cup {held[p]}]
  /\ held' = [held EXCEPT ![p] = 0]
  /\ pc' = [pc EXCEPT ![p] = "op"]
  /\ overrun' = (overrun \/ Len(lh') > Limit)
  /\ UNCHANGED <<diskVars, cache, outstanding, committing, tail, sysVars, greedy>>

-----------------------------------------------------------------------------
(* end_op() and commit() *)

\* An operation ends while others are still open.
end_op(p) ==
  /\ Running
  /\ pc[p] = "op"
  /\ outstanding # 1
  /\ outstanding' = outstanding - 1
  /\ panicked' = IF committing THEN "log.committing" ELSE "no"
  /\ pc' = wakeup([pc EXCEPT ![p] = "idle"])
  /\ wrote' = [wrote EXCEPT ![p] = {}]
  /\ UNCHANGED <<diskVars, bufVars, lh, committing, tail, boot, crashes, history>>

\* Fault: the header is written before the log blocks.
FaultHeadFirst(p) ==
  /\ Running
  /\ pc[p] = "op"
  /\ outstanding = 1
  /\ outstanding' = 0
  /\ panicked' = IF committing THEN "log.committing" ELSE "no"
  /\ committing' = TRUE
  /\ pc' = [pc EXCEPT ![p] = IF lh = <<>> THEN "done" ELSE "write_head"]
  /\ tail' = 1
  /\ wrote' = [wrote EXCEPT ![p] = {}]
  /\ UNCHANGED <<diskVars, bufVars, lh, boot, crashes, history>>

\* The last operation ends: its process becomes the committer.
end_op_last(p) ==
  /\ Running
  /\ pc[p] = "op"
  /\ outstanding = 1
  /\ outstanding' = 0
  /\ panicked' = IF committing THEN "log.committing" ELSE "no"
  /\ committing' = TRUE
  /\ pc' = [pc EXCEPT ![p] = IF lh = <<>> THEN "done" ELSE "write_log"]
  /\ tail' = 1
  /\ wrote' = [wrote EXCEPT ![p] = {}]
  /\ UNCHANGED <<diskVars, bufVars, lh, boot, crashes, history>>

\* A copy holds two buffers; it waits for ever when they are the same block,
\* which takes a log that has run into the blocks behind it.
HoldsBoth == tail \in DOMAIN lh /\ lh[tail] = tail

\* One iteration of write_log(): cache block to log block.
write_log(p) ==
  /\ Running
  /\ pc[p] = "write_log"
  /\ ~HoldsBoth
  /\ bwrite(tail, bread(lh[tail]))
  /\ tail' = tail + 1
  /\ pc' = [pc EXCEPT ![p] = IF tail = Len(lh) THEN "write_head" ELSE @]
  /\ UNCHANGED <<dhead, held, logVars, wrote, sysVars, history>>

\* write_head(): the real commit.
write_head(p) ==
  /\ Running
  /\ pc[p] = "write_head"
  /\ dhead' = lh
  /\ tail' = 1
  /\ pc' = [pc EXCEPT ![p] = "install"]
  /\ UNCHANGED <<disk, bufVars, logVars, wrote, sysVars, history>>

\* Fault: the loop does not advance.
FaultStuckInstall == ~HoldsBoth /\ bwrite(lh[tail], bread(tail)) /\ UNCHANGED tail

\* One iteration of install_trans(), which commit() and recovery share.
install_block ==
  /\ ~HoldsBoth
  /\ bwrite(lh[tail], bread(tail))
  /\ tail' = tail + 1

install_trans(p) ==
  /\ Running
  /\ pc[p] = "install"
  /\ install_block
  /\ pc' = [pc EXCEPT ![p] = IF tail = Len(lh) THEN "erase" ELSE @]
  /\ UNCHANGED <<dhead, held, logVars, wrote, sysVars, history>>

\* Fault: the header is cleared in memory only.
FaultEraseMemory ==
  /\ lh' = <<>>
  /\ greedy' = FALSE
  /\ UNCHANGED dhead

\* log.lh.n = 0; write_head(), at the end of both commit() and recovery.
erase_head ==
  /\ lh' = <<>>
  /\ dhead' = <<>>
  /\ greedy' = FALSE

commit_erase(p) ==
  /\ Running
  /\ pc[p] = "erase"
  /\ erase_head
  /\ pc' = [pc EXCEPT ![p] = "done"]
  /\ tail' = 1
  /\ UNCHANGED <<disk, bufVars, outstanding, committing, wrote, sysVars, overrun>>

\* Fault: the sleepers in begin_op() are not woken after the commit.
FaultNoWakeup(p) ==
  /\ Running
  /\ pc[p] = "done"
  /\ committing' = FALSE
  /\ pc' = [pc EXCEPT ![p] = "idle"]
  /\ UNCHANGED <<diskVars, bufVars, lh, outstanding, wrote, tail, sysVars, history>>

\* The rest of end_op() after commit() has returned.
end_op_finish(p) ==
  /\ Running
  /\ pc[p] = "done"
  /\ committing' = FALSE
  /\ pc' = wakeup([pc EXCEPT ![p] = "idle"])
  /\ UNCHANGED <<diskVars, bufVars, lh, outstanding, wrote, tail, sysVars, history>>

-----------------------------------------------------------------------------
(* Crash, reboot, and the recovery of initlog() *)

\* Power fails, or somebody reboots a panicked machine: memory is gone.
Crash ==
  /\ crashes < MaxCrashes
  /\ crashes' = crashes + 1
  /\ cache' = [b \in Home |-> NoBuf]
  /\ dirty' = {}
  /\ held' = [p \in Proc |-> 0]
  /\ lh' = <<>>
  /\ outstanding' = 0
  /\ committing' = FALSE
  /\ pc' = [p \in Proc |-> "idle"]
  /\ wrote' = [p \in Proc |-> {}]
  /\ tail' = 1
  /\ boot' = "read"
  /\ panicked' = "no"
  /\ UNCHANGED <<diskVars, history>>

read_head ==
  /\ boot = "read"
  /\ lh' = dhead
  /\ tail' = 1
  /\ boot' = IF dhead = <<>> THEN "erase" ELSE "install"
  /\ UNCHANGED <<diskVars, bufVars, outstanding, committing, pc, wrote,
                 panicked, crashes, history>>

recover_install ==
  /\ boot = "install"
  /\ install_block
  /\ boot' = IF tail = Len(lh) THEN "erase" ELSE boot
  /\ UNCHANGED <<dhead, held, logVars, pc, wrote, panicked, crashes, history>>

recover_erase ==
  /\ boot = "erase"
  /\ erase_head
  /\ boot' = "up"
  /\ tail' = 1
  /\ UNCHANGED <<disk, bufVars, outstanding, committing, pc, wrote,
                 panicked, crashes, overrun>>

-----------------------------------------------------------------------------
commit_step(p) ==
  \/ write_log(p) \/ write_head(p) \/ install_trans(p)
  \/ commit_erase(p) \/ end_op_finish(p)

op_step(p) ==
  \/ begin_op(p) \/ begin_op_sleep(p)
  \/ \E w \in Writes : log_write_test(p, w[1], w[2])
  \/ log_write_append(p)
  \/ end_op(p) \/ end_op_last(p)

recovery == read_head \/ recover_install \/ recover_erase

Next ==
  \/ \E p \in Proc : op_step(p) \/ commit_step(p)
  \/ \E b \in Home : Recycle(b)
  \/ recovery
  \/ Crash

Spec == Init /\ [][Next]_vars

\* Fairness.  The committer and recovery are never blocked and the scheduler
\* is round-robin; a woken process is scheduled again; every file-system call
\* does a finite amount of work and then calls end_op().
Fairness ==
  /\ WF_vars(recovery)
  /\ \A p \in Proc :
       /\ WF_vars(commit_step(p))
       /\ WF_vars(log_write_append(p))
       /\ WF_vars(pc[p] = "retry" /\ (begin_op(p) \/ begin_op_sleep(p)))
       /\ SF_vars(end_op(p) \/ end_op_last(p))

FairSpec == Spec /\ Fairness

-----------------------------------------------------------------------------
(* The refinement: log.c implements AtomicDisk. *)

\* The home blocks of disk d, overlaid with the log blocks that header h lists.
Overlay(d, h) ==
  [b \in Home |-> IF \E i \in DOMAIN h : h[i] = b
                  THEN d[CHOOSE i \in DOMAIN h : h[i] = b]
                  ELSE d[b]]

\* What a reboot would recover.
DurableView == Overlay(disk, dhead)

\* What file-system calls read.  None runs before initlog() has returned.
MemView == IF boot = "up" THEN [b \in Home |-> bread(b)] ELSE DurableView

Atomic == INSTANCE AtomicDisk WITH
            durable <- DurableView, mem <- MemView, active <- Active,
            broken <- overrun

\* Crash atomicity: whatever the interleaving of operations, the commit and
\* the crashes, what a reboot recovers is the state after a commit point taken
\* with no operation open, and only write_head() moves that point, as long as
\* no transaction outgrows the log.
CrashAtomicity == Atomic!Spec

-----------------------------------------------------------------------------
(* Properties. *)

\* The log blocks that commit() writes lie in the on-disk log area and the
\* entries in struct logheader unless an operation took more than its share.
\* Even then, although log_write() tests the size without log.lock, they run
\* past it only by what the other open operations add after their tests.
LogFitsOnDisk ==
  /\ ~greedy => Len(lh) <= LOGSIZE /\ Len(lh) <= NLOG - 1
  /\ Len(lh) <= Limit + MaxOps - 1 /\ Len(dhead) <= Limit + MaxOps - 1

\* Of the panics of the logging layer "log_write outside of trans" and
\* "log.committing" are never reached, and "too big a transaction" only when an
\* operation took more than its share.
NoLogPanic == panicked = "no" \/ (panicked = "too big a transaction" /\ greedy)

\* When the last end_op() has returned, everything written so far is durable
\* and the on-disk log is empty: no commit is left for somebody else to do.
QuiescentDurable ==
  (Running /\ Active = {} /\ ~committing)
    => (dhead = <<>> /\ lh = <<>> /\ dirty = {} /\ MemView = DurableView)

\* A process asleep in begin_op() has somebody to wake it: a committer, or an
\* open operation whose end_op() will.
SleeperHasWaker ==
  (\E p \in Proc : pc[p] = "sleep") => (committing \/ Active # {})

\* Where a process is inside commit() or about to return from it.
Commit(p) == pc[p] \in {"write_log", "write_head", "install", "erase", "done"}

\* The log blocks that begin_op() has reserved for the open operations A and
\* that they have not used up yet: MAXOPBLOCKS for each, less what it has logged.
ReservedBy(A, w) ==
  {r \in A \X (1..MAXOPBLOCKS) : r[2] > Cardinality(w[r[1]])}

\* Who is where: outstanding counts the open operations, there is one committer
\* and only while no operation is open, and each stage has the log it needs.
Control ==
  /\ outstanding = Cardinality(Active)
  /\ committing <=> \E p \in Proc : Commit(p)
  /\ \A p, q \in Proc : Commit(p) /\ Commit(q) => p = q
  /\ committing => Active = {}
  /\ boot # "up" => panicked = "no" /\ \A p \in Proc : pc[p] = "idle"
  /\ \A p \in Proc : pc[p] \in {"write_log", "install"} => tail \in 1..Len(lh)
  /\ \A p \in Proc : pc[p] = "write_head" => lh # <<>>
  /\ \A p \in Proc : pc[p] = "done" => lh = <<>>
  /\ boot = "install" => tail \in 1..Len(lh)
  /\ (boot = "up" /\ Active = {} /\ ~committing) => lh = <<>>
  /\ NoLogPanic

\* Processes between the test of log_write() and its critical section.
Appending == {p \in Proc : pc[p] = "append"}

\* How far the log grows whatever the operations write.
Bounded ==
  /\ \A p \in Proc : IF p \in Active THEN wrote[p] \subseteq Logged /\ IsFiniteSet(wrote[p])
                                     ELSE wrote[p] = {}
  /\ \A p \in Proc : pc[p] = "append" => held[p] \in Home
  /\ outstanding <= MaxOps
  /\ Len(lh) <= Limit + MaxOps - 1 /\ Len(dhead) <= Limit + MaxOps - 1
  /\ panicked = "no" => Len(lh) + Cardinality(Appending) <= Limit + MaxOps - 1
  /\ overrun \/ (Len(lh) <= Limit /\ Len(dhead) <= Limit)

\* While the operations keep to their share, what is logged and what is reserved
\* together fit in the header, and the log fits on the disk.
Thrifty ==
  /\ \A p \in Proc : pc[p] = "append" => Cardinality(wrote[p]) < Share
  /\ Len(lh) + Cardinality(ReservedBy(Active, wrote)) <= LOGSIZE
  /\ Len(lh) <= Limit /\ Len(dhead) <= Limit

Space == Bounded /\ (greedy \/ Thrifty)
SpaceAccounting == Control /\ Space

\* Log space is accounted for at every step of begin_op(), log_write(), end_op(),
\* commit() and recovery, across crashes: the reservations hold while operations
\* keep to their share, the overrun is bounded when they do not, and no panic is
\* reached but that of a transaction with such an operation.  With the types this
\* is inductive.
LInv == TypeOK /\ SpaceAccounting

\* A header lists no block twice: log_write() absorbs the second write.
Distinct(h) == \A i, j \in DOMAIN h : h[i] = h[j] => i = j

\* A buffer differs from its block on disk only while a process modifies it or
\* B_DIRTY pins it.
CleanMatchesDisk ==
  \A b \in Home :
    (cache[b] # NoBuf /\ b \notin dirty /\ \A p \in Proc : held[p] # b)
      => cache[b] = disk[b]

\* The first n log blocks hold what the cache has of the blocks they stand for.
LogHoldsCache(n) == \A i \in 1..n : disk[i] = bread(lh[i])

\* The first n entries of the log have been installed.
Installed(n) == \A i \in 1..n : disk[lh[i]] = disk[i]

\* What is where at each stage of commit().
CommitStages ==
  /\ (boot = "up" /\ \A p \in Proc : pc[p] \notin {"install", "erase"})
       => (dhead = <<>> /\ dirty = Logged)
  /\ \A p \in Proc :
       /\ pc[p] = "write_log" => LogHoldsCache(tail - 1)
       /\ pc[p] = "write_head" => LogHoldsCache(Len(lh))
       /\ pc[p] \in {"install", "erase"} => (dhead = lh /\ LogHoldsCache(Len(lh)))
       /\ pc[p] = "install" => dirty = {lh[i] : i \in tail..Len(lh)}
       /\ pc[p] = "erase" => dirty = {}

\* What is where at each stage of recovery.
RecoveryStages ==
  /\ boot # "up" => dirty = {}
  /\ boot \in {"install", "erase"} => lh = dhead
  /\ boot = "install" => Installed(tail - 1)
  /\ boot = "erase" => Installed(Len(lh))

\* Where the contents of every block are.  With LInv this is inductive.
DataInv ==
  /\ Distinct(lh) /\ Distinct(dhead)
  /\ \A p \in Proc : pc[p] # "append" => held[p] = 0
  /\ CleanMatchesDisk
  /\ CommitStages
  /\ RecoveryStages

\* Every block's contents are where the next stage of commit() or of recovery
\* looks for them, and when the log is quiet all of them are durable, as long as
\* no transaction outgrows the log.
DurableInv == overrun \/ (DataInv /\ QuiescentDurable)

\* The machine has stopped: a panic, or a copy that waits for its own buffer.
Copying == boot = "install" \/ \E p \in Proc : pc[p] \in {"write_log", "install"}
Stopped == panicked # "no" \/ (Copying /\ HoldsBoth)

\* A process that goes to sleep in begin_op() is woken, if only by a reboot,
\* unless the machine stops.
SleepersWake == \A p \in Proc : pc[p] = "sleep" ~> (pc[p] # "sleep" \/ Stopped)

\* A boot completes and a commit completes unless a crash cuts them off or the
\* machine stops; after the last crash the log always gets idle again.
LogDrains == []<>((Running /\ ~committing) \/ Stopped)

\* begin_op() comes back and end_op() gets its commit done: both of the above.
LogGoesOn == SleepersWake /\ LogDrains
=============================================================================
