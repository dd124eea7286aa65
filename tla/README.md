# A formal model of os4

os4 is xv6 for the x86 with two additions: a disk that is split into partitions
by an MBR, each with a file system of its own, and a `mount` system call that
puts one partition's root over a directory of another. This directory holds TLA+
models of its kernel and of its larger user programs, the TLC configurations that
check them on small instances, and proofs about the write-ahead log, the buffer cache
with its disk driver, the inode cache, the mount table, the pipes and the process
table that TLAPS checks for every size.

Contents: [the system](#1-the-system), [modules and code](#2-modules-and-code),
[runs](#3-runs), [fairness](#4-fairness), [proofs](#5-proofs),
[what the code and its comments disagree on](#6-disagreements),
[what is not modelled](#7-what-is-not-modelled), [open ends](#8-open-ends).

To check a module: `tlc -config MCLog.cfg MCLog`; to check the proofs: `tlapm M.tla`
for M each of `LogProofs`, `LogAtomicity`, `BcacheProofs`, `IdeProofs`, `IcacheProofs`,
`MountProofs`, `PipeProofs` and `ProcProofs`.

## 1. The system

Parts of the kernel, their state, and who calls whom:

| Part | State | Operations | What makes it hard |
|---|---|---|---|
| write-ahead log, `log.c` | `log.lh`, `outstanding`, `committing`, the header on disk | `begin_op`, `log_write`, `end_op`, `commit`, `initlog`/recovery | a crash at every disk write, also in recovery; space reserved ahead; a size test without the lock; sleepers |
| buffer cache, `bio.c` | `bcache.buf[]`, the LRU list | `bread`, `bwrite`, `brelse` | recycling while others sleep for the buffer; pinned blocks |
| disk driver, `ide.c` | `idequeue`, the device | `iderw`, `idestart`, `ideintr` | interrupts against callers; disk errors; a channel shared with `bget` |
| inode cache, `fs.c` | `icache.inode[]`, disk inodes | `iget`, `idup`, `ilock`, `iunlock`, `iput`, `ialloc`, `iupdate` | slots reused while looked for; `iput` drops its lock to truncate |
| block allocator and file contents, `fs.c` | bitmap, `addrs[]`, indirect blocks | `balloc`, `bfree`, `bmap`, `readi`, `writei`, `itrunc` | blocks reused with old contents; allocation races freeing |
| directories and paths, `fs.c` | directory files | `dirlookup`, `dirlink`, `namex` | lock order; directories that go away |
| partitions, `fs.c` | `mbr`, `partitions[]` | `readmbr`, `readsb` | offsets relative to a partition |
| mount table, `fs.c` | `mount_points.pnts[]` | `mount`, `find_mp`, `is_mounted`, `is_inode_mounted`, hooks in `namex`, `dirlookup` | no lock at all |
| file table, `file.c`; calls, `sysfile.c` | `ftable`, `proc->ofile` | `filealloc`, `filedup`, `fileclose`, `fileread`, `filewrite`; `sys_*` | offsets shared by `fork`; writes split in transactions |
| pipes, `pipe.c` | `struct pipe` | `pipewrite`, `piperead`, `pipeclose` | counters that wrap; sleepers on both sides; the last close frees |
| processes, `proc.c`, `trap.c` | `ptable`, per-CPU `proc` | `fork`, `exit`, `wait`, `kill`, `sleep`, `wakeup`, `scheduler` | a lock that is handed across a context switch; parents that die |
| console, `console.c` | `input` ring, `cons.lock` | `consoleintr`, `consoleread`, `consolewrite` | an interrupt edits the line that is read |
| spin locks, `spinlock.c` | `locked`, `cpu->ncli`, `intena` | `acquire`, `release`, `pushcli`, `popcli` | interrupts between the steps |
| ticks, `trap.c`, `sysproc.c` | `ticks` | timer interrupt, `sys_sleep` | wrap, lost wakeups |
| memory, `kalloc.c`, `vm.c`, `exec.c` | free list, page tables | `kalloc`, `kfree`, `allocuvm`, `deallocuvm`, `copyuvm`, `freevm`, `exec`, `growproc` | failures half-way |
| `mkfs.c` | the image | partitions, inodes, files, bitmap | sums of counts that the kernel recomputes |
| programs: `sh.c`, `grep.c`, `umalloc.c`, library | syntax tree, descriptors; line buffer; free list | parser, `runcmd`; matcher; `malloc`, `free`; strings, `printf` | pipes that must be closed in every process; lines across reads; a circular list |

A file-system call runs between `begin_op` and `end_op`; in between it uses the
inode layer, which uses the block layer, which reads and changes buffers of the
buffer cache and reports them with `log_write`. The log writes buffers to disk
through the driver. Everything that waits uses `sleep` and `wakeup` of `proc.c`,
which runs on the scheduler.

Each module takes one layer and stands on what the layer below promises. Where
that promise is a module of its own, the lower layer is shown to keep it:
`Bcache` implements `BlockStore`, and `Log` (which needs that a held buffer is
exclusive and that only clean buffers are dropped, as `CacheInv` of `Bcache` says)
implements `AtomicDisk`, the disk on which `Icache`, `Dirs`, `Files` and `Mount` see
their writes at once. `Descriptors` extends `Vm` and `Console` extends `Spinlock`:
there the layers are composed, because what matters is what a failure or an
interrupt in one does to the other. `Programs` runs the models of the user
programs, one per behaviour.

## 2. Modules and code

| Module | Code | One step is |
|---|---|---|
| `Log`, implements `AtomicDisk` | `log.c` | a critical section of `log.lock`, one unlocked test, or one disk write |
| `Bcache`, implements `BlockStore` | `bio.c`, `ide.c` | a critical section of `bcache.lock` or `idelock`, or a step of the disk |
| `Proc` | `proc.c`, `trap.c`, `init.c` | a critical section of `ptable.lock`; the lock is explicit where it crosses `swtch` |
| `Pipe`, implements `BoundedFifo` | `pipe.c`, `fileclose` | a critical section of `p->lock` up to the next sleep |
| `Icache` | inode layer of `fs.c`, `sys_open`, `create`, `sys_link`, `sys_unlink` | a critical section of `icache.lock` or of a disk inode's buffer, or code under the inode's lock |
| `Files` | block layer of `fs.c`, `file.c` | a critical section of the bitmap's buffer, or one block of a locked inode |
| `Mount` | mount table of `fs.c` | one slot of a search or one store |
| `Dirs` | `namex`, `dirlookup`, `dirlink`, `create`, `sys_open`, `sys_mkdir`, `sys_mknod`, `sys_chdir`, `sys_unlink` | what happens under one lock of an inode |
| `Vm` | `kalloc.c`, `vm.c`, `exec.c`, memory of `fork`, `growproc`, `wait` | the pages of one turn of a loop, or all that a call frees |
| `Descriptors`, extends `Vm` | `file.c`, `sysfile.c`, `pipealloc` | a critical section of `ftable.lock`, of a pipe or of the free list |
| `Spinlock` | `spinlock.c` | `acquire` and `release`, in two steps if the CPU has to spin |
| `Console`, extends `Spinlock` | `console.c`, `trap.c`, `sys_sleep`; `sleep`, `wakeup`, `sched`, `scheduler` of `proc.c` | the code up to the next `acquire`, `release` or `swtch` |
| `Umalloc`, `Shell`, `Grep`, `Mkfs`, `Text`, composed in `Programs` | `umalloc.c`; `sh.c`; `grep.c`; `mkfs.c`; `string.c`, `ulib.c`, `printf.c`, `wc.c`, `skipelem` and `printint` | a call of the allocator; a system call of one process; a `read`; a block written; a call or a character |
| `LogProofs`, `LogAtomicity`; `BcacheProofs`, `IdeProofs`; `IcacheProofs`; `MountProofs`; `PipeProofs`; `ProcProofs` | | the theorems about `Log`; `Bcache`; `Icache`; `Mount`; `Pipe`; `Proc` |

`MC*` modules instantiate these for TLC: symmetry, and views that hide history
or dead variables. Actions have the names of the functions they model; a function
of several steps is split at the points where another process can get in
(`log_write_test` and `log_write_append`, `iput_last`, `iput_free` and
`iput_finish`). `pc[p]` says where in the code process p is. A panic sets
`panicked` and the system stops; that is why most runs do not check for deadlock.
Definitions named `Fault...` are deliberately wrong variants of the definition
that follows them: substituted for it, they make a property fail, which shows that
the property depends on that piece of code.

**Log.** `lh` is `log.lh`, `dhead` the header on disk, `disk` and `cache` the
blocks; addresses count from `log.start`, and the first block after the log is
`NLOG`. An operation logs any number of blocks: nothing in the code keeps it to the
`MAXOPBLOCKS` that `begin_op` reserves. `Share` is what it may log without endangering
the others; the history variable `greedy` says that an operation of the transaction
went on with its share used up, `overrun` that a transaction has outgrown the log. The
log then runs into the blocks behind it, and a copy of a block to itself waits for ever
(`HoldsBoth`). `Crash` may come between any two steps, keeps `disk` and
`dhead`, and forgets everything else; recovery runs step by step and may crash
too. A sector write is atomic. `AtomicDisk` has a durable image and a memory
image; the durable one changes only by becoming the memory image while no
operation is open, and a crash sets the memory image back to it; after an overrun
it promises nothing.

**Bcache.** A process holds one buffer at a time; the log's pinning is `Pin`. The
disk completes or fails the command in its registers. `BlockStore` is an array of
blocks with exclusive ownership that knows nothing of buffers; blocks the disk may
fail on are not part of it, because the driver ignores the failure.

**Proc.** Slot 1 is init. `pc` distinguishes user code, the stretches of
`fork`, `exit` and `wait`, and the places where a process has given up the CPU.
`MayFail` lets `kalloc` and `copyuvm` fail; `KillPids` are the pids that programs
pass to `kill`. `hits` is history: which pid marked a slot as killed, and whether
a process had the slot.

**Pipe.** `WRAP` stands for 2^32; the processes in `Mortal` may be killed. The
abstract `BoundedFifo` is a sequence with a capacity; its readers may get end of
file only once the writers are gone and the queue is empty.

**Icache.** One directory whose names are the links. A disk inode is its type and
link count; contents are left to `Files`. `ip[p]` is the pointer a call or an open file
has, `dup[p]` the second one that `dirlink` gets when the new name of a link is taken.
`Counts(n, S)` says that S has n members by listing them, which the proofs can reason
about without a theory of finite sets.

**Files.** Bytes name the process that wrote them, so that misplaced data shows.
A block is `BSIZE` bytes or `BSIZE` addresses. Bit b of the bitmap is the data
block b, as in `balloc`, whose `freeblock_offset` is the address of bit 0.
`contents` records what has been written to each inode and `moved` the bytes that
went through each `struct file`.

**Mount.** A lookup names a directory itself (found by path, `find_mp`) or
something in it (found by inode, `is_inode_mounted`). Paths are strings: `Leads` says
which directory one leads to, for each process, so that a directory has several
paths; a search compares their first `DIRSIZ` characters (`Cut`), and `memmove` stores
a path a byte at a time (`set_path`), so that a search can meet the beginning of one.
Of the inode cache only the roots of the partitions and their counts are kept.

**Dirs.** A path is what `skipelem` makes of it, a sequence of elements; `skipelem`
itself is in `Text`. An inode has type, link count, entries, and the count and
lock of its cache slot. `stray` and `stale` are history: what was created below a
directory that was gone by then, and whether somebody followed its `..`.

**Vm, Descriptors.** Sizes are in units of which `PGSIZE` make a page. An address
space is the pages under a page directory: tables of the kernel, tables of the
user part, and the user's pages. Every `kalloc` may find the list empty; `starved`
counts the times it was a page table that could not be had, and `emptied` says that
`sbrk` was asked to shrink to 0: there the code itself loses pages or size, and the
properties say so. `todo` are the files a call has still to close.

**Spinlock, Console.** A thread is a process or the scheduler of a CPU. `trap` is the
handler on top of it, which goes along when the thread yields. Locks are held by
CPUs, as in the code, so that `sched` hands `ptable.lock` over with the CPU. Keys are
a character, newline, end of file, and the two editing keys; the indices of the
buffer wrap at `INDEX`, which stands for 2^32.

**Programs.** `Umalloc` has addresses in bytes and sizes in units of a header. `Shell`
has the recursive descent of `sh.c` over tokens, a grammar to compare it with, and
`runcmd` as processes with descriptors that fork, close, dup, wait and exit; a pipe is
the set of descriptors on it, and a program that writes more than it holds waits for a
reader. `Grep` compares its matcher with the meaning of patterns as sets of strings, and
reads files in pieces of any length; what the loop drops is recorded in `lost`. `Mkfs`
writes an image of blocks, which `ImageInv` reads back with the kernel's arithmetic, and
stops where an assertion or a read behind the end of the image stops it. `Text` calls
each function with bounded arguments; the two formatters have the digits of their own
tables.

## 3. Runs

Properties are stated, with a comment each, at the end of their module. Those
named `...Inv` join the type invariant of the module with the invariants that say
how its data structures hang together.

| Run | Question | Instance | States |
|---|---|---|---|
| `log` | Is a group of operations atomic whenever the machine stops, does the reservation hold, and does everybody who waits get on? (`CrashAtomicity`, `DurableInv`, `LInv`, `SleeperHasWaker`, `LogGoesOn`) | 2 processes, 3 blocks, a log of 2 and a reservation of 1, 2 crashes | 308,318 |
| `bcache` | Is the cache invisible, and does everybody who waits have a waker? (`StoreRefinement`, `CacheInv`) | 2 processes, 2 buffers, 3 blocks, 1 of them bad, 1 pinned | 76,742 |
| `proc` | Is the table sound, are the dead buried and the killed dead? (`TableInv`, `WaitMissesNoZombie`, `KilledDies`, `OrphansReaped`) | 4 slots, 1 CPU, 4 pids, 2 of them killed, memory may run out | 129,100 |
| `pipe` | Is a pipe a bounded queue that wakes its sleepers? (`FifoRefinement`, `PipeInv`, `SleepersWake`) | 2 writers, 1 reader, 2 bytes, counters mod 4, calls of 1 and 3 bytes | 75,112 |
| `icache` | Do counts, links and cached copies agree at every moment? (`IcacheInv`, `FreedWhenUnreachable`, `LinksAreCounted`, `CallsGoOn`) | 2 processes, 3 names, 2 slots, 3 inodes | 337,964 |
| `mount` | What does the unlocked table still guarantee? (`MountInv`, `ViewsAgree`, `EntriesArePermanent`) | 2 processes, 3 paths to 2 directories, 2 partitions, 2 slots, 4 calls | 272,083 |
| `files` | Has every block one owner, and do files read back what was written? (`BlocksInv`, `ContentsMatch`, `OffsetInv`) | 2 processes, 2 files of 3 blocks of 2 bytes, 5 blocks, 8 calls | 765,901 |
| `files_partition` (fails) | Does the allocator stay in its partition? (`BlocksInPartition`) | as `files` | |
| `dirs` | Do directories stay a tree while paths walk through it, and is nothing lost? (`TreeInv`, `NothingLost`, `OnlyStalePanics`) | 2 processes, 4 inodes, 5 paths, 4 calls | 378,141 |
| `resources` | Does every page and every file reference have its owner when anything may run out? (`PagesInv`, `SpacesWhole`, `HandlesCounted`) | 3 processes, 12 pages, 3 files, 3 descriptors, 4 calls | 52,092 |
| `console` | Are interrupts off under locks, is a process on one CPU, is the line that is edited the one that is read, and does everybody sleep for a reason? (`LocksInv`, `ConsoleInv`, `SleepersHaveReason`) | 2 CPUs, 2 processes, a buffer of 2, 2 keys, 2 more interrupts, 2 calls | 607,010 |
| `programs` | Do the programs compute what they should? (`HeapInv`, `ParseInv`, `ShellInv`, `GrepInv`, `ImageInv`, `TextInv`, `ShellPrompts`) | see `MCPrograms.cfg` | 152,063 |

Why the bounds are enough to make the interesting cases happen:

- `log`: overlapping operations absorb the same block and write different ones, a
  second crash hits the recovery from the first, and `begin_op` has to wait for
  space as well as for a commit. Operations log up to three blocks where one is
  reserved: some stop at the panic of `log_write`, and two that pass its test together
  overrun the log. `mkfs` makes logs with `NLOG = LOGSIZE`; there the header's block
  counts too, which takes an instance too large for this run. The proofs cover it.
- `bcache`: three blocks in two buffers force recycling while the other process
  waits for the buffer; with a pinned buffer, `bget` can find none.
- `proc`: four slots make a grandchild whose parent dies first; four pids let a slot
  be used again, also one that a failed `fork` gave back and `kill` has marked. One
  CPU is enough for the order of the critical sections of `ptable.lock`; two CPUs,
  and the lock across `swtch`, are in `console`.
- `pipe`: writes longer than the buffer, counters that wrap, two writers whose bytes
  mix. The proofs cover all sizes.
- `icache`: several names for one inode, every slot or every inode in use, an inode
  unlinked while it is open. The full table panics, in the model as in the code.
- `files`: a file reaches its last indirect block, blocks of a deleted file are
  reused, the disk fills up, a write takes two transactions. `MaxCalls` bounds the
  number of system calls, and eight suffice for each of these in one behaviour.
- `mount`: both processes mount and look up, at the same place or at different ones.
  `a` and `/a` are one directory, and while `ab`, another one, is stored, `a` is there
  to be found.
- `dirs`: a directory, its parent and a new inode besides the root: enough to remove a
  directory that somebody works in, remove its parent, and use the inode again; four
  calls do all of that.
- `resources`: an `exec` needs seven pages and a child five of the seven that are
  free, so that two processes starve each other at every allocation; the page tables
  map two pages, so that growing needs a new one. Three files are too few for a
  pipe beside two open files.
- `console`: a full buffer, a line that is erased over the wrap, a reader that is
  preempted by the interrupt that it waits for, and a process that goes on on the
  other CPU.
- `programs`: requests of 0 to 7 bytes that split, exhaust and rejoin a heap of 13
  units, part of it at odd addresses behind a byte that the program took itself; every
  line of four tokens and nine longer ones, with nested pipes, lists and background
  commands; patterns of three characters against lines that just fit the buffer and
  lines that do not; files with no block, a direct one and an indirect one on two
  partitions, and files that are too large for an inode or, together, for a partition;
  formats with every conversion, of values whose digits differ in case.

## 4. Fairness

- `Log`: weak fairness of recovery, of the committer and of a process that
  `wakeup` has made runnable (the scheduler goes round the table); strong fairness
  of `end_op`, which says that a file-system call, once it gets its buffers, comes
  to its end. It is not assumed that all operations ever end at the same time, so
  nothing says that a commit happens soon: overlapping operations can put it off.
- `Proc`: weak fairness of each CPU, which is in its scheduler loop or takes a timer
  tick; strong fairness of a process that is killed, exiting, forking or in
  `wait`: it goes on if it is scheduled again and again. init calls `wait` for
  ever (`init.c`). Nothing is assumed of other user code.
- `Pipe`: a process that is not asleep runs and then either calls again or closes
  its end; processes that never touch their end again would keep the others
  asleep by design.

- `Programs`: weak fairness of the shell's processes together: the scheduler runs
  some process of the command that can run, and programs started by the shell exit.

The other runs check safety only. `CallsGoOn` of `Icache` is the safety side of
deadlock freedom: in every state, somebody who is inside a system call can take
a step; `dirs` checks for deadlock with TLC. `SleepersHaveReason` of `Console` is the
safety side of its liveness.

## 5. Proofs

### The log

`LogProofs` proves about `Log`, for any number of processes, blocks, contents and
crashes, any sizes of log, header and reservation, and operations that log any number
of blocks:

- `LogSpaceTheorem`: `Spec => []LInv`, where `LInv` is `TypeOK /\ SpaceAccounting`;
- `NoLogPanicTheorem`: of the panics of `log.c` two are out of reach, and "too big a
  transaction" takes an operation that logged more than its share;
- `LogFitsOnDiskTheorem`: without such an operation no log block is written outside the
  log area and no entry stored behind the header's array; with one, the overrun is at
  most a block for each other operation that was open;
- `SleeperHasWakerTheorem`: no wakeup is lost in `begin_op`.

`LogAtomicity` goes on from there, about the contents of the blocks:

- `DurableTheorem`: `Spec => []DurableInv`;
- `CrashAtomicityTheorem`: `Spec => CrashAtomicity`, `log.c` implements `AtomicDisk`.

Both speak of behaviours in which no transaction has outgrown the log, and by the
theorems before them that takes a greedy operation.

Assumptions: `LogConstants` of `Log`: the constants are numbers of the right kind,
there are finitely many processes, a reservation fits in the header, and the blocks
behind the log are no fewer than the other operations that are admitted at a time (2 in
the code), so that an overrun ends in them. `Share` is `MAXOPBLOCKS` if the area has room
for `LOGSIZE` blocks behind its header, and less by what is missing otherwise: with the
sizes of `param.h` and `mkfs.c` (`LOGSIZE` and `nlog` 30, `MAXOPBLOCKS` 10) it is 9. That an
operation keeps to its share is no assumption, and false of the code: see section 6.

The argument for the space. `LogFitsOnDisk` is not inductive: whether an append fits
depends on what the other open operations have still to write. `Thrifty`, which holds
until an operation gets greedy, therefore counts what is logged and what is reserved but
unused together, `Len(lh) + Cardinality(ReservedBy(Active, wrote)) <= LOGSIZE`, where
`ReservedBy` is a set with one element for each unused block of each open operation, so
that sums over processes become cardinalities. `begin_op` adds `MAXOPBLOCKS` elements,
an append that is not absorbed takes one away and adds one to `lh`, the end of an
operation only takes away. A process that has passed the test with part of its share
left has an element of its own, so it still appends within the log. `Bounded` holds in
any case: when a process passes the test the log has room for a block, and no more than
the other admitted operations can have passed it at the same time. `Control` ties the
counters to the places of the processes: one committer, and none while an operation is
open. The three are inductive together with `TypeOK`; the `log` run checks `LInv` with
TLC too. The proof has a lemma per action.

The argument for the contents. A block may have four places: its home block, its
buffer, its log block, and, once the header is written, the log block that the header
gives it. `DataInv` says for every stage of `commit` and of recovery which of them
agree. `CleanMatchesDisk`: an unpinned buffer that nobody modifies equals its home
block, so that dropping it loses nothing. `CommitStages`: `write_log` has copied the
buffers up to `tail`; from the header's write on, all log blocks hold what the buffers
hold; `install_trans` clears `B_DIRTY` for exactly what it has installed.
`RecoveryStages`: what recovery has installed equals the log. `Distinct`, that a header
lists no block twice, is what absorption is for: without it the order of the log would
matter. With `LInv` this is inductive, and `QuiescentDurable` follows. For the refinement,
the durable image is the disk under the blocks that the header lists (`Overlay`), and
the memory image what `bread` would return. The write of a log block changes no image
(the header is empty then), the header's write makes the durable image the memory
image in one step, and neither installing (`InstalledShows`) nor clearing the header
changes it again; a crash sets the memory image back to it. Each action has one
lemma that proves the invariant and the step of `AtomicDisk` together.

### The buffer cache and the disk driver

`BcacheProofs` (the steps of `bio.c`) and `IdeProofs` (those of `ide.c` and the disk) prove
about `Bcache`, for any number of processes, buffers, blocks and pinned buffers, and
any set of blocks on which the disk may fail:

- `CacheInvTheorem`: `Spec => []CacheInv`;
- `StoreTheorem`: `Spec => StoreRefinement`, the two implement `BlockStore`.

Assumptions: `BcacheConstants` of `Bcache` (numbers are numbers, the null values are no
process, buffer or block).

The argument. `CacheInv` is inductive. Its parts hold each other up in a circle:
`BusyIsOwned` (a busy buffer has exactly one owner) lets only one process change a
buffer, so that `ReadsWhatItAsked` holds for the others; `IoIsQueued` ties the queue to
the processes asleep in `iderw` and the command in the registers to the head of
the queue, so that `ideintr` completes the request of the process that asked for it;
what it copies then gives `CleanMatchesDisk`. `BuffersSound` says that no buffer drops
off the list when `brelse` moves one to its front, so that `bget`, which scans the
list, finds the buffer of a block if there is one: hence `OneBufferPerBlock`. A sleeper
in `bget` sleeps on a buffer that has an owner, and `brelse` wakes all of them
(`BgetSleeperHasWaker`); when the buffer has been recycled meanwhile, the sleeper looks
again.
For the refinement, the store is the buffer of each block where there is a valid one,
and the disk elsewhere. Recycling takes a clean buffer, so `CleanMatchesDisk` says that
the contents pass from the buffer to the disk without a change (`ContentsAt`,
`StoreKept`); a read makes a buffer with the disk's contents; a write of the disk
puts there what the buffer has. Only `bwrite` and `Pin` change the store, and their
caller owns the block.

### The inode cache

`IcacheProofs` proves about `Icache`, for any number of processes, names, slots and disk
inodes:

- `IcacheSound`: `Spec => []IcacheInv`: an inode has one slot, `ref` is the number of
  pointers to it, a slot is `I_BUSY` for one process, a valid copy agrees with the
  disk, nobody sleeps in `ilock` on an inode that is not locked, and of the panics of
  this layer only those for full tables can happen;
- `LinksBalance`: `Spec => []LinksAreCounted`: `nlink` is the number of names, give or take
  the calls that are between counting a link and making it;
- `FreedOnlyUnreachable`: `Spec => []FreedWhenUnreachable`: an inode with a name or a
  user is allocated, and one without links and users is not.

Assumptions: `IcacheConstants` of `Icache` (there is a slot and a disk inode, `None` is
neither a process nor a name).

The argument. None of the three is inductive, their conjunction `IInv` is.
`panic("ilock: no type")` cannot happen because whoever has a pointer has it to an
allocated inode (`InUseIsAllocated`). `iput` keeps that up when it frees an inode,
because `ref = 1` says that nobody else has a pointer (`RefsAreCounted`) and `nlink = 0`
that no name is left (`LinksAreCounted`). But it looks at the slot's copy of `nlink`, so
the copy has to agree with the disk (`ValidMatchesDisk`), for which an inode must have
no second slot (`OneSlotPerInode`) and the slot one owner (`BusyIsOwned`). The hard
place is in `iput`: with the type cleared on disk and `icache.lock` not yet taken again,
`ialloc` in another process can take the inode and `iget` find the dying slot.
`FreedIsAlone` and `NewIsAlone` say that this process is the only other one, is a
`create`, and waits for the lock; `iput` then clears `I_VALID` before it lets go, so the
new owner reads the inode from disk. `CallsInv` says which locks and pointers a call has
at each place, and that what it found in the directory stays true while it has the
directory locked. The counts are listings, and a step adds an entry to one or takes one
away (`CountAdd`, `CountRemove`, `CountToggled`). What the other lemmas need of them is
first order: who has the only reference, and that a reference has a holder
(`RefsInView`, `LinksInView`). The actions fall into a few shapes, each with a lemma on
what it preserves: nothing shared changes (`StillStep`), one slot and its disk inode
change under the lock (`SlotStep`), a pointer is made (`GetStep`), a pointer is dropped
(`DropStep`), a name is made or erased (`DirlinkStep`, `UnlinkEntryStep`), an inode is
allocated (`IallocTakeStep`).

### The mount table

`MountProofs` proves about `Mount`, for any number of processes, paths, directories,
partitions, slots and calls, and any `DIRSIZ`:

- `MountTheorem`: `Spec => []MountInv`;
- `ViewsTheorem`: `Spec => []ViewsAgree`: a path and the inode of the directory it leads
  to give the same partition, or neither is mounted, when no mount that could touch them
  is under way (`Settled`), the path leads all processes there (`StandsFor`), and the
  table has no other path to that directory and none that goes on where this one ends
  (`SpelledOnly`); section 6 says what happens otherwise;
- `PermanentTheorem`: `Spec => EntriesArePermanent`, a finished entry is never changed.

Assumptions: `MountConstants` of `Mount`.

The argument. There is no lock, so the invariant says whose a slot is. `SlotsSound`: it is
blank, finished, or taken by the one process that is storing its fields, and then it
has the letters of the path and the fields this process has stored (`Half`). The
compare-and-swap gives a slot to one process, and a store by one process changes no
slot of another. From it follow that an entry found by its inode is complete, because
`old_prt` is stored last (`BootIsComplete`), and the permanence of finished entries.
`FoundAgain` is about `namex`, which searches the table twice and uses the second answer
unchecked: a path only grows, so what `is_mounted` saw is still ahead of `find_mp`
(`AheadStays`) unless it was the beginning of a path that has grown since (`Torn`), and
`NullOnlyIfTorn` says that the null pointer of `find_mp` is met in no other case. The
letters enter through four lemmas on beginnings of sequences (`BeginsTrans` and its
neighbours). `RefCoversPointers` is stated without sums: the references to a root can be
dealt out to the processes so that each one that points to it has one (`Covers`);
`iget` adds one (`PointersGrow`), `iput` takes away one that its caller has
(`PointersDrop`), and the references that `dirlookup` and `mount` leave behind do no harm.

### The pipe

`PipeProofs` proves about `Pipe`, for any sets of writers, readers and bytes, any
`PIPESIZE`, and counters of any width:

- `PipeInvTheorem`: `Spec => []PipeInv`;
- `FifoTheorem`: `Spec => FifoRefinement`, the ring buffer implements the queue.

Assumptions: `PipeConstants` of `Pipe`. `PIPESIZE` divides `WRAP` and is less than it
(512 and 2^32 in the code), there is a longest call, the ends have processes, and
no process has both ends.

The argument. `PipeInv` is inductive. It has three parts that are of no interest by
themselves: `EndsOpen` (an end is open as long as some process has it open) is why a
writer that gives up because the read end is closed leaves no reader asleep;
`SomethingLeft` (a call that goes on has bytes left) is why a read that takes
nothing is end-of-file; and `FreedByLastClose` needs both ends.
For the refinement, the bytes are counted by `Dist`, the difference of the counters
modulo `WRAP`, and placed by `At`, a counter modulo `PIPESIZE`. Because `PIPESIZE`
divides `WRAP` the wrap does not show in the places (`ModMod`, `AtIs`, `AtAdd`), and
`PIPESIZE` consecutive places are different (`AtOneToOne`): so `ContentsPut` says that
a write appends to the contents, and `ContentsGet` that a read takes off the front.
Remainders are proved from division with remainder (`DivMod`), the only fact about
`%` that is left to the solver.

### The process table

`ProcProofs` proves about `Proc`, for any number of slots, CPUs and pids, with or
without failures of memory:

- `TableInvTheorem`: `Spec => []TableInv`;
- `WaitTheorem`: `Spec => []WaitMissesNoZombie`, no process sleeps in `wait` while it has
  a dead child, or no child.

Assumptions: `ProcConstants` of `Proc` (there is a slot and a pid, `NoCPU` is no CPU).

The argument. `TableInv` is inductive because of two parts that describe who owns a
slot. `OnOneCpu`: a process that acts is `RUNNING` and on one CPU only, so it is neither
the slot that another step frees nor one that sleeps. `Forks`: a slot in state `EMBRYO`
is the child of exactly one unfinished `fork`, whose steps run without `ptable.lock`;
this is why `fork` can give the slot back, or set its parent, with nobody looking. From
the two follow the stacks (`KstackBalance`), the marks of `kill` (`KilledByPid`) and the
parents (`ParentIsAlive`). The last one says that a zombie is nobody's parent, hence
that `wait` may free it. `WaitMissesNoZombie` is preserved by `exit` because it wakes
exactly those whose set of dead children grows: its parent, and init.

### Only model-checked

- Liveness (`LogGoesOn`, `SleepersWake`, `KilledDies`, `OrphansReaped`, `ShellPrompts`) is
  out of the provers' reach, and so is `CallsGoOn`, which speaks of `ENABLED` steps.
- What the recursive functions of `Umalloc`, `Shell`, `Grep` and `Text` compute: it
  would need induction over data. `Mkfs` runs once, on inputs that the run enumerates.
- `Files`, `Dirs`, `Vm` with `Descriptors`, and `Console` with `Spinlock`. Their invariants
  are not inductive as they stand.

## 6. Disagreements

One run fails, with a property that lines of the repository state:

- `files_partition`: `balloc` scans `sb.size` bits although the partition has only
  `sb.nblocks` data blocks; the last blocks it hands out belong to the next
  partition (`fs.c:149`).

Met while modelling, visible in the models, and without a run of their own:

- The log has `LOGSIZE` blocks with its header (`mkfs.c:35`), `begin_op` reserves as if
  all were data blocks, and `log_write` tests the size without the lock
  (`log.c:216`): operations that use all of their reservation outgrow the log by a
  block. `filewrite` allows 13 data blocks in a transaction for which `begin_op`
  reserves 10 (`file.c:132`). `LInv` says how far that can go: the panic, or log blocks
  over the first blocks behind the log.
- `mount` stores the path before the partition; a lookup between the two stores reaches
  `panic("ilock no partition")` (`fs.c:863`). The path is stored byte by byte: while
  `ab` is, `is_mounted("a")` can be true and `find_mp("a")` then a null pointer. Two
  processes can mount at the same path (`fs.c:853`), and the test there compares paths:
  after `mount("a", 1)` and `mount("/a", 2)` the path `/a` leads to partition 2, and
  `/a/n`, by the inode, to partition 1. The root that `dirlookup` switches to is neither
  locked nor released (`fs.c:628`).
- `kill` of a pid that only a free slot has (0, or what a failed `fork` left) marks that
  slot, and `allocproc` does not clear the mark (`proc.c:416`): `KilledByPid`.
- `kill` between the test of `p->killed` and `sleep` is lost until the next wakeup
  (`proc.c:364`, `console.c:243`, `sysproc.c:70`), although `proc.c:418` says that it
  wakes the process: `missed` in `Console`.
- `create` locks the parent after `nameiparent` has let it go: what it makes in a
  directory that was removed meanwhile is lost (`sysfile.c:249`). `..` of a removed
  directory may lead to a free inode and `panic("ilock: no type")` (`fs.c:757`).
- An inode that is unlinked while open is never freed if the machine crashes before
  its last close (`fs.c:437`).
- When there is no memory for a page table, `allocuvm` goes on without the page,
  `setupkvm` drops the tables it has, and `copyuvm` loses a page (`vm.c:240`);
  `growproc` takes a new size of 0 for a failure; `deallocuvm` skips pages when it
  starts at an unaligned address in a missing table.
- The cache has as many buffers as the log may pin, and `bget` panics without one
  (`bio.c:96`). `ideintr` ignores disk errors (`ide.c:116`).
- `grep` drops the part of a line it has when a read brings no newline (`grep.c:29`): of
  a file only lines as long as its buffer or without an end, of a pipe any.
- `sh` does not parse `a & b`, of several redirections the first one wins, and `>>`
  does not append (`sh.c:392`).
- `mkfs` does not check that inodes are left; without blocks it stops at a read behind
  the end of the image. The library's `memmove` copies forward only (`ulib.c:102`).
  `printf` knows `%c` while `cprintf` does not, and prints hexadecimal digits in upper
  case (`printf.c:14`), `cprintf` in lower case (`console.c:29`).

## 7. What is not modelled

- Boot code, interrupt controllers, segment and page-table hardware, assembly: there
  is nothing to check without a model of the hardware.
- Scan codes, the ports of console, serial line and disk, the printing of `panic`,
  `procdump` and `readmbr`.
- User programs that only print or copy, and the tests. `oldmkfs.c`, `oldmkfs2.c`
  and `oldtest.c` are not built.
- `memide.c` replaces the driver in another build.
- The copying of system-call arguments and of `exec`'s argument stack, the ELF header,
  `copyout` and `loaduvm`: they move bytes between address spaces, whose pages have no
  contents in `Vm`.
- Within modelled parts: what an entry behind the array of the log header overwrites,
  requests to `malloc` of 2^31 bytes and more, reads and writes of devices behind
  inodes, `filestat`, nested mounts and `check_mounted`, mounts inside the tree of
  `Dirs`, page faults, the built-in `cd` of the shell and the characters inside its
  words.

## 8. Open ends

- The composition of `Log` with `Icache` and `Files`: a crash inside a system call is
  modelled once, in `Log`, and the modules above rely on `AtomicDisk`. One module of all
  three is beyond TLC at sizes where anything happens.
- The invariants of `Files`, `Dirs`, `Descriptors` and `Console` are checked but not
  proved. Each needs a strengthening that counts references or follows locks
  through every place in a call; `LocksInv` of `Console` is the next proof.
- `Proc` and `Console` each model a part of `proc.c`: fork, exit and wait in one,
  interrupts and sleep on channels in the other.
