------------------------------ MODULE Spinlock ------------------------------
(***************************************************************************)
(* spinlock.c: locks that turn interrupts off on the CPU that takes them.  *)
(* Interrupts are off from the start of acquire() to the end of release(), *)
(* and other CPUs see only their xchg: each is one step, or two when the   *)
(* CPU has to spin.                                                        *)
(***************************************************************************)
EXTENDS Integers, FiniteSets

CONSTANTS CPU, Lock, NoCpu

VARIABLES
  locked,    \* lk->locked with lk->cpu: the CPU that holds the lock, or NoCpu
  ncli,      \* cpu->ncli
  intena,    \* cpu->intena
  IF_,       \* the interrupt flag of the CPU
  spin,      \* the CPU is in the xchg loop of acquire()
  panicked

lockVars == <<locked, ncli, intena, IF_, spin, panicked>>

holding(c, lk) == locked[lk] = c
HeldBy(c) == {lk \in Lock : holding(c, lk)}

\* Fault: the flag is saved by every pushcli(), not only by the outermost.
FaultPushcli(c) ==
  /\ IF_' = [IF_ EXCEPT ![c] = FALSE]
  /\ ncli' = [ncli EXCEPT ![c] = @ + 1]
  /\ intena' = [intena EXCEPT ![c] = IF_[c]]

pushcli(c) ==
  /\ IF_' = [IF_ EXCEPT ![c] = FALSE]
  /\ ncli' = [ncli EXCEPT ![c] = @ + 1]
  /\ intena' = [intena EXCEPT ![c] = IF ncli[c] = 0 THEN IF_[c] ELSE @]

popcli(c) ==
  /\ ncli' = [ncli EXCEPT ![c] = @ - 1]
  /\ IF_' = [IF_ EXCEPT ![c] = ncli[c] = 1 /\ intena[c]]
  /\ UNCHANGED intena

\* acquire(): pushcli(), then the xchg succeeds at once, or the CPU spins until it
\* does.
acquire(c, lk) ==
  /\ ~spin[c]
  /\ pushcli(c)
  /\ spin' = [spin EXCEPT ![c] = locked[lk] # NoCpu]
  /\ locked' = [locked EXCEPT ![lk] = IF @ = NoCpu THEN c ELSE @]
  /\ panicked' = IF holding(c, lk) THEN "acquire" ELSE panicked

xchg(c, lk) ==
  /\ spin[c]
  /\ locked[lk] = NoCpu
  /\ locked' = [locked EXCEPT ![lk] = c]
  /\ spin' = [spin EXCEPT ![c] = FALSE]
  /\ UNCHANGED <<ncli, intena, IF_, panicked>>

release(c, lk) ==
  /\ panicked' = IF ~holding(c, lk) THEN "release"
                 ELSE IF IF_[c] THEN "popcli - interruptible"
                 ELSE IF ncli[c] < 1 THEN "popcli" ELSE panicked
  /\ locked' = [locked EXCEPT ![lk] = NoCpu]
  /\ popcli(c)
  /\ UNCHANGED spin

LocksInit ==
  /\ locked = [lk \in Lock |-> NoCpu]
  /\ ncli = [c \in CPU |-> 0]
  /\ intena = [c \in CPU |-> FALSE]
  /\ IF_ = [c \in CPU |-> TRUE]
  /\ spin = [c \in CPU |-> FALSE]
  /\ panicked = "no"
=============================================================================
