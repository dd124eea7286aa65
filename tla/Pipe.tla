-------------------------------- MODULE Pipe --------------------------------
(***************************************************************************)
(* pipe.c: one pipe with several writers and readers, each of which shares *)
(* the file of its end (file.c counts the references).                     *)
(*                                                                         *)
(* A step is a critical section of p->lock, from the acquire (or the       *)
(* return from sleep) to the release (or the next sleep).  The counters    *)
(* nread and nwrite are unsigned and wrap at WRAP, 2^32 in the code.       *)
(***************************************************************************)
EXTENDS Integers, Sequences

CONSTANTS Writer, Reader,   \* processes
          Byte,
          PIPESIZE,
          WRAP,             \* the counters wrap here
          Sizes,            \* lengths of reads and writes
          Mortal            \* processes that may be killed

ASSUME PipeConstants ==
  /\ PIPESIZE \in Nat \ {0}
  /\ WRAP \in Nat /\ WRAP % PIPESIZE = 0 /\ WRAP > PIPESIZE
  /\ Sizes \subseteq Nat \ {0} /\ \E n \in Sizes : \A m \in Sizes : m <= n
  /\ Mortal \subseteq Writer \cup Reader
  /\ Writer \cap Reader = {} /\ Writer # {} /\ Reader # {}

Proc == Writer \cup Reader

VARIABLES
  data,       \* p->data
  nread,      \* p->nread
  nwrite,     \* p->nwrite
  readopen,   \* p->readopen
  writeopen,  \* p->writeopen
  freed,      \* kfree() has taken the page
  pc,         \* "idle"; "call": in pipewrite/piperead; "sleep"; "closed"
  left,       \* bytes the call still has to transfer
  got,        \* <<>>, or <<what the reader's last piperead() returned>>
  killed      \* proc->killed

pipeVars == <<data, nread, nwrite, readopen, writeopen, freed>>
vars == <<pipeVars, pc, left, got, killed>>

Index == 0..(PIPESIZE - 1)
MaxN == CHOOSE n \in Sizes : \A m \in Sizes : m <= n
Chunk == UNION {[1..m -> Byte] : m \in 0..MaxN}

TypeOK ==
  /\ data \in [Index -> Byte]
  /\ nread \in 0..(WRAP - 1)
  /\ nwrite \in 0..(WRAP - 1)
  /\ readopen \in BOOLEAN /\ writeopen \in BOOLEAN /\ freed \in BOOLEAN
  /\ pc \in [Proc -> {"idle", "call", "sleep", "closed"}]
  /\ left \in [Proc -> 0..MaxN]
  /\ got \in [Reader -> {<<>>} \cup {<<c>> : c \in Chunk}]
  /\ killed \in [Proc -> BOOLEAN]

\* pipealloc(); the page comes from kalloc() with arbitrary contents.
Init ==
  /\ data \in [Index -> Byte]
  /\ nread = 0 /\ nwrite = 0
  /\ readopen = TRUE /\ writeopen = TRUE
  /\ freed = FALSE
  /\ pc = [p \in Proc |-> "idle"]
  /\ left = [p \in Proc |-> 0]
  /\ got = [r \in Reader |-> <<>>]
  /\ killed = [p \in Proc |-> FALSE]

Min(a, b) == IF a < b THEN a ELSE b
Add(n, k) == (n + k) % WRAP          \* unsigned addition

\* Bytes in the pipe, as the equality tests of the code see it.
Count == (nwrite + WRAP - nread) % WRAP
Full == nwrite = Add(nread, PIPESIZE)
Empty == nread = nwrite

\* wakeup(&p->nread) and wakeup(&p->nwrite)
WakeReaders(f) == [q \in Proc |-> IF q \in Reader /\ f[q] = "sleep" THEN "call" ELSE f[q]]
WakeWriters(f) == [q \in Proc |-> IF q \in Writer /\ f[q] = "sleep" THEN "call" ELSE f[q]]

-----------------------------------------------------------------------------
\* sleep(): kill() may have come after the test of p->killed and before sleep() has
\* ptable.lock; it found nobody to wake up.
late_kill(p) == killed' \in {killed} \cup {[killed EXCEPT ![q] = TRUE] : q \in Mortal \cap {p}}

\* A process calls read() or write() with n bytes.
call(p, n) ==
  /\ pc[p] = "idle" /\ ~killed[p]
  /\ pc' = [pc EXCEPT ![p] = "call"]
  /\ left' = [left EXCEPT ![p] = n]
  /\ got' = [r \in Reader |-> IF r = p THEN <<>> ELSE got[r]]
  /\ UNCHANGED <<pipeVars, killed>>

\* The data after bytes bs are stored from nwrite on.
Stored(bs) ==
  [k \in Index |-> LET i == CHOOSE i \in 1..PIPESIZE : Add(nwrite, i - 1) % PIPESIZE = k
                   IN IF i <= Len(bs) THEN bs[i] ELSE data[k]]

\* The bytes one critical section of pipewrite() can store.
Fits(w) == Min(left[w], PIPESIZE - Count)

\* pipewrite() stores its last bytes, wakes readers and returns n.
pipewrite_done(w) ==
  /\ pc[w] = "call"
  /\ Fits(w) = left[w]
  /\ pc' = WakeReaders([pc EXCEPT ![w] = "idle"])
  /\ \E bs \in [1..Fits(w) -> Byte] : data' = Stored(bs)
  /\ nwrite' = Add(nwrite, Fits(w))
  /\ left' = [left EXCEPT ![w] = 0]
  /\ UNCHANGED <<nread, readopen, writeopen, freed, got, killed>>

\* It fills the pipe, wakes readers and sleeps.
pipewrite_sleep(w) ==
  /\ pc[w] = "call"
  /\ Fits(w) < left[w]
  /\ readopen /\ ~killed[w]
  /\ pc' = WakeReaders([pc EXCEPT ![w] = "sleep"])
  /\ \E bs \in [1..Fits(w) -> Byte] : data' = Stored(bs)
  /\ nwrite' = Add(nwrite, Fits(w))
  /\ left' = [left EXCEPT ![w] = @ - Fits(w)]
  /\ late_kill(w)
  /\ UNCHANGED <<nread, readopen, writeopen, freed, got>>

\* It fills the pipe and gives up: no reader is left, or it was killed.  The
\* code returns -1 from here without waking anybody.
pipewrite_fail(w) ==
  /\ pc[w] = "call"
  /\ Fits(w) < left[w]
  /\ ~readopen \/ killed[w]
  /\ pc' = [pc EXCEPT ![w] = "idle"]
  /\ \E bs \in [1..Fits(w) -> Byte] : data' = Stored(bs)
  /\ nwrite' = Add(nwrite, Fits(w))
  /\ left' = [left EXCEPT ![w] = 0]
  /\ UNCHANGED <<nread, readopen, writeopen, freed, got, killed>>

-----------------------------------------------------------------------------
\* piperead() finds the pipe empty and sleeps ...
piperead_sleep(r) ==
  /\ pc[r] = "call"
  /\ Empty /\ writeopen /\ ~killed[r]
  /\ pc' = [pc EXCEPT ![r] = "sleep"]
  /\ late_kill(r)
  /\ UNCHANGED <<pipeVars, left, got>>

\* ... or returns -1 because it was killed.
piperead_fail(r) ==
  /\ pc[r] = "call"
  /\ Empty /\ writeopen /\ killed[r]
  /\ pc' = [pc EXCEPT ![r] = "idle"]
  /\ left' = [left EXCEPT ![r] = 0]
  /\ UNCHANGED <<pipeVars, got, killed>>

\* Fault: a read does not wake the writers.
FaultReadNoWakeup(r) ==
  /\ pc[r] = "call"
  /\ ~Empty \/ ~writeopen
  /\ LET m == Min(left[r], Count) IN
       /\ got' = [got EXCEPT ![r] =
                    <<[i \in 1..m |-> data[Add(nread, i - 1) % PIPESIZE]]>>]
       /\ nread' = Add(nread, m)
  /\ pc' = [pc EXCEPT ![r] = "idle"]
  /\ left' = [left EXCEPT ![r] = 0]
  /\ UNCHANGED <<data, nwrite, readopen, writeopen, freed, killed>>

\* Fault: a read of a pipe whose write end is closed reports end-of-file.
FaultEarlyEof(r) ==
  /\ pc[r] = "call"
  /\ ~Empty \/ ~writeopen
  /\ LET m == IF writeopen THEN Min(left[r], Count) ELSE 0 IN
       /\ got' = [got EXCEPT ![r] =
                    <<[i \in 1..m |-> data[Add(nread, i - 1) % PIPESIZE]]>>]
       /\ nread' = Add(nread, m)
  /\ pc' = WakeWriters([pc EXCEPT ![r] = "idle"])
  /\ left' = [left EXCEPT ![r] = 0]
  /\ UNCHANGED <<data, nwrite, readopen, writeopen, freed, killed>>

\* It copies what there is, up to n bytes, wakes writers and returns.
piperead(r) ==
  /\ pc[r] = "call"
  /\ ~Empty \/ ~writeopen
  /\ LET m == Min(left[r], Count) IN
       /\ got' = [got EXCEPT ![r] =
                    <<[i \in 1..m |-> data[Add(nread, i - 1) % PIPESIZE]]>>]
       /\ nread' = Add(nread, m)
  /\ pc' = WakeWriters([pc EXCEPT ![r] = "idle"])
  /\ left' = [left EXCEPT ![r] = 0]
  /\ UNCHANGED <<data, nwrite, readopen, writeopen, freed, killed>>

-----------------------------------------------------------------------------
\* The other processes that have this end of the pipe open.
Sharers(p, End) == {q \in End \ {p} : pc[q] # "closed"}

\* Fault: pipeclose() of the write end does not wake the readers.
FaultCloseNoWakeup(w) ==
  /\ pc[w] = "idle"
  /\ IF Sharers(w, Writer) # {} THEN UNCHANGED <<writeopen, freed>>
     ELSE /\ writeopen' = FALSE
          /\ freed' = ~readopen
  /\ pc' = [pc EXCEPT ![w] = "closed"]
  /\ UNCHANGED <<data, nread, nwrite, readopen, left, got, killed>>

\* fileclose() of the write end; pipeclose() for its last reference.
close_write(w) ==
  /\ pc[w] = "idle"
  /\ IF Sharers(w, Writer) # {}
     THEN /\ pc' = [pc EXCEPT ![w] = "closed"]
          /\ UNCHANGED <<writeopen, freed>>
     ELSE /\ writeopen' = FALSE
          /\ pc' = WakeReaders([pc EXCEPT ![w] = "closed"])
          /\ freed' = ~readopen
  /\ UNCHANGED <<data, nread, nwrite, readopen, left, got, killed>>

\* The same for the read end.
close_read(r) ==
  /\ pc[r] = "idle"
  /\ IF Sharers(r, Reader) # {}
     THEN /\ pc' = [pc EXCEPT ![r] = "closed"]
          /\ UNCHANGED <<readopen, freed>>
     ELSE /\ readopen' = FALSE
          /\ pc' = WakeWriters([pc EXCEPT ![r] = "closed"])
          /\ freed' = ~writeopen
  /\ UNCHANGED <<data, nread, nwrite, writeopen, left, got, killed>>

\* kill() wakes its target if it sleeps.
kill(p) ==
  /\ p \in Mortal /\ pc[p] # "closed" /\ (~killed[p] \/ pc[p] = "sleep")
  /\ killed' = [killed EXCEPT ![p] = TRUE]
  /\ pc' = [pc EXCEPT ![p] = IF @ = "sleep" THEN "call" ELSE @]
  /\ UNCHANGED <<pipeVars, left, got>>

-----------------------------------------------------------------------------
write_step(w) == pipewrite_done(w) \/ pipewrite_sleep(w) \/ pipewrite_fail(w)
read_step(r) == piperead_sleep(r) \/ piperead_fail(r) \/ piperead(r)

\* What a process does that is not asleep.
step(p) ==
  \/ \E n \in Sizes : call(p, n)
  \/ p \in Writer /\ (write_step(p) \/ close_write(p))
  \/ p \in Reader /\ (read_step(p) \/ close_read(p))

Next == \E p \in Proc : step(p) \/ kill(p)

Spec == Init /\ [][Next]_vars

\* Fairness: a process that is not asleep runs, and it goes on to call read or
\* write again or to close its end; a killed process exits and so closes it.
Fairness == \A p \in Proc : WF_vars(step(p))

FairSpec == Spec /\ Fairness

-----------------------------------------------------------------------------
(* The refinement: the ring buffer is a bounded queue. *)

Contents == [k \in 1..Count |-> data[Add(nread, k - 1) % PIPESIZE]]

Fifo == INSTANCE BoundedFifo WITH
          queue <- Contents, wopen <- writeopen, Size <- PIPESIZE,
          MaxRead <- MaxN

\* Whatever the interleaving of writers, readers, closes and kills, and across
\* the wrap of the counters, no byte is lost, duplicated or reordered, and
\* end-of-file is reported only when the pipe is drained and closed.
FifoRefinement == Fifo!Spec

-----------------------------------------------------------------------------
(* Properties. *)

\* nwrite never runs more than PIPESIZE ahead of nread, modulo the wrap.
NeverOverfull == Count <= PIPESIZE

\* The page is freed by the close of the last of all the references: never
\* while somebody is inside pipewrite() or piperead(), asleep or not, or can
\* still call them, and always once everybody has closed.
FreedByLastClose == freed <=> \A p \in Proc : pc[p] = "closed"

\* An end is open as long as a process has it open, and the page is freed with the
\* second of them.
EndsOpen ==
  /\ writeopen <=> \E w \in Writer : pc[w] # "closed"
  /\ readopen <=> \E r \in Reader : pc[r] # "closed"
  /\ freed <=> ~readopen /\ ~writeopen

\* A call that is still going on has something left to transfer: a full pipe is never
\* waited for, nor end-of-file reported, on behalf of no byte.
SomethingLeft == \A p \in Proc : pc[p] \in {"call", "sleep"} => left[p] # 0

\* A reader sleeps only while the write end is open, and while the pipe is
\* empty.  The exception is the code's: a killed writer leaves a full pipe
\* behind without waking readers, who sleep on until the next write or close.
ReaderSleepsOnEmpty ==
  \A r \in Reader : pc[r] = "sleep" =>
    writeopen /\ (Empty \/ \E w \in Writer : killed[w])

\* A writer sleeps only while the pipe is full and may still be read.
WriterSleepsOnFull ==
  \A w \in Writer : pc[w] = "sleep" => Full /\ readopen

\* A process that sleeps in the pipe is woken, as long as the processes at the
\* other end go on reading and writing or close.
SleepersWake == \A p \in Proc : pc[p] = "sleep" ~> pc[p] # "sleep"

\* The pipe is never overfull, it is there as long as somebody may use it, and nobody
\* sleeps in pipewrite() or piperead() without a reason: no wakeup is lost.  This is
\* inductive.
PipeInv ==
  /\ TypeOK /\ NeverOverfull
  /\ EndsOpen /\ FreedByLastClose /\ SomethingLeft
  /\ ReaderSleepsOnEmpty /\ WriterSleepsOnFull
=============================================================================
