----------------------------- MODULE AtomicDisk -----------------------------
(***************************************************************************)
(* What the logging layer (log.c) promises to the file system above it.    *)
(*                                                                         *)
(* File-system calls open an operation, write any number of blocks, and    *)
(* close it.  What survives a crash (durable) changes only in one atomic   *)
(* step, taken while no operation is open, that makes everything written   *)
(* so far durable.  A crash throws away what is in memory: every operation *)
(* since the last commit disappears as a whole, none of them in part.      *)
(* The promise ends when a group of operations outgrows the log.           *)
(***************************************************************************)
CONSTANTS Proc,      \* processes that run file-system calls
          Home,      \* home blocks: every block outside the log area
          Val,       \* block contents
          Zero       \* contents of every block of the freshly made disk

VARIABLES durable,   \* what the next boot will find
          mem,       \* what file-system calls read: cached writes included
          active,    \* processes between begin_op() and end_op()
          broken     \* operations have written more than the log holds

vars == <<durable, mem, active, broken>>

Init ==
  /\ durable = [b \in Home |-> Zero]
  /\ mem = durable
  /\ active = {}
  /\ broken = FALSE

Begin(p) ==
  /\ p \notin active
  /\ active' = active \cup {p}
  /\ UNCHANGED <<durable, mem>>

Write(p, b, v) ==
  /\ p \in active
  /\ mem' = [mem EXCEPT ![b] = v]
  /\ UNCHANGED <<durable, active>>

End(p) ==
  /\ p \in active
  /\ active' = active \ {p}
  /\ UNCHANGED <<durable, mem>>

Commit ==
  /\ active = {}
  /\ durable' = mem
  /\ UNCHANGED <<mem, active>>

Crash ==
  /\ mem' = durable
  /\ active' = {}
  /\ UNCHANGED durable

Step ==
  \/ \E p \in Proc : Begin(p) \/ End(p)
  \/ \E p \in Proc, b \in Home, v \in Val : Write(p, b, v)
  \/ Commit
  \/ Crash

Next ==
  \/ Step /\ ~broken /\ UNCHANGED broken
  \/ broken' = TRUE

Spec == Init /\ [][Next]_vars
=============================================================================
