----------------------------- MODULE BlockStore -----------------------------
(***************************************************************************)
(* What the buffer cache and the disk driver promise together: a store of  *)
(* blocks, each of which at most one process owns at a time; the owner     *)
(* reads what the last owner left there and may overwrite it.  Nothing is  *)
(* promised about the contents of the blocks on which the disk may fail.   *)
(***************************************************************************)
CONSTANTS Proc, Block, Val, Zero, NoProc,
          BadBlock     \* blocks on which the disk may fail a command

VARIABLES store,   \* contents of each block that does not fail
          owner    \* the process that has the block, or NoProc

vars == <<store, owner>>

Init ==
  /\ store = [b \in Block \ BadBlock |-> Zero]
  /\ owner = [b \in Block |-> NoProc]

Acquire(p, b) ==
  /\ owner[b] = NoProc
  /\ owner' = [owner EXCEPT ![b] = p]
  /\ UNCHANGED store

Write(p, b, v) ==
  /\ b \notin BadBlock
  /\ owner[b] = p
  /\ store' = [store EXCEPT ![b] = v]
  /\ UNCHANGED owner

Release(p, b) ==
  /\ owner[b] = p
  /\ owner' = [owner EXCEPT ![b] = NoProc]
  /\ UNCHANGED store

Next == \E p \in Proc, b \in Block :
  Acquire(p, b) \/ Release(p, b) \/ \E v \in Val : Write(p, b, v)

Spec == Init /\ [][Next]_vars
=============================================================================
