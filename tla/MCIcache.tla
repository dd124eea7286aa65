------------------------------ MODULE MCIcache ------------------------------
(* Small instances of Icache for TLC. *)
EXTENDS Icache, TLC

(* What a free slot, or one that is not valid, still holds of an older inode
   is never read but for the lock: states that differ only in that are one state. *)
View ==
  <<dir, dlock, dinode, locals, panicked,
    [s \in Slot |-> LET c == icache[s] IN
       IF c.ref = 0 THEN <<c.busy>>
       ELSE IF c.valid THEN <<c.inum, c.ref, c.busy, c.alloc, c.nlink>>
       ELSE <<c.inum, c.ref, c.busy>>]>>

Symmetry == Permutations(Proc) \cup Permutations(Name)
=============================================================================
