------------------------------ MODULE MCFiles -------------------------------
(* Small instances of Files for TLC. *)
EXTENDS Files, TLC

(* What a block holds that is free, or that bmap() has still to clear, is
   never read: states that differ only in that are one state. *)
View ==
  <<bitmap, inode, linked, busy, ftable, fd, pc, call, panicked, calls, contents, moved,
    [b \in bitmap |-> IF \E p \in Proc : new[p] = b + 1
                      THEN <<>> ELSE blk[b]]>>

Symmetry == Permutations(Inode)
=============================================================================
