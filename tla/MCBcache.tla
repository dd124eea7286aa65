------------------------------ MODULE MCBcache ------------------------------
(* A small instance of Bcache for TLC. *)
EXTENDS Bcache, TLC

\* The order of the buffers in the list matters, and which block is bad.
Symmetry == Permutations(Proc) \cup Permutations(Block \ BadBlock)
=============================================================================
