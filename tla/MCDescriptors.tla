--------------------------- MODULE MCDescriptors ----------------------------
(* A small instance of Descriptors, and of Vm under it, for TLC. *)
EXTENDS Descriptors
=============================================================================
