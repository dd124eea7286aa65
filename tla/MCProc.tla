------------------------------- MODULE MCProc -------------------------------
(* A small instance of Proc for TLC. *)
EXTENDS Proc
=============================================================================
