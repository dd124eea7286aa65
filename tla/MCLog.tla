------------------------------- MODULE MCLog -------------------------------
(* A small instance of Log for TLC. *)
EXTENDS Log

\* Two of the three home blocks change, the third is written as it is.
MCWrites == {<<3, 1>>, <<4, 1>>, <<5, 0>>}
=============================================================================
