------------------------------- MODULE MCDirs -------------------------------
(* A small instance of Dirs for TLC. *)
EXTENDS Dirs

\* /, /a, /a/a, a and ..
MCPaths ==
  {[abs |-> TRUE, elems |-> <<"a">>], [abs |-> TRUE, elems |-> <<"a", "a">>],
   [abs |-> FALSE, elems |-> <<"a">>], [abs |-> FALSE, elems |-> <<"..">>],
   [abs |-> TRUE, elems |-> <<>>]}

Processes == Permutations(Proc)
=============================================================================
