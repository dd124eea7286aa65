------------------------------ MODULE MCMount -------------------------------
(* A small instance of Mount for TLC. *)
EXTENDS Mount, TLC

\* "a" and "/a" are one directory, "ab" is another; where "ab" is stored there
\* is an "a" for a moment, and a name below "ab" or "/a" is cut to that path.
MCPath == {<<"a">>, <<"a", "b">>, <<"/", "a">>}
MCLeads == [p \in Proc |-> [x \in Path |-> IF x = <<"a", "b">> THEN "d2" ELSE "d1"]]
MCName == <<"/", "n">>

Symmetry == Permutations(Proc) \cup Permutations(Partition)
=============================================================================
