----------------------------- MODULE MCPrograms -----------------------------
EXTENDS Programs

Strings(S, n) == UNION {[1..k -> S] : k \in 0..n}

Tokens == {"a", "<", ">", "|", "&", ";", "(", ")"}
MCRunLines == {
  <<"a", "|", "a", "|", "a">>,
  <<"a", "<", "a", "|", "a", ">", "a">>,
  <<"a", "&", ";", "a">>,
  <<"(", "a", ";", "a", ")", "|", "a">>,
  <<"a", "|", "(", "a", "&", ";", "a", ")">>,
  <<"a", "|", "a", "&">>,
  <<"a", ">", "a", ">>", "a">>,
  <<"a", ";", "a", ";", "a">>,
  <<"a", "(">>}
MCLines == Strings(Tokens, 4) \cup MCRunLines

MCSearches ==
  (Strings({"a", ".", "*", "^", "$"}, 3) \X {Append(s, "n") : s \in Strings({"a", "b", "n"}, 3)})
  \cup ({<<"^", "b">>, <<"a", "$">>} \X Strings({"a", "b", "n"}, 6))

MCArguments == Strings({0, 1, 3, 6}, 2) \cup {<<7>>}

MCMoves == {<<dst, src, n>> \in (0..4) \X (0..4) \X (0..5) : dst + n <= 5 /\ src + n <= 5}
MCPathNames == Strings(1..3, 6)
MCFormats == Strings({"%", "d", "x", "p", "s", "c", "z"}, 4)
MCWords == {<<-85, 0>>, <<0, 26>>}
MCStringAt == (-85 :> <<"f", "a">>) @@ (26 :> <<>>)
MCDocuments == Strings({"n", " ", "a"}, 4)
=============================================================================
