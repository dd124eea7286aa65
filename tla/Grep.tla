-------------------------------- MODULE Grep --------------------------------
(***************************************************************************)
(* grep.c: the matcher of Kernighan and Pike, and the loop that cuts what  *)
(* read() returns into lines.  A pattern and a text are sequences of       *)
(* characters; NL ends a line.                                             *)
(***************************************************************************)
EXTENDS Integers, Sequences, FiniteSetsExt, SequencesExt

CONSTANTS
  BUF,       \* sizeof(buf)
  NL,        \* '\n'
  Searches   \* the patterns and the files that grep is run with

VARIABLES
  pattern, file,
  pos,      \* the characters of file that have been read
  buf,      \* buf[0..m-1]
  printed,  \* the lines that have been written
  lost,     \* history: the characters that were dropped,
  full      \* and whether every read() has returned all that fits

grepVars == <<pattern, file, pos, buf, printed, lost, full>>

-----------------------------------------------------------------------------
RECURSIVE matchhere(_, _)

\* Fault: a star stands for one or more characters.
RECURSIVE Faultmatchstar(_, _, _)
Faultmatchstar(c, re, text) ==
  /\ text # <<>> /\ (text[1] = c \/ c = ".")
  /\ matchhere(re, Tail(text)) \/ Faultmatchstar(c, re, Tail(text))

RECURSIVE matchstar(_, _, _)
matchstar(c, re, text) ==
  \/ matchhere(re, text)
  \/ text # <<>> /\ (text[1] = c \/ c = ".") /\ matchstar(c, re, Tail(text))

matchhere(re, text) ==
  \/ re = <<>>
  \/ IF Len(re) > 1 /\ re[2] = "*" THEN matchstar(re[1], Tail(Tail(re)), text)
     ELSE IF re = <<"$">> THEN text = <<>>
     ELSE text # <<>> /\ (re[1] = "." \/ re[1] = text[1]) /\ matchhere(Tail(re), Tail(text))

match(re, text) ==
  IF re # <<>> /\ re[1] = "^" THEN matchhere(Tail(re), text)
  ELSE \E k \in 1..(Len(text) + 1) : matchhere(re, SubSeq(text, k, Len(text)))

-----------------------------------------------------------------------------
\* The lines that end in s: each is a sequence without its NL.
Complete(s) ==
  LET ends == SelectSeq([k \in DOMAIN s |-> k], LAMBDA k : s[k] = NL)
  IN [n \in DOMAIN ends |-> SubSeq(s, IF n = 1 THEN 1 ELSE ends[n - 1] + 1, ends[n] - 1)]

GrepInit(js) ==
  /\ \E j \in js : pattern = j[1] /\ file = j[2]
  /\ pos = 0 /\ buf = <<>> /\ printed = <<>> /\ lost = {} /\ full = TRUE

\* One turn of the loop of grep(): read() returns some of what is there (a file all
\* that fits, a pipe or the console less).  What follows the last line stays in buf,
\* but a buffer without the end of a line is dropped.
grep ==
  LET most == Min({Len(file) - pos, BUF - Len(buf) - 1}) IN
  \E n \in 1..most :
    LET s == buf \o SubSeq(file, pos + 1, pos + n)
        last == SelectLastInSeq(s, LAMBDA c : c = NL)
    IN /\ buf' = IF last = 0 THEN <<>> ELSE SubSeq(s, last + 1, Len(s))
       /\ printed' = printed \o SelectSeq(Complete(s), LAMBDA l : match(pattern, l))
       /\ lost' = IF last = 0 THEN lost \cup (pos + n - Len(s) + 1)..(pos + n) ELSE lost
       /\ full' = (full /\ n = most)
       /\ pos' = pos + n
       /\ UNCHANGED <<pattern, file>>

-----------------------------------------------------------------------------
\* What a pattern means.  A "*" is an operator unless it is first or follows an
\* operator; the other characters are atoms, "^" first and "$" last are anchors.
IsStar(re) == LET f[k \in 0..Len(re)] == k > 1 /\ re[k] = "*" /\ ~f[k - 1] IN f
Matches(re, text) ==
  LET start == re # <<>> /\ re[1] = "^"
      body == IF start THEN Tail(re) ELSE re
      end == body # <<>> /\ body[Len(body)] = "$"
      star == IsStar(body)
      atoms == SelectSeq([k \in DOMAIN body |-> k], LAMBDA k : ~star[k] /\ ~(end /\ k = Len(body)))
      Fits(k, c) == body[k] = "." \/ body[k] = c
      n == Len(text)
  IN \E cut \in [0..Len(atoms) -> 0..n] :  \* atom x stands for text[cut[x-1]+1..cut[x]]
       /\ start => cut[0] = 0
       /\ end => cut[Len(atoms)] = n
       /\ \A x \in DOMAIN atoms :
            /\ cut[x - 1] <= cut[x]
            /\ (atoms[x] < Len(body) /\ star[atoms[x] + 1]) \/ cut[x] = cut[x - 1] + 1
            /\ \A k \in (cut[x - 1] + 1)..cut[x] : Fits(atoms[x], text[k])

\* Character k of the file is in a line, its end included, that buf cannot hold, or in
\* one without an end.
TooLong(k) ==
  LET ends == {e \in k..Len(file) : file[e] = NL}
      before == {e \in 1..(k - 1) : file[e] = NL}
  IN ends = {} \/ Min(ends) - Max(before \cup {0}) > BUF - 1

\* grep(): whatever the reads return, what has been written is the lines with the
\* meaning of the pattern in them, and buf the line that is not complete, of what was
\* read without the pieces that were dropped; when every read() returns all that fits,
\* as for a file, these are of lines that are too long or have no end; and there is
\* always room to read on.
GrepInv ==
  LET kept == SelectSeq([k \in 1..pos |-> k], LAMBDA k : k \notin lost)
      text == [i \in DOMAIN kept |-> file[kept[i]]]
  IN /\ printed = SelectSeq(Complete(text), LAMBDA l : Matches(pattern, l))
     /\ buf = SubSeq(text, SelectLastInSeq(text, LAMBDA c : c = NL) + 1, Len(text))
     /\ full => \A k \in lost : TooLong(k)
     /\ Len(buf) < BUF - 1
=============================================================================
