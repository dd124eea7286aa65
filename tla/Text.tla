-------------------------------- MODULE Text --------------------------------
(***************************************************************************)
(* The small functions on bytes: memmove() of string.c and of ulib.c, the  *)
(* string functions of string.c, skipelem() and namecmp() of fs.c,         *)
(* printint() and cprintf() of console.c, printint() and printf() of       *)
(* printf.c, atoi() of ulib.c, and the counting of wc.c.                   *)
(***************************************************************************)
EXTENDS Integers, Sequences, FiniteSets, FiniteSetsExt, SequencesExt

CONSTANTS
  DIRSIZ,
  WIDTH,     \* the bits of an int
  DIGITS,    \* the length of buf in printint()
  Moves,     \* calls of memmove(): dst, src and n, in a memory of Memory bytes
  Memory,
  PathNames, \* paths, over the characters '/' and others
  Formats,   \* formats of printf(), over '%', conversions and another character
  Words,     \* the arguments after the format, as words on the stack
  StringAt,  \* the characters of the string at an address
  Documents  \* what wc reads, over '\n', ' ' and another character

NUL == 0
Slash == 1

VARIABLES
  job,     \* what is called, with its arguments
  seen, l, w, inword  \* wc: the characters read, lines, words, and whether in a word

textVars == <<job, seen, l, w, inword>>

-----------------------------------------------------------------------------
\* Bytes first to last, or last to first when the end of the source would be overwritten
copied(mem, dst, src, ks) == FoldLeft(LAMBDA f, k : [f EXCEPT ![dst + k] = f[src + k]], mem, ks)
Up(n) == [k \in 1..n |-> k - 1]

\* ulib.c: upwards only.
umemmove(mem, dst, src, n) == copied(mem, dst, src, Up(n))

\* Fault: an overlap is not looked for.
Faultmemmove(mem, dst, src, n) == copied(mem, dst, src, Up(n))
memmove(mem, dst, src, n) ==
  copied(mem, dst, src, IF src < dst /\ src + n > dst THEN Reverse(Up(n)) ELSE Up(n))

at(s, k) == IF k \in DOMAIN s THEN s[k] ELSE NUL
strncmp(p, q, n) ==
  LET stop == {k \in 1..n : at(p, k) = NUL \/ at(p, k) # at(q, k)}
  IN IF stop = {} THEN 0 ELSE at(p, Min(stop)) - at(q, Min(stop))
namecmp(s, t) == strncmp(s, t, DIRSIZ)
strncpy(t, n) == [k \in 1..n |-> at(t, k)]
\* The loop has copied the NUL of a short string when another is put after it.
safestrcpy(t, n) == Append(strncpy(t, Min({Len(t) + 1, n - 1})), NUL)

\* The path without the slashes that it starts with
unslashed(path) ==
  LET k == SelectInSeq(path, LAMBDA c : c # Slash)
  IN IF k = 0 THEN <<>> ELSE SubSeq(path, k, Len(path))

\* skipelem(): the name, which has a NUL if there is room, and the rest of the path
skipelem(path) ==
  LET p == unslashed(path)
      k == SelectInSeq(p, LAMBDA c : c = Slash)
      len == IF k = 0 THEN Len(p) ELSE k - 1
  IN [name |-> SubSeq(p, 1, Min({len, DIRSIZ})), rest |-> unslashed(SubSeq(p, len + 1, Len(p)))]

\* The names that the loop of namex() gets from a path
RECURSIVE names(_)
names(path) == IF unslashed(path) = <<>> THEN <<>>
               ELSE <<skipelem(path).name>> \o names(skipelem(path).rest)

-----------------------------------------------------------------------------
\* static char digits[] of printf.c and of console.c
Decimal == <<"0", "1", "2", "3", "4", "5", "6", "7", "8", "9">>
Upper == Decimal \o <<"A", "B", "C", "D", "E", "F">>
Lower == Decimal \o <<"a", "b", "c", "d", "e", "f">>

RECURSIVE digits(_, _, _)
digits(table, x, base) ==
  IF x < base THEN <<table[x + 1]>>
  ELSE Append(digits(table, x \div base, base), table[(x % base) + 1])
printint(table, xx, base, sign) ==
  IF sign /\ xx < 0 THEN <<"-">> \o digits(table, (-xx) % 2^WIDTH, base)
  ELSE digits(table, xx % 2^WIDTH, base)

\* What characters that are digits of table say, and atoi(), which stops at another one
Value(table, s, base) == FoldLeft(LAMBDA n, c : n * base + SelectInSeq(table, LAMBDA t : t = c) - 1, 0, s)
atoi(s) ==
  LET other == SelectInSeq(s, LAMBDA c : c \notin Range(Decimal))
  IN Value(Decimal, IF other = 0 THEN s ELSE SubSeq(s, 1, other - 1), 10)

\* What a conversion puts out for the word ap
Conversions == {"d", "x", "p", "s"}
Converted(table, c, ap) ==
  CASE c = "d" -> printint(table, ap, 10, TRUE)
    [] c \in {"x", "p"} -> printint(table, ap, 16, FALSE)
    [] c = "s" -> IF ap = 0 THEN <<"(", "n", "u", "l", "l", ")">> ELSE StringAt[ap]

\* printf() of the programs: one turn for a character, with a state.  The character of
\* a %c is the word itself.
printf1(s, c) ==
  IF s.state = 0
  THEN IF c = "%" THEN [s EXCEPT !.state = 1] ELSE [s EXCEPT !.out = Append(@, c)]
  ELSE LET t == [s EXCEPT !.state = 0] IN
       IF c \in Conversions THEN [t EXCEPT !.out = @ \o Converted(Upper, c, s.ap[1]), !.ap = Tail(@)]
       ELSE IF c = "c" THEN [t EXCEPT !.out = Append(@, ToString(s.ap[1])), !.ap = Tail(@)]
       ELSE IF c = "%" THEN [t EXCEPT !.out = Append(@, c)]
       ELSE [t EXCEPT !.out = @ \o <<"%", c>>]
printf(fmt, ap) == FoldLeft(printf1, [state |-> 0, ap |-> ap, out |-> <<>>], fmt).out

\* cprintf() of the kernel: the conversion is read ahead
RECURSIVE cprintf(_, _)
cprintf(fmt, ap) ==
  IF fmt = <<>> THEN <<>>
  ELSE IF fmt[1] # "%" THEN <<fmt[1]>> \o cprintf(Tail(fmt), ap)
  ELSE IF Len(fmt) = 1 THEN <<>>
  ELSE LET c == fmt[2] more == SubSeq(fmt, 3, Len(fmt)) IN
       IF c \in Conversions THEN Converted(Lower, c, ap[1]) \o cprintf(more, Tail(ap))
       ELSE (IF c = "%" THEN <<"%">> ELSE <<"%", c>>) \o cprintf(more, ap)

-----------------------------------------------------------------------------
Jobs ==
  {<<"move", m[1], m[2], m[3]>> : m \in Moves}
  \cup {<<"path", p>> : p \in PathNames}
  \cup {<<"number", x>> : x \in (-(2^(WIDTH - 1)))..(2^(WIDTH - 1) - 1)}
  \cup {<<"format", f, ap>> : f \in Formats, ap \in Words}
  \cup {<<"wc", d>> : d \in Documents}

TextInit(jobs) == job \in jobs /\ seen = 0 /\ l = 0 /\ w = 0 /\ inword = FALSE

\* One turn of the outer loop of wc(): read() returns n characters.
Space == {"n", " "}
wc ==
  /\ job[1] = "wc"
  /\ \E n \in 1..(Len(job[2]) - seen) :
       LET got == SubSeq(job[2], seen + 1, seen + n)
           Before(i) == IF i = 1 THEN inword ELSE got[i - 1] \notin Space
       IN /\ l' = l + Cardinality({i \in 1..n : got[i] = "n"})
          /\ w' = w + Cardinality({i \in 1..n : got[i] \notin Space /\ ~Before(i)})
          /\ inword' = (got[n] \notin Space)
          /\ seen' = seen + n
  /\ UNCHANGED job

-----------------------------------------------------------------------------
\* memmove(): the destination gets what the source held, and nothing else changes;
\* with that of ulib.c, unless the destination begins within the source.
Moved(dst, src, n) ==
  LET mem == [k \in 0..(Memory - 1) |-> k]
      moved == [k \in DOMAIN mem |-> IF k \in dst..(dst + n - 1) THEN mem[src + k - dst] ELSE mem[k]]
  IN /\ memmove(mem, dst, src, n) = moved
     /\ dst \notin (src + 1)..(src + n - 1) => umemmove(mem, dst, src, n) = moved

\* skipelem(), strncpy(), namecmp(): the names of a path are its parts between slashes,
\* cut to DIRSIZ, and an entry that dirlink() stored is found under those names only.
Walked(path) ==
  LET starts == SelectSeq([k \in DOMAIN path |-> k],
                          LAMBDA k : path[k] # Slash /\ (k = 1 \/ path[k - 1] = Slash))
      Part(k) == {i \in k..Len(path) : i < k + DIRSIZ /\ \A j \in k..i : path[j] # Slash}
      parts == [x \in DOMAIN starts |-> SubSeq(path, starts[x], Max(Part(starts[x])))]
  IN /\ names(path) = parts
     /\ \A x, y \in DOMAIN parts :
          namecmp(strncpy(parts[x], DIRSIZ), parts[y]) = 0 <=> parts[x] = parts[y]
     /\ \A n \in 1..DIRSIZ : \A x \in DOMAIN parts :
          LET s == safestrcpy(parts[x], n) IN Len(s) <= n /\ strncmp(s, parts[x], n - 1) = 0

\* printint(), atoi(): the digits are those of the number, the least one included,
\* without a leading zero; they fit buf; and atoi() reads them back.
Printed(x) ==
  \A table \in {Upper, Lower} : \A base \in {10, 16} : \A sign \in BOOLEAN :
    LET s == printint(table, x, base, sign)
        neg == s[1] = "-"
        ds == IF neg THEN Tail(s) ELSE s
        value == Value(table, ds, base)
    IN /\ (IF neg THEN 0 - value ELSE value) = IF sign THEN x ELSE x % 2^WIDTH
       /\ ds[1] # "0" \/ Len(ds) = 1
       /\ Len(s) <= DIGITS
       /\ base = 10 /\ ~neg => atoi(Append(s, " ")) = value

\* printf(), cprintf(): the two formatters put out the same for a format that has no
\* %c, which the kernel's does not know, but for the case of hexadecimal digits.
SameOutput(fmt, ap) ==
  LET Has(S) == \E k \in 1..(Len(fmt) - 1) : fmt[k] = "%" /\ fmt[k + 1] \in S
      user == printf(fmt, ap)
      kernel == cprintf(fmt, ap)
  IN ~Has({"c"}) =>
       /\ Len(user) = Len(kernel)
       /\ \A k \in DOMAIN user :
            \/ user[k] = kernel[k]
            \/ Has({"x", "p"}) /\ \E d \in 11..16 : user[k] = Upper[d] /\ kernel[k] = Lower[d]

\* wc(): whatever the reads return, lines and words are those of what was read.
Counted(doc) ==
  LET read == SubSeq(doc, 1, seen)
  IN /\ l = Cardinality({k \in DOMAIN read : read[k] = "n"})
     /\ w = Cardinality({k \in DOMAIN read : /\ read[k] \notin Space
                                             /\ k = 1 \/ read[k - 1] \in Space})

\* string.c, fs.c, printf.c, console.c, ulib.c, wc.c: each function does for every
\* argument what is stated above.
TextInv ==
  CASE job[1] = "move" -> Moved(job[2], job[3], job[4])
    [] job[1] = "path" -> Walked(job[2])
    [] job[1] = "number" -> Printed(job[2])
    [] job[1] = "format" -> SameOutput(job[2], job[3])
    [] job[1] = "wc" -> Counted(job[2])
=============================================================================
