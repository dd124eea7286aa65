------------------------------- MODULE Shell --------------------------------
(***************************************************************************)
(* sh.c: the parser, and runcmd() with the processes, descriptors and      *)
(* pipes that it makes.  A line is a sequence of the tokens that gettoken()*)
(* finds; "a" is a word, and a word is named by its place in the line.     *)
(* What gettoken() calls '+' is the token ">>".                            *)
(***************************************************************************)
EXTENDS Integers, Sequences, FiniteSets, FiniteSetsExt, SequencesExt

CONSTANTS MAXARGS, Lines, RunLines,  \* lines that are parsed, and lines that are run
          MaxProcs                   \* bound: processes of a command

ASSUME ShellConstants == MAXARGS \in Nat \ {0} /\ MaxProcs \in Nat

Redir == {"<", ">", ">>"}

\* The constructors
execcmd(argv) == [type |-> "EXEC", argv |-> argv]
redircmd(cmd, fd, file) == [type |-> "REDIR", cmd |-> cmd, fd |-> fd, file |-> file]
pipecmd(left, right) == [type |-> "PIPE", left |-> left, right |-> right]
listcmd(left, right) == [type |-> "LIST", left |-> left, right |-> right]
backcmd(cmd) == [type |-> "BACK", cmd |-> cmd]

-----------------------------------------------------------------------------
(* The parser: each function gives what it has parsed and the rest of the line; *)
(* a panic ends the parse.                                                      *)

Panic == [cmd |-> [type |-> "panic"], s |-> 0]
peek(ts, s, toks) == s \in DOMAIN ts /\ ts[s] \in toks

\* The redirections from s on, after rs: pairs of a descriptor and a file
RECURSIVE parseredirs(_, _, _)
parseredirs(rs, ts, s) ==
  IF ~peek(ts, s, Redir) THEN [redirs |-> rs, s |-> s]
  ELSE IF ~peek(ts, s + 1, {"a"}) THEN [redirs |-> rs, s |-> 0]
  ELSE parseredirs(Append(rs, <<IF ts[s] = "<" THEN 0 ELSE 1, s + 1>>), ts, s + 2)

\* A command in its redirections: the first is the innermost.
redirected(cmd, rs) == FoldLeft(LAMBDA c, r : redircmd(c, r[1], r[2]), cmd, rs)

\* Fault: the words of a command end where its first redirection begins.
Faultargs(ts, r, argv) ==
  IF r.s = 0 THEN Panic
  ELSE [cmd |-> redirected(execcmd(argv), r.redirs), s |-> r.s]

\* The loop of parseexec(), after the redirections r
RECURSIVE args(_, _, _)
args(ts, r, argv) ==
  IF r.s = 0 THEN Panic
  ELSE IF r.s > Len(ts) \/ peek(ts, r.s, {"|", ")", "&", ";"})
  THEN [cmd |-> redirected(execcmd(argv), r.redirs), s |-> r.s]
  ELSE IF ts[r.s] # "a" \/ Len(argv) + 1 >= MAXARGS THEN Panic
  ELSE args(ts, parseredirs(r.redirs, ts, r.s + 1), Append(argv, r.s))

RECURSIVE parseline(_, _)
parseblock(ts, s) ==
  LET b == parseline(ts, s + 1) IN
  IF ~peek(ts, b.s, {")"}) THEN Panic
  ELSE LET r == parseredirs(<<>>, ts, b.s + 1) IN
       IF r.s = 0 THEN Panic ELSE [cmd |-> redirected(b.cmd, r.redirs), s |-> r.s]

parseexec(ts, s) ==
  IF peek(ts, s, {"("}) THEN parseblock(ts, s) ELSE args(ts, parseredirs(<<>>, ts, s), <<>>)

RECURSIVE parsepipe(_, _)
parsepipe(ts, s) ==
  LET l == parseexec(ts, s) IN
  IF ~peek(ts, l.s, {"|"}) THEN l
  ELSE LET r == parsepipe(ts, l.s + 1) IN
       IF r.s = 0 THEN Panic ELSE [cmd |-> pipecmd(l.cmd, r.cmd), s |-> r.s]

RECURSIVE backs(_, _)
backs(ts, c) ==
  IF peek(ts, c.s, {"&"}) THEN backs(ts, [cmd |-> backcmd(c.cmd), s |-> c.s + 1]) ELSE c

parseline(ts, s) ==
  LET l == backs(ts, parsepipe(ts, s)) IN
  IF ~peek(ts, l.s, {";"}) THEN l
  ELSE LET r == parseline(ts, l.s + 1) IN
       IF r.s = 0 THEN Panic ELSE [cmd |-> listcmd(l.cmd, r.cmd), s |-> r.s]

\* parsecmd(): nothing may be left over.
parsecmd(ts) ==
  LET r == parseline(ts, 1) IN IF r.s = Len(ts) + 1 THEN r ELSE Panic

\* nulterminate(): the words whose end it marks
RECURSIVE nulterminate(_)
nulterminate(cmd) ==
  CASE cmd.type = "EXEC" -> Range(cmd.argv)
    [] cmd.type = "REDIR" -> nulterminate(cmd.cmd) \cup {cmd.file}
    [] cmd.type \in {"PIPE", "LIST"} -> nulterminate(cmd.left) \cup nulterminate(cmd.right)
    [] cmd.type = "BACK" -> nulterminate(cmd.cmd)

-----------------------------------------------------------------------------
(* runcmd() *)

VARIABLES
  line,
  tree,   \* what parsecmd() makes of the line when it is run
  sh,     \* the processes: what they do (st, cmd), their descriptors and their parent;
          \* process 1 is the shell
  failed  \* history: a fork() has failed

shVars == <<line, tree, sh, failed>>

Fd == 0..4
None == <<"none">>
Tty == <<"console">>
Closed == [fd \in Fd |-> None]
Child(p, st, cmd) == [st |-> st, cmd |-> cmd, fds |-> sh[p].fds, parent |-> p, waits |-> 0]

ShInit(ls) ==
  /\ line \in ls
  /\ tree = IF line \in RunLines THEN parsecmd(line).cmd ELSE Panic.cmd
  /\ sh = <<[st |-> "getcmd", cmd |-> Panic.cmd, parent |-> 0, waits |-> 0,
             fds |-> [fd \in Fd |-> IF fd < 3 THEN Tty ELSE None]]>>
  /\ failed = FALSE

\* close(), and what open(), dup() and pipe() do: the lowest descriptor that is free
close(fds, fd) == [fds EXCEPT ![fd] = None]
fdalloc(fds, what) == [fds EXCEPT ![Min({fd \in Fd : fds[fd] = None})] = what]

\* exit() closes everything; the children go to init, which waits for them.
exited(s, p) == [q \in DOMAIN s |->
                   IF q = p THEN [s[p] EXCEPT !.st = "zombie", !.cmd = Panic.cmd, !.fds = Closed]
                   ELSE IF s[q].parent = p THEN [s[q] EXCEPT !.parent = 0] ELSE s[q]]

Runs(p, type) == sh[p].st = "run" /\ sh[p].cmd.type = type

\* A program that is run: what a "writer" puts out is more than a pipe holds.
Program == {"program", "writer"}

\* fork1() of p for a child that does st with cmd; p is then me.  When fork() fails
\* the caller exits.
fork1(p, me, st, cmd) ==
  /\ \/ /\ Len(sh) < MaxProcs
        /\ sh' = Append([sh EXCEPT ![p] = me], Child(p, st, cmd))
        /\ UNCHANGED failed
     \/ sh' = exited(sh, p) /\ failed' = TRUE
  /\ UNCHANGED <<line, tree>>

\* main(): the child parses the line, which may end it, and runs it.
getcmd ==
  /\ sh[1].st = "getcmd" /\ line \in RunLines
  /\ fork1(1, [sh[1] EXCEPT !.st = "wait", !.waits = 1],
           IF tree.type = "panic" THEN "exit" ELSE "run", tree)

\* exec() of a program, which runs until it exits; it may fail, or there is none.
run_exec(p) ==
  /\ Runs(p, "EXEC")
  /\ \/ sh[p].cmd.argv # <<>> /\ \E st \in Program : sh' = [sh EXCEPT ![p].st = st]
     \/ sh' = exited(sh, p)
  /\ UNCHANGED <<line, tree, failed>>

\* close(rcmd->fd), open(); when open() fails the process exits.
run_redir(p) ==
  /\ Runs(p, "REDIR")
  /\ LET c == sh[p].cmd IN
       \/ sh' = [sh EXCEPT ![p].cmd = c.cmd, ![p].fds = fdalloc(close(@, c.fd), <<"file", c.file>>)]
       \/ sh' = exited(sh, p)
  /\ UNCHANGED <<line, tree, failed>>

run_list(p) ==
  /\ Runs(p, "LIST")
  /\ LET c == sh[p].cmd
     IN fork1(p, [sh[p] EXCEPT !.st = "wait", !.waits = 1, !.cmd = c.right], "run", c.left)

run_back(p) ==
  /\ Runs(p, "BACK")
  /\ fork1(p, [sh[p] EXCEPT !.st = "exit"], "run", sh[p].cmd.cmd)

\* The pipe of a command, which is named by the command: its read and write end
End(e, c) == <<e, c>>
p0(p) == CHOOSE fd \in Fd : sh[p].fds[fd] = End("r", sh[p].cmd)
p1(p) == CHOOSE fd \in Fd : sh[p].fds[fd] = End("w", sh[p].cmd)

\* When pipe() fails the process exits.
run_pipe(p) ==
  /\ Runs(p, "PIPE")
  /\ LET c == sh[p].cmd IN
       \/ sh' = [sh EXCEPT ![p].st = "left",
                           ![p].fds = fdalloc(fdalloc(@, End("r", c)), End("w", c))]
       \/ sh' = exited(sh, p)
  /\ UNCHANGED <<line, tree, failed>>

pipe_left(p) ==
  /\ sh[p].st = "left"
  /\ fork1(p, [sh[p] EXCEPT !.st = "right"], "pipe to", sh[p].cmd)
pipe_right(p) ==
  /\ sh[p].st = "right"
  /\ fork1(p, [sh[p] EXCEPT !.st = "close"], "pipe from", sh[p].cmd)

\* Fault: the parent keeps the write end.
Faultpipe_close(p) ==
  /\ sh[p].st = "close"
  /\ sh' = [sh EXCEPT ![p].st = "wait", ![p].waits = 2, ![p].cmd = execcmd(<<>>),
                      ![p].fds = close(@, p0(p))]
  /\ UNCHANGED <<line, tree, failed>>

\* The parent closes both ends and waits for both children.
pipe_close(p) ==
  /\ sh[p].st = "close"
  /\ sh' = [sh EXCEPT ![p].st = "wait", ![p].waits = 2, ![p].cmd = execcmd(<<>>),
                      ![p].fds = close(close(@, p0(p)), p1(p))]
  /\ UNCHANGED <<line, tree, failed>>

\* Fault: the child keeps the end that it has duplicated.
Faultplumbed(p, fd, end) ==
  LET fds == fdalloc(close(sh[p].fds, fd), End(end, sh[p].cmd))
  IN close(fds, IF end = "r" THEN p1(p) ELSE p0(p))

\* In a child: close(fd), dup() of its end of the pipe, close() of both ends
plumbed(p, fd, end) ==
  LET fds == fdalloc(close(sh[p].fds, fd), End(end, sh[p].cmd))
  IN close(close(fds, p0(p)), p1(p))
pipe_child(p) ==
  /\ sh[p].st \in {"pipe to", "pipe from"}
  /\ LET c == sh[p].cmd IN
       sh' = [sh EXCEPT ![p].st = "run",
                        ![p].cmd = IF sh[p].st = "pipe to" THEN c.left ELSE c.right,
                        ![p].fds = IF sh[p].st = "pipe to" THEN plumbed(p, 1, "w")
                                   ELSE plumbed(p, 0, "r")]
  /\ UNCHANGED <<line, tree, failed>>

\* wait(): a child has exited.
Children(p) == {q \in DOMAIN sh : sh[q].parent = p}
wait(p) ==
  /\ sh[p].st = "wait"
  /\ \E q \in Children(p) :
       /\ sh[q].st = "zombie"
       /\ sh' = [sh EXCEPT ![q].parent = 0, ![p].waits = @ - 1,
                           ![p].st = IF sh[p].waits > 1 THEN "wait"
                                     ELSE IF p = 1 THEN "prompt" ELSE "run"]
  /\ UNCHANGED <<line, tree, failed>>

\* The read end of the pipe that a descriptor can write to
Pipe(f) == IF Len(f) = 2 /\ f[1] = "w" THEN {End("r", f[2])} ELSE {}

\* pipewrite(): the pipe stays full while a process has its read end and no program
\* reads from it.
Full(f) ==
  /\ \E q \in DOMAIN sh : \E fd \in Fd : sh[q].fds[fd] \in Pipe(f)
  /\ \A q \in DOMAIN sh : sh[q].st \in Program => sh[q].fds[0] \notin Pipe(f)

\* A program reads its input to the end, writes its output and exits: at the end of a
\* pipe there is no process left that can write to it.
program_exits(p) ==
  /\ sh[p].st \in Program
  /\ \A q \in DOMAIN sh : \A fd \in Fd : sh[p].fds[0] \notin Pipe(sh[q].fds[fd])
  /\ sh[p].st = "writer" => ~Full(sh[p].fds[1])
  /\ sh' = exited(sh, p)
  /\ UNCHANGED <<line, tree, failed>>
exit(p) ==
  /\ sh[p].st = "exit"
  /\ sh' = exited(sh, p)
  /\ UNCHANGED <<line, tree, failed>>

ShStep ==
  \/ getcmd
  \/ \E p \in DOMAIN sh :
       \/ run_exec(p) \/ run_redir(p) \/ run_list(p) \/ run_back(p) \/ run_pipe(p)
       \/ pipe_left(p) \/ pipe_right(p) \/ pipe_close(p) \/ pipe_child(p)
       \/ wait(p) \/ program_exits(p) \/ exit(p)

-----------------------------------------------------------------------------
(* The grammar: the commands that the tokens from i up to j stand for.          *)

RECURSIVE Line(_, _, _)

\* Redirections, and words if any are allowed; a word after a redirection is a file.
Files(ts, i, j) == {k \in i..(j - 1) : k > i /\ ts[k - 1] \in Redir}
Simple(ts, i, j) ==
  LET span == [x \in 1..(j - i) |-> i + x - 1]
      words == SelectSeq(span, LAMBDA k : ts[k] = "a" /\ k \notin Files(ts, i, j))
      files == SelectSeq(span, LAMBDA k : k \in Files(ts, i, j))
      ok == /\ \A k \in i..(j - 1) : IF k \in Files(ts, i, j) THEN ts[k] = "a"
                                    ELSE ts[k] \in Redir \cup {"a"}
            /\ j > i => ts[j - 1] \notin Redir
            /\ Len(words) < MAXARGS
  IN IF ~ok THEN {}
     ELSE {[words |-> words,
            redirs |-> [x \in DOMAIN files |-> <<IF ts[files[x] - 1] = "<" THEN 0 ELSE 1, files[x]>>]]}

Exec(ts, i, j) ==
  {redirected(execcmd(e.words), e.redirs) : e \in Simple(ts, i, j)}
  \cup UNION {{redirected(b, e.redirs) : b \in Line(ts, i + 1, k), e \in Simple(ts, k + 1, j)} :
              k \in {k \in (i + 1)..(j - 1) :
                       /\ ts[i] = "(" /\ ts[k] = ")"
                       /\ \A e \in Simple(ts, k + 1, j) : e.words = <<>>}}
RECURSIVE Pipeline(_, _, _)
Pipeline(ts, i, j) ==
  Exec(ts, i, j)
  \cup UNION {{pipecmd(l, r) : l \in Exec(ts, i, k), r \in Pipeline(ts, k + 1, j)} :
              k \in {k \in i..(j - 1) : ts[k] = "|"}}
RECURSIVE Background(_, _, _)
Background(ts, i, j) ==
  Pipeline(ts, i, j)
  \cup (IF j > i /\ ts[j - 1] = "&" THEN {backcmd(c) : c \in Background(ts, i, j - 1)} ELSE {})
Line(ts, i, j) ==
  Background(ts, i, j)
  \cup UNION {{listcmd(l, r) : l \in Background(ts, i, k), r \in Line(ts, k + 1, j)} :
              k \in {k \in i..(j - 1) : ts[k] = ";"}}

\* parsecmd(): the parser accepts the lines of the grammar and no others, the grammar
\* gives a line one meaning, and that is what the parser finds; nulterminate() marks
\* the end of every word of the line.
ParseInv ==
  LET r == parsecmd(line) IN
  /\ Line(line, 1, Len(line) + 1) = IF r.s = 0 THEN {} ELSE {r.cmd}
  /\ r.s # 0 => nulterminate(r.cmd) = {k \in DOMAIN line : line[k] = "a"}

\* The programs of a command with the input and the output that they should have
RECURSIVE Programs(_, _, _)
Programs(c, in, out) ==
  CASE c.type = "EXEC" -> {<<c.argv, in, out>>}
    [] c.type = "REDIR" -> LET f == <<"file", c.file>> IN
         Programs(c.cmd, IF c.fd = 0 THEN f ELSE in, IF c.fd = 1 THEN f ELSE out)
    [] c.type = "PIPE" -> Programs(c.left, in, End("w", c)) \cup Programs(c.right, End("r", c), out)
    [] c.type = "LIST" -> Programs(c.left, in, out) \cup Programs(c.right, in, out)
    [] c.type = "BACK" -> Programs(c.cmd, in, out)

\* The words of a command that is waited for
RECURSIVE Foreground(_)
Foreground(c) ==
  CASE c.type = "EXEC" -> {c.argv}
    [] c.type = "REDIR" -> Foreground(c.cmd)
    [] c.type \in {"PIPE", "LIST"} -> Foreground(c.left) \cup Foreground(c.right)
    [] c.type = "BACK" -> {}

\* Among the words of the running programs: what comes after ";" waits for what comes
\* before it, unless that is in the background.
RECURSIVE Ordered(_, _)
Ordered(c, running) ==
  CASE c.type = "EXEC" -> TRUE
    [] c.type \in {"REDIR", "BACK"} -> Ordered(c.cmd, running)
    [] c.type \in {"PIPE", "LIST"} ->
         /\ Ordered(c.left, running) /\ Ordered(c.right, running)
         /\ \/ c.type = "PIPE" \/ Foreground(c.left) \cap running = {}
            \/ {x[1] : x \in Programs(c.right, None, None)} \cap running = {}

\* runcmd(): a program gets the input and the output that its place in the command
\* says, and no other descriptor but that of the errors; no program runs twice; a
\* process waits for as many children as it has; and unless a fork() has failed, the
\* parts of a list run one after the other and the prompt comes after all of them.
ShellInv ==
  LET Running == {p \in DOMAIN sh : sh[p].st \in Program}
      running == {sh[p].cmd.argv : p \in Running}
  IN /\ \A p \in Running :
          /\ <<sh[p].cmd.argv, sh[p].fds[0], sh[p].fds[1]>> \in Programs(tree, Tty, Tty)
          /\ sh[p].fds[2] = Tty /\ \A fd \in Fd : fd > 2 => sh[p].fds[fd] = None
          /\ \A q \in Running \ {p} : sh[q].cmd.argv # sh[p].cmd.argv
     /\ \A p \in DOMAIN sh : sh[p].st = "wait" => Cardinality(Children(p)) = sh[p].waits
     /\ Running # {} /\ ~failed =>
          /\ Ordered(tree, running)
          /\ sh[1].st = "prompt" => Foreground(tree) \cap running = {}

\* runcmd(): the shell gets back to its prompt, although the programs of a pipe read
\* until every process has closed its write end, and write until somebody reads or
\* every process has closed its read end.
ShellPrompts == [](sh[1].st = "wait" => <>(sh[1].st = "prompt"))
=============================================================================
