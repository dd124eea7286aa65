------------------------------ MODULE Console -------------------------------
(***************************************************************************)
(* The console and the clock: interrupt handlers of trap.c against the     *)
(* system calls that sleep on them.  consoleintr, consoleread,             *)
(* consolewrite and cgaputc of console.c, sys_sleep of sysproc.c, and      *)
(* sleep, wakeup, sched, yield, kill and the scheduler of proc.c with the  *)
(* spinlocks and the interrupt flag of each CPU.                           *)
(*                                                                         *)
(* A thread is a process or the scheduler of a CPU.  A handler runs on top *)
(* of the thread it interrupts (trap) and goes with it from CPU to CPU     *)
(* when it yields.  Keys reach CPU 0, and only that CPU counts ticks.      *)
(***************************************************************************)
EXTENDS Spinlock, Sequences

CONSTANTS Proc,
          INPUT_BUF, INDEX,    \* size of the buffer; its indices are modulo INDEX
          TICKS,               \* ticks is modulo TICKS
          ROWS, COLS,          \* 25 and 80 in the code
          Sizes,               \* arguments n of read() and sleep()
          MaxKeys, MaxIrqs, MaxCalls   \* bounds: keys, interrupts, system calls

ASSUME ConsoleConstants ==
  /\ {INPUT_BUF, INDEX, TICKS, ROWS, COLS} \subseteq Nat \ {0}
  /\ INDEX % INPUT_BUF = 0 /\ INDEX > INPUT_BUF /\ ROWS > 1
  /\ 0 \in CPU /\ CPU \subseteq Nat /\ Sizes \subseteq 1..(TICKS - 1)
  /\ Lock = {"cons", "ticks", "ptable"}

Thread == Proc \cup CPU         \* a CPU stands for its scheduler
Char == {"x", "nl", "^D"}
Key == Char \cup {"^H", "^U"}

VARIABLES
  cur,       \* the thread on each CPU
  pc, trap,  \* where a thread is, and where the handler on top of it is
  state, chan, killed, saved,   \* of a process; saved: intena in sched()
  input,     \* struct input: buf, r, w, e
  pos,       \* the cursor
  ticks,
  n, ticks0, \* locals of the system calls
  got,       \* the read() has delivered something: n < target
  kept,      \* history: characters that the line editing kept, not yet read
  missed,    \* history: killed between the test of p->killed and sleep()
  keys, irqs, calls

procVars == <<cur, state, chan, killed, saved, missed>>
consVars == <<input, pos, kept, keys>>
callVars == <<n, ticks0, got, calls>>
vars == <<lockVars, procVars, consVars, callVars, pc, trap, ticks, irqs>>

Init ==
  /\ LocksInit
  /\ cur = [c \in CPU |-> c]
  /\ pc = [t \in Thread |-> IF t \in Proc THEN "forkret" ELSE "scheduler"]
  /\ trap = [t \in Thread |-> "none"]
  /\ state = [p \in Proc |-> "RUNNABLE"]
  /\ chan = [p \in Proc |-> "none"]
  /\ killed = [p \in Proc |-> FALSE]
  /\ saved = [p \in Proc |-> FALSE] /\ missed = {}
  /\ input = [buf |-> [i \in 0..(INPUT_BUF - 1) |-> "x"],
              r |-> INDEX - 1, w |-> INDEX - 1, e |-> 0]
  /\ kept = <<"x">>          \* one character has been typed
  /\ pos = 0
  /\ ticks = TICKS - 1
  /\ n = [p \in Proc |-> 0] /\ ticks0 = [p \in Proc |-> 0]
  /\ got = [p \in Proc |-> FALSE]
  /\ keys = 0 /\ irqs = 0 /\ calls = 0

\* The code that CPU c executes is at l; it goes on at l.
At(c, l) ==
  /\ panicked = "no"
  /\ l = IF trap[cur[c]] # "none" THEN trap[cur[c]] ELSE pc[cur[c]]
goto(c, l) ==
  IF trap[cur[c]] # "none" THEN trap' = [trap EXCEPT ![cur[c]] = l] /\ UNCHANGED pc
  ELSE pc' = [pc EXCEPT ![cur[c]] = l] /\ UNCHANGED trap

\* Every acquire() of the code: where it is, its lock, and what follows
Acquires ==
  {<<"consoleread", "cons", "reading">>, <<"consolewrite", "cons", "writing">>,
   <<"sys_sleep", "ticks", "ticks0">>, <<"sleep again", "ticks", "sleeping">>,
   <<"sleep on input", "ptable", "sleep">>, <<"sleep on ticks", "ptable", "sleep">>,
   <<"kill", "ptable", "killing">>, <<"exit", "ptable", "zombie">>,
   <<"scheduler", "ptable", "scan">>, <<"yield", "ptable", "yielding">>,
   <<"timer", "ticks", "tick">>, <<"wakeup ticks", "ptable", "wake ticks">>,
   <<"kbd", "cons", "getc">>, <<"wakeup input", "ptable", "wake input">>}

acquires(c) ==
  \E a \in Acquires :
    /\ At(c, a[1])
    /\ acquire(c, a[2]) \/ xchg(c, a[2])
    /\ IF locked[a[2]] = NoCpu THEN goto(c, a[3]) ELSE UNCHANGED <<pc, trap>>
    /\ UNCHANGED <<procVars, consVars, callVars, ticks, irqs>>

-----------------------------------------------------------------------------
(* Processes and the scheduler *)

\* sched(): its checks, then the switch to the scheduler of the CPU
sched(c) ==
  /\ panicked' = IF ~holding(c, "ptable") THEN "sched ptable.lock"
                 ELSE IF ncli'[c] # 1 THEN "sched locks"
                 ELSE IF state'[cur[c]] = "RUNNING" THEN "sched running"
                 ELSE IF IF_'[c] THEN "sched interruptible" ELSE "no"
  /\ saved' = [saved EXCEPT ![cur[c]] = intena[c]]
  /\ cur' = [cur EXCEPT ![c] = c]
  /\ goto(c, "resumed")
  /\ UNCHANGED <<intena, spin, chan, killed, missed, consVars, callVars, ticks, irqs>>

\* sleep() with ptable.lock: give up the lock of the channel and go to sleep.
sleep(c) ==
  /\ At(c, "sleep")
  /\ locked' = [locked EXCEPT ![IF chan[cur[c]] = "input" THEN "cons" ELSE "ticks"] = NoCpu]
  /\ ncli' = [ncli EXCEPT ![c] = @ - 1]
  /\ IF_' = IF_
  /\ state' = [state EXCEPT ![cur[c]] = "SLEEPING"]
  /\ sched(c)

\* yield() and exit(), with ptable.lock
leave(c) ==
  /\ At(c, "yielding") \/ At(c, "zombie")
  /\ state' = [state EXCEPT ![cur[c]] = IF At(c, "zombie") THEN "ZOMBIE" ELSE "RUNNABLE"]
  /\ UNCHANGED <<locked, ncli, IF_>>
  /\ sched(c)

\* scheduler() switches to p, which finds its intena again in sched().
scan(c, p) ==
  /\ At(c, "scan")
  /\ state[p] = "RUNNABLE"
  /\ state' = [state EXCEPT ![p] = "RUNNING"]
  /\ cur' = [cur EXCEPT ![c] = p]
  /\ intena' = [intena EXCEPT ![c] = IF pc[p] = "forkret" THEN @ ELSE saved[p]]
  /\ UNCHANGED <<locked, ncli, IF_, spin, panicked, chan, killed, saved, missed, pc, trap, consVars,
                 callVars, ticks, irqs>>

\* The end of the scan: release(), and sti() at the top of the loop
scan_end(c) ==
  /\ At(c, "scan")
  /\ locked' = [locked EXCEPT !["ptable"] = NoCpu]
  /\ ncli' = [ncli EXCEPT ![c] = @ - 1]
  /\ IF_' = [IF_ EXCEPT ![c] = TRUE]
  /\ goto(c, "scheduler")
  /\ UNCHANGED <<intena, spin, panicked, procVars, consVars, callVars, ticks, irqs>>

Dies(t) == t \in Proc /\ killed[t] /\ pc[t] = "user"

\* A handler gives up lk, its last lock, and goes back to what was interrupted; but a
\* killed process does not get back to user mode.
iret(c, lk) ==
  LET t == cur[c] IN
  /\ locked' = [locked EXCEPT ![lk] = NoCpu]
  /\ ncli' = [ncli EXCEPT ![c] = @ - 1]
  /\ trap' = [trap EXCEPT ![t] = "none"]
  /\ pc' = [pc EXCEPT ![t] = IF Dies(t) THEN "exit" ELSE @]
  /\ IF_' = [IF_ EXCEPT ![c] = ~Dies(t)]
  /\ UNCHANGED <<intena, spin, panicked>>

\* Back from sched() with ptable.lock: the end of sleep() or yield()
resumed(c) ==
  /\ At(c, "resumed")
  /\ LET p == cur[c] IN
       /\ saved' = [saved EXCEPT ![p] = FALSE]
       /\ IF trap[p] # "none" THEN iret(c, "ptable") /\ UNCHANGED chan
          ELSE /\ release(c, "ptable")
               /\ chan' = [chan EXCEPT ![p] = "none"]
               /\ goto(c, IF chan[p] = "input" THEN "consoleread" ELSE "sleep again")
  /\ UNCHANGED <<cur, state, killed, missed, consVars, callVars, ticks, irqs>>

\* A new process: forkret() gives up ptable.lock, and user mode has the flag of the
\* trap frame.
forkret(c) ==
  /\ At(c, "forkret")
  /\ locked' = [locked EXCEPT !["ptable"] = NoCpu]
  /\ ncli' = [ncli EXCEPT ![c] = @ - 1]
  /\ IF_' = [IF_ EXCEPT ![c] = TRUE]
  /\ goto(c, "user")
  /\ UNCHANGED <<intena, spin, panicked, procVars, consVars, callVars, ticks, irqs>>

\* Fault: only the first sleeper is woken.
FaultWakeup1(ch) ==
  [p \in Proc |-> IF state[p] = "SLEEPING" /\ chan[p] = ch
                     /\ p = CHOOSE q \in Proc : state[q] = "SLEEPING" /\ chan[q] = ch
                  THEN "RUNNABLE" ELSE state[p]]

wakeup1(ch) ==
  [p \in Proc |-> IF state[p] = "SLEEPING" /\ chan[p] = ch THEN "RUNNABLE" ELSE state[p]]

\* wakeup() in a handler, with ptable.lock
wakeup(c, ch, next) ==
  /\ state' = wakeup1(ch)
  /\ release(c, "ptable")
  /\ goto(c, next)
  /\ UNCHANGED <<cur, chan, killed, saved, missed, consVars, callVars, ticks, irqs>>

\* kill() of p by the process on CPU c
kill(c, p) ==
  /\ At(c, "killing")
  /\ killed' = [killed EXCEPT ![p] = TRUE]
  /\ missed' = IF pc[p] \in {"sleep on input", "sleep on ticks"} THEN missed \cup {p} ELSE missed
  /\ state' = [state EXCEPT ![p] = IF @ = "SLEEPING" THEN "RUNNABLE" ELSE @]
  /\ release(c, "ptable")
  /\ goto(c, IF killed'[cur[c]] THEN "exit" ELSE "user")
  /\ UNCHANGED <<cur, chan, saved, consVars, callVars, ticks, irqs>>

-----------------------------------------------------------------------------
(* Interrupts *)

\* A timer or keyboard interrupt: an interrupt gate clears the flag.  (The timer
\* does nothing to the scheduler of another CPU than 0.)
interrupt(c, h) ==
  /\ panicked = "no"
  /\ irqs < MaxIrqs
  /\ IF_[c]
  /\ c = 0 \/ (h = "timer" /\ cur[c] \in Proc)
  /\ IF c # 0 /\ Dies(cur[c]) THEN goto(c, "exit")
     ELSE trap' = [trap EXCEPT ![cur[c]] = IF c = 0 THEN h ELSE "yield"] /\ UNCHANGED pc
  /\ IF_' = [IF_ EXCEPT ![c] = FALSE]
  /\ irqs' = irqs + 1
  /\ UNCHANGED <<locked, ncli, intena, spin, panicked, procVars, consVars, callVars, ticks>>

\* trap() on IRQ_TIMER of CPU 0
tick(c) ==
  /\ At(c, "tick")
  /\ ticks' = (ticks + 1) % TICKS
  /\ goto(c, "wakeup ticks")
  /\ UNCHANGED <<lockVars, procVars, consVars, callVars, irqs>>
tick_end(c) ==
  /\ At(c, "ticked")
  /\ IF cur[c] \in Proc /\ ~Dies(cur[c]) THEN release(c, "ticks") /\ goto(c, "yield")
     ELSE iret(c, "ticks")
  /\ UNCHANGED <<procVars, consVars, callVars, ticks, irqs>>

-----------------------------------------------------------------------------
(* The console *)

\* cgaputc(): the position after c
cgaputc(p0, c) ==
  LET p1 == CASE c = "nl" -> p0 + COLS - (p0 % COLS)
              [] c = "BACKSPACE" -> IF p0 > 0 THEN p0 - 1 ELSE p0
              [] OTHER -> p0 + 1
  IN IF p1 \div COLS >= ROWS - 1 THEN p1 - COLS ELSE p1

rubout(p0, k) ==
  LET at[j \in 0..k] == IF j = 0 THEN p0 ELSE cgaputc(at[j - 1], "BACKSPACE") IN at[k]

before(i) == (i + INDEX - 1) % INDEX
after(i) == (i + 1) % INDEX
Span(i, j) == (j + INDEX - i) % INDEX

\* Fault: a backspace goes on into lines that were entered already.
Faulterased(k) == IF input.e # input.r THEN 1 ELSE 0

\* So many characters of the line that is being typed go with ^H or ^U.
erased(k) ==
  LET back[j \in 0..INPUT_BUF] ==
        LET e == (input.e + INDEX - j) % INDEX IN
        IF e = input.w \/ input.buf[before(e) % INPUT_BUF] = "nl" THEN j ELSE back[j + 1]
  IN IF k = "^U" THEN back[0] ELSE IF input.e # input.w THEN 1 ELSE 0

\* One turn of the loop of consoleintr()
getc(c, k) ==
  /\ At(c, "getc")
  /\ keys < MaxKeys
  /\ keys' = keys + 1
  /\ IF k \in {"^H", "^U"}
     THEN /\ input' = [input EXCEPT !.e = (@ + INDEX - erased(k)) % INDEX]
          /\ pos' = rubout(pos, erased(k))
          /\ kept' = SubSeq(kept, 1, Len(kept) - erased(k))
          /\ UNCHANGED <<pc, trap>>
     ELSE IF Span(input.r, input.e) < INPUT_BUF
     THEN LET e1 == after(input.e)
              enter == k \in {"nl", "^D"} \/ e1 = (input.r + INPUT_BUF) % INDEX
          IN /\ input' = [input EXCEPT !.buf[input.e % INPUT_BUF] = k, !.e = e1,
                                       !.w = IF enter THEN e1 ELSE @]
             /\ pos' = cgaputc(pos, k)
             /\ kept' = Append(kept, k)
             /\ IF enter THEN goto(c, "wakeup input") ELSE UNCHANGED <<pc, trap>>
     ELSE UNCHANGED <<input, pos, kept, pc, trap>>
  /\ UNCHANGED <<lockVars, procVars, callVars, ticks, irqs>>

\* The keyboard has no more keys.
getc_end(c) ==
  /\ At(c, "getc")
  /\ iret(c, "cons")
  /\ UNCHANGED <<procVars, consVars, callVars, ticks, irqs>>

\* System calls: read() and write() of the console, sleep() and kill()
syscall(c, s, m) ==
  /\ At(c, "user")
  /\ calls < MaxCalls
  /\ calls' = calls + 1
  /\ n' = [n EXCEPT ![cur[c]] = m]
  /\ goto(c, IF killed[cur[c]] THEN "exit" ELSE s)
  /\ UNCHANGED <<lockVars, procVars, consVars, ticks0, got, ticks, irqs>>

\* The call returns, with the lock lk given up, and trap() tests p->killed.
return(c, lk) ==
  /\ release(c, lk)
  /\ goto(c, IF killed[cur[c]] THEN "exit" ELSE "user")
  /\ got' = [got EXCEPT ![cur[c]] = FALSE]
  /\ n' = [n EXCEPT ![cur[c]] = 0]
  /\ ticks0' = [ticks0 EXCEPT ![cur[c]] = 0]

\* sleep(): first of all ptable.lock
sleeps(c, ch, t0) ==
  /\ chan' = [chan EXCEPT ![cur[c]] = ch]
  /\ goto(c, IF ch = "input" THEN "sleep on input" ELSE "sleep on ticks")
  /\ ticks0' = [ticks0 EXCEPT ![cur[c]] = t0]
  /\ UNCHANGED <<lockVars, got, n>>

\* One turn of the loops of consoleread()
reading(c) ==
  /\ At(c, "reading")
  /\ LET p == cur[c] k == input.buf[input.r % INPUT_BUF] IN
       IF n[p] > 0 /\ input.r = input.w
       THEN /\ IF killed[p] THEN return(c, "cons") /\ UNCHANGED chan ELSE sleeps(c, "input", 0)
            /\ UNCHANGED <<input, kept>>
       ELSE IF n[p] = 0 \/ (k = "^D" /\ got[p])     \* ^D is kept for the next read
       THEN return(c, "cons") /\ UNCHANGED <<input, kept, chan>>
       ELSE /\ input' = [input EXCEPT !.r = after(@)]
            /\ kept' = Tail(kept)
            /\ UNCHANGED chan
            /\ IF k \in {"nl", "^D"} THEN return(c, "cons")
               ELSE /\ got' = [got EXCEPT ![p] = TRUE]
                    /\ n' = [n EXCEPT ![p] = @ - 1]
                    /\ UNCHANGED <<lockVars, pc, trap, ticks0>>
  /\ UNCHANGED <<cur, state, killed, saved, missed, calls, pos, keys, ticks, irqs>>

writing(c) ==
  /\ At(c, "writing")
  /\ pos' = cgaputc(pos, "x")
  /\ return(c, "cons")
  /\ UNCHANGED <<procVars, input, kept, keys, calls, ticks, irqs>>

Slept(t0) == (ticks + TICKS - t0) % TICKS

\* One turn of the loop of sys_sleep(), after ticks0 = ticks the first time
sleeping(c) ==
  /\ At(c, "ticks0") \/ At(c, "sleeping")
  /\ LET p == cur[c]
         t0 == IF At(c, "ticks0") THEN ticks ELSE ticks0[p]
     IN IF Slept(t0) < n[p] /\ ~killed[p]
        THEN sleeps(c, "ticks", t0) ELSE return(c, "ticks") /\ UNCHANGED chan
  /\ UNCHANGED <<cur, state, killed, saved, missed, consVars, calls, ticks, irqs>>

-----------------------------------------------------------------------------
Step(c) ==
  \/ acquires(c) \/ sleep(c) \/ leave(c) \/ scan_end(c) \/ resumed(c) \/ forkret(c)
  \/ (At(c, "wake ticks") /\ wakeup(c, "ticks", "ticked"))
  \/ (At(c, "wake input") /\ wakeup(c, "input", "getc"))
  \/ tick(c) \/ tick_end(c)
  \/ getc_end(c) \/ reading(c) \/ sleeping(c)
  \/ \E p \in Proc : scan(c, p) \/ kill(c, p)
  \/ \E k \in Key : getc(c, k)
  \/ writing(c)
  \/ \E h \in {"timer", "kbd"} : interrupt(c, h)
  \/ \E s \in {"consoleread", "sys_sleep"}, m \in Sizes : syscall(c, s, m)
  \/ \E s \in {"consolewrite", "kill"} : syscall(c, s, 0)

Next == \E c \in CPU : Step(c)

Spec == Init /\ [][Next]_vars

-----------------------------------------------------------------------------
(* Properties *)

Labels == {a[1] : a \in Acquires} \cup {a[3] : a \in Acquires}
          \cup {"user", "resumed", "forkret", "ticked"}

\* spinlock.c, sched(), trap(): a CPU that holds a lock has interrupts off and as
\* many pushcli() outstanding as locks; a process outside handlers and locks has
\* interrupts on, on whichever CPU it goes on after sleeping or yielding; no check
\* of acquire(), release(), popcli() or sched() fails.
InterruptsInv ==
  /\ panicked = "no"
  /\ pc \in [Thread -> Labels] /\ trap \in [Thread -> Labels \cup {"none"}]
  /\ input.r \in 0..(INDEX - 1) /\ ticks \in 0..(TICKS - 1)
  /\ \A c \in CPU :
       /\ ncli[c] = Cardinality(HeldBy(c)) + (IF spin[c] THEN 1 ELSE 0)
       /\ ncli[c] > 0 => ~IF_[c]
       /\ cur[c] \in Proc /\ trap[cur[c]] = "none" /\ ncli[c] = 0 =>
            IF_[c] \/ pc[cur[c]] = "exit"

\* scheduler(), sched(): a RUNNING process is on exactly one CPU and no other process
\* is on any, so that a kernel stack is never in use twice.
OnOneCpu ==
  \A p \in Proc : Cardinality({c \in CPU : cur[c] = p}) = IF state[p] = "RUNNING" THEN 1 ELSE 0

\* acquire(), release(), sched() and scheduler(): both of the above.
LocksInv == InterruptsInv /\ OnOneCpu

Content(i, j) == [x \in 1..Span(i, j) |-> input.buf[(i + x - 1) % INPUT_BUF]]

\* console.c: the buffer holds the characters that the line editing kept and that
\* were not read yet, in order, over the wrap of the buffer and of its indices; no
\* line that was entered is edited; the cursor stays on the screen.
ConsoleInv ==
  /\ Span(input.r, input.w) <= Span(input.r, input.e) /\ Span(input.r, input.e) <= INPUT_BUF
  /\ Content(input.r, input.e) = kept
  /\ Span(input.r, input.e) = INPUT_BUF => input.w # input.r
  /\ pos \in 0..(COLS * (ROWS - 1) - 1)

\* sleep(), wakeup(), consoleintr(), trap(): a process sleeps on the console only
\* while there is nothing to read and on the clock only until its time has come,
\* unless a handler that holds the lock is about to wake it up; and once it is killed
\* only if kill() came after the last test of p->killed and before ptable.lock.
SleepersHaveReason ==
  \A p \in Proc : state[p] = "SLEEPING" =>
    /\ killed[p] => p \in missed
    /\ IF chan[p] = "input"
       THEN input.r = input.w \/ trap[cur[0]] \in {"wakeup input", "wake input"}
       ELSE Slept(ticks0[p]) < n[p] \/ trap[cur[0]] \in {"wakeup ticks", "wake ticks"}
=============================================================================
