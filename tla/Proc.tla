-------------------------------- MODULE Proc --------------------------------
(***************************************************************************)
(* The process table of proc.c: allocproc, fork, exit, wait, kill, the     *)
(* per-CPU scheduler, and the forced exits and preemptions of trap.c.      *)
(*                                                                         *)
(* ptable.lock is explicit where it is held across a context switch: the   *)
(* scheduler hands it to the process it starts, and a process hands it     *)
(* back when it sleeps, yields or exits.  Any other critical section of    *)
(* ptable.lock is one step, and so is each stretch of fork() and exit()    *)
(* that runs without it.                                                   *)
(***************************************************************************)
EXTENDS Integers, FiniteSets

CONSTANTS NPROC,      \* slots of ptable.proc
          CPU,        \* processors
          NoCPU,
          MaxPid,     \* bound on nextpid
          KillPids,   \* pids that processes pass to kill()
          MayFail     \* whether kalloc() and copyuvm() may run out of memory

ASSUME ProcConstants ==
  /\ {NPROC, MaxPid} \subseteq Nat \ {0}
  /\ NoCPU \notin CPU /\ KillPids \subseteq Nat /\ MayFail \in BOOLEAN

Slot == 1..NPROC
initproc == 1          \* userinit() runs first and takes the first slot
NoSlot == 0

VARIABLES
  state,     \* p->state
  pid,       \* p->pid
  parent,    \* p->parent
  killed,    \* p->killed
  kstack,    \* p->kstack # 0
  pc,        \* where the process is: "user", or inside fork, exit or wait
  np,        \* the child that fork() is making
  nextpid,
  cur,       \* cpu->proc
  idx,       \* where the loop of scheduler() stands, per CPU
  lock,      \* the CPU that holds ptable.lock across a swtch, or NoCPU
  hits,      \* history: the pid that the kill() was for that marked a slot, and whether
             \* the slot was then, or has become since, one that no process has
  panicked   \* panic("init exiting")

tableVars == <<state, pid, parent, killed, kstack>>
cpuVars   == <<cur, idx, lock>>
vars      == <<tableVars, pc, np, nextpid, cpuVars, hits, panicked>>

TypeOK ==
  /\ state \in [Slot -> {"UNUSED", "EMBRYO", "SLEEPING", "RUNNABLE",
                         "RUNNING", "ZOMBIE"}]
  /\ pid \in [Slot -> 0..MaxPid]
  /\ parent \in [Slot -> Slot \cup {NoSlot}]
  /\ killed \in [Slot -> BOOLEAN]
  /\ kstack \in [Slot -> BOOLEAN]
  /\ pc \in [Slot -> {"user", "fork_kalloc", "fork_copy", "fork_run", "exit",
                      "wait", "asleep"}]
  /\ np \in [Slot -> Slot \cup {NoSlot}]
  /\ nextpid \in 1..(MaxPid + 1)
  /\ cur \in [CPU -> Slot \cup {NoSlot}]
  /\ idx \in [CPU -> 1..(NPROC + 1)]
  /\ lock \in CPU \cup {NoCPU}
  /\ hits \in [Slot -> {<<>>} \cup (KillPids \X BOOLEAN)]
  /\ panicked \in BOOLEAN

\* userinit() has made the first process; every CPU enters scheduler().
Init ==
  /\ state = [s \in Slot |-> IF s = initproc THEN "RUNNABLE" ELSE "UNUSED"]
  /\ pid = [s \in Slot |-> IF s = initproc THEN 1 ELSE 0]
  /\ parent = [s \in Slot |-> NoSlot]
  /\ killed = [s \in Slot |-> FALSE]
  /\ kstack = [s \in Slot |-> s = initproc]
  /\ pc = [s \in Slot |-> "user"]
  /\ np = [s \in Slot |-> NoSlot]
  /\ nextpid = 2
  /\ cur = [c \in CPU |-> NoSlot]
  /\ idx = [c \in CPU |-> 1]
  /\ lock = NoCPU
  /\ hits = [s \in Slot |-> <<>>]
  /\ panicked = FALSE

\* Process p runs on CPU c and is past any critical section it was resumed in.
Runs(c, p) == ~panicked /\ cur[c] = p /\ lock # c

First(S) == CHOOSE s \in S : \A t \in S : s <= t

-----------------------------------------------------------------------------
(* scheduler(), sched(), yield() *)

sched_acquire(c) ==
  /\ ~panicked
  /\ cur[c] = NoSlot /\ lock = NoCPU
  /\ lock' = c
  /\ idx' = [idx EXCEPT ![c] = 1]
  /\ UNCHANGED <<tableVars, pc, np, nextpid, cur, hits, panicked>>

\* The rest of the table as the loop of scheduler() sees it.
Ahead(c) == {s \in Slot : s >= idx[c] /\ state[s] = "RUNNABLE"}

\* Switch to the next runnable process, which now holds ptable.lock.
sched_switch(c) ==
  /\ ~panicked
  /\ cur[c] = NoSlot /\ lock = c
  /\ Ahead(c) # {}
  /\ LET p == First(Ahead(c)) IN
       /\ cur' = [cur EXCEPT ![c] = p]
       /\ idx' = [idx EXCEPT ![c] = p + 1]
       /\ state' = [state EXCEPT ![p] = "RUNNING"]
  /\ UNCHANGED <<pid, parent, killed, kstack, pc, np, nextpid, lock,
                 hits, panicked>>

\* The end of the table: release and start over.
sched_release(c) ==
  /\ ~panicked
  /\ cur[c] = NoSlot /\ lock = c
  /\ Ahead(c) = {}
  /\ lock' = NoCPU
  /\ UNCHANGED <<tableVars, pc, np, nextpid, cur, idx, hits, panicked>>

\* sched() as part of a step of p that has set its state: back to the
\* scheduler of c, which holds ptable.lock and goes on with its loop.
sched(c) == cur' = [cur EXCEPT ![c] = NoSlot] /\ lock' = c /\ UNCHANGED idx

\* A process comes back from swtch in yield() or, the first time, in
\* forkret(), and releases ptable.lock.
resume(c) ==
  /\ ~panicked
  /\ cur[c] # NoSlot /\ lock = c
  /\ pc[cur[c]] # "asleep"
  /\ lock' = NoCPU
  /\ UNCHANGED <<tableVars, pc, np, nextpid, cur, idx, hits, panicked>>

\* The timer interrupt of trap.c, in user space or in the kernel.
yield(c, p) ==
  /\ Runs(c, p) /\ lock = NoCPU
  /\ state' = [state EXCEPT ![p] = "RUNNABLE"]
  /\ sched(c)
  /\ UNCHANGED <<pid, parent, killed, kstack, pc, np, nextpid, hits,
                 panicked>>

-----------------------------------------------------------------------------
(* fork() *)

Unused == {s \in Slot : state[s] = "UNUSED"}

\* How fork() returns -1.  The one user program that reacts is init, which
\* then exits.
fork_fails(p) == pc' = [pc EXCEPT ![p] = IF p = initproc THEN "exit" ELSE "user"]

\* allocproc() finds no slot.
fork_full(c, p) ==
  /\ Runs(c, p) /\ lock = NoCPU
  /\ pc[p] = "user" /\ ~killed[p]
  /\ Unused = {}
  /\ fork_fails(p)
  /\ UNCHANGED <<tableVars, np, nextpid, cpuVars, hits, panicked>>

\* allocproc() up to the release of ptable.lock.
allocproc(c, p) ==
  /\ Runs(c, p) /\ lock = NoCPU
  /\ pc[p] = "user" /\ ~killed[p]
  /\ Unused # {} /\ nextpid <= MaxPid
  /\ LET s == First(Unused) IN
       /\ state' = [state EXCEPT ![s] = "EMBRYO"]
       /\ pid' = [pid EXCEPT ![s] = nextpid]
       /\ np' = [np EXCEPT ![p] = s]
  /\ nextpid' = nextpid + 1
  /\ pc' = [pc EXCEPT ![p] = "fork_kalloc"]
  /\ UNCHANGED <<parent, killed, kstack, cpuVars, hits, panicked>>

\* A slot that is given back keeps its mark.
unborn(h) == IF h = <<>> THEN h ELSE <<h[1], TRUE>>

\* The kernel stack: allocproc() gives the slot back when there is none.
fork_kalloc(c, p) ==
  /\ Runs(c, p)
  /\ pc[p] = "fork_kalloc"
  /\ \/ /\ kstack' = [kstack EXCEPT ![np[p]] = TRUE]
        /\ pc' = [pc EXCEPT ![p] = "fork_copy"]
        /\ UNCHANGED <<state, np, hits>>
     \/ /\ MayFail
        /\ state' = [state EXCEPT ![np[p]] = "UNUSED"]
        /\ np' = [np EXCEPT ![p] = NoSlot]
        /\ hits' = [hits EXCEPT ![np[p]] = unborn(@)]
        /\ fork_fails(p)
        /\ UNCHANGED kstack
  /\ UNCHANGED <<pid, parent, killed, nextpid, cpuVars, panicked>>

\* copyuvm(), and the fields of the child that fork() sets without a lock.
fork_copy(c, p) ==
  /\ Runs(c, p)
  /\ pc[p] = "fork_copy"
  /\ \/ /\ parent' = [parent EXCEPT ![np[p]] = p]
        /\ pc' = [pc EXCEPT ![p] = "fork_run", ![np[p]] = "user"]
        /\ UNCHANGED <<state, kstack, np, hits>>
     \/ /\ MayFail
        /\ kstack' = [kstack EXCEPT ![np[p]] = FALSE]
        /\ state' = [state EXCEPT ![np[p]] = "UNUSED"]
        /\ np' = [np EXCEPT ![p] = NoSlot]
        /\ hits' = [hits EXCEPT ![np[p]] = unborn(@)]
        /\ fork_fails(p)
        /\ UNCHANGED parent
  /\ UNCHANGED <<pid, killed, nextpid, cpuVars, panicked>>

fork_run(c, p) ==
  /\ Runs(c, p) /\ lock = NoCPU
  /\ pc[p] = "fork_run"
  /\ state' = [state EXCEPT ![np[p]] = "RUNNABLE"]
  /\ np' = [np EXCEPT ![p] = NoSlot]
  /\ pc' = [pc EXCEPT ![p] = "user"]
  /\ UNCHANGED <<pid, parent, killed, kstack, nextpid, cpuVars, hits,
                 panicked>>

-----------------------------------------------------------------------------
(* exit() *)

\* exit() up to the acquire of ptable.lock: it closes files, which takes time.
\* init exits only when it is killed or its fork failed.
exit_start(c, p) ==
  /\ Runs(c, p)
  /\ pc[p] = "user"
  /\ p = initproc => killed[p]
  /\ pc' = [pc EXCEPT ![p] = "exit"]
  /\ UNCHANGED <<tableVars, np, nextpid, cpuVars, hits, panicked>>

\* panic("init exiting")
exit_init(c, p) ==
  /\ Runs(c, p)
  /\ pc[p] = "exit" /\ p = initproc
  /\ panicked' = TRUE
  /\ UNCHANGED <<tableVars, pc, np, nextpid, cpuVars, hits>>

\* Channel p is what wait() sleeps on; nothing else in this module sleeps.
wakeup1(f, S) == [q \in Slot |-> IF q \in S /\ f[q] = "SLEEPING"
                                 THEN "RUNNABLE" ELSE f[q]]

Children(p) == {s \in Slot : parent[s] = p}

\* Fault: the children keep their parent.
FaultNoReparent(c, p) ==
  /\ Runs(c, p) /\ lock = NoCPU
  /\ pc[p] = "exit" /\ p # initproc
  /\ LET woken == {parent[p]} \cup
                  (IF \E s \in Children(p) : state[s] = "ZOMBIE"
                   THEN {initproc} ELSE {})
     IN state' = [wakeup1(state, woken) EXCEPT ![p] = "ZOMBIE"]
  /\ sched(c)
  /\ UNCHANGED <<pid, parent, killed, kstack, pc, np, nextpid, hits, panicked>>

\* Fault: init is not woken for the zombies it inherits.
FaultNoInitWakeup(c, p) ==
  /\ Runs(c, p) /\ lock = NoCPU
  /\ pc[p] = "exit" /\ p # initproc
  /\ LET woken == {parent[p]}
     IN state' = [wakeup1(state, woken) EXCEPT ![p] = "ZOMBIE"]
  /\ parent' = [s \in Slot |-> IF s \in Children(p) THEN initproc ELSE parent[s]]
  /\ sched(c)
  /\ UNCHANGED <<pid, killed, kstack, pc, np, nextpid, hits, panicked>>

\* Fault: the parent is not woken.
FaultNoParentWakeup(c, p) ==
  /\ Runs(c, p) /\ lock = NoCPU
  /\ pc[p] = "exit" /\ p # initproc
  /\ LET woken == IF \E s \in Children(p) : state[s] = "ZOMBIE" THEN {initproc} ELSE {}
     IN state' = [wakeup1(state, woken) EXCEPT ![p] = "ZOMBIE"]
  /\ parent' = [s \in Slot |-> IF s \in Children(p) THEN initproc ELSE parent[s]]
  /\ sched(c)
  /\ UNCHANGED <<pid, killed, kstack, pc, np, nextpid, hits, panicked>>

\* Wake the parent, pass the children to init, wake init for the dead ones.
exit(c, p) ==
  /\ Runs(c, p) /\ lock = NoCPU
  /\ pc[p] = "exit" /\ p # initproc
  /\ LET woken == {parent[p]} \cup
                  (IF \E s \in Children(p) : state[s] = "ZOMBIE"
                   THEN {initproc} ELSE {})
     IN state' = [wakeup1(state, woken) EXCEPT ![p] = "ZOMBIE"]
  /\ parent' = [s \in Slot |-> IF s \in Children(p) THEN initproc ELSE parent[s]]
  /\ sched(c)
  /\ UNCHANGED <<pid, killed, kstack, pc, np, nextpid, hits, panicked>>

-----------------------------------------------------------------------------
(* wait() *)

wait_call(c, p) ==
  /\ Runs(c, p)
  /\ pc[p] = "user" /\ ~killed[p]
  /\ pc' = [pc EXCEPT ![p] = "wait"]
  /\ UNCHANGED <<tableVars, np, nextpid, cpuVars, hits, panicked>>

\* p is at the head of the loop with ptable.lock: it has just acquired it, or
\* came back from sleep() with it.
InWait(c, p) ==
  /\ ~panicked /\ cur[c] = p
  /\ \/ pc[p] = "wait" /\ lock = NoCPU
     \/ pc[p] = "asleep" /\ lock = c

Zombies(p) == {s \in Children(p) : state[s] = "ZOMBIE"}

\* A zombie child is found: free its slot and return its pid.
wait_reap(c, p) ==
  /\ InWait(c, p)
  /\ Zombies(p) # {}
  /\ LET s == First(Zombies(p)) IN
       /\ kstack' = [kstack EXCEPT ![s] = FALSE]
       /\ state' = [state EXCEPT ![s] = "UNUSED"]
       /\ pid' = [pid EXCEPT ![s] = 0]
       /\ parent' = [parent EXCEPT ![s] = NoSlot]
       /\ killed' = [killed EXCEPT ![s] = FALSE]
       /\ hits' = [hits EXCEPT ![s] = <<>>]
  /\ pc' = [pc EXCEPT ![p] = "user"]
  /\ lock' = NoCPU
  /\ UNCHANGED <<np, nextpid, cur, idx, panicked>>

\* No children, or killed: return -1.
wait_fails(c, p) ==
  /\ InWait(c, p)
  /\ Zombies(p) = {}
  /\ Children(p) = {} \/ killed[p]
  /\ pc' = [pc EXCEPT ![p] = "user"]
  /\ lock' = NoCPU
  /\ UNCHANGED <<tableVars, np, nextpid, cur, idx, hits, panicked>>

\* sleep(proc, &ptable.lock)
wait_sleep(c, p) ==
  /\ InWait(c, p)
  /\ Zombies(p) = {} /\ Children(p) # {} /\ ~killed[p]
  /\ state' = [state EXCEPT ![p] = "SLEEPING"]
  /\ pc' = [pc EXCEPT ![p] = "asleep"]
  /\ sched(c)
  /\ UNCHANGED <<pid, parent, killed, kstack, np, nextpid, hits, panicked>>

-----------------------------------------------------------------------------
(* kill() *)

\* Fault: a sleeping process is not woken.
FaultNoKillWakeup(c, p, k) ==
  /\ Runs(c, p) /\ lock = NoCPU
  /\ pc[p] = "user" /\ ~killed[p]
  /\ LET hit == {s \in Slot : pid[s] = k} IN
       IF hit = {} THEN UNCHANGED <<killed, state, hits>>
       ELSE /\ killed' = [killed EXCEPT ![First(hit)] = TRUE]
            /\ hits' = [hits EXCEPT ![First(hit)] = <<k, state[First(hit)] = "UNUSED">>]
            /\ UNCHANGED state
  /\ UNCHANGED <<pid, parent, kstack, pc, np, nextpid, cpuVars, panicked>>

\* The first slot with that pid, whatever its state.
kill(c, p, k) ==
  /\ Runs(c, p) /\ lock = NoCPU
  /\ pc[p] = "user" /\ ~killed[p]
  /\ LET hit == {s \in Slot : pid[s] = k} IN
       IF hit = {} THEN UNCHANGED <<killed, state, hits>>
       ELSE /\ killed' = [killed EXCEPT ![First(hit)] = TRUE]
            /\ hits' = [hits EXCEPT ![First(hit)] = <<k, state[First(hit)] = "UNUSED">>]
            /\ state' = wakeup1(state, {First(hit)})
  /\ UNCHANGED <<pid, parent, kstack, pc, np, nextpid, cpuVars, panicked>>

-----------------------------------------------------------------------------
fork_step(c, p) ==
  \/ fork_full(c, p) \/ allocproc(c, p)
  \/ fork_kalloc(c, p) \/ fork_copy(c, p) \/ fork_run(c, p)

exit_step(c, p) == exit_init(c, p) \/ exit(c, p)

wait_step(c, p) == wait_reap(c, p) \/ wait_fails(c, p) \/ wait_sleep(c, p)

Next ==
  \E c \in CPU :
    \/ sched_acquire(c) \/ sched_switch(c) \/ sched_release(c) \/ resume(c)
    \/ \E p \in Slot :
         \/ yield(c, p)
         \/ fork_step(c, p)
         \/ exit_start(c, p) \/ exit_step(c, p)
         \/ wait_call(c, p) \/ wait_step(c, p)
         \/ \E k \in KillPids : kill(c, p, k)

Spec == Init /\ [][Next]_vars

\* What a process does once it is scheduled often enough: finish a fork, exit
\* or wait it has started, exit if it is killed (trap.c), and call wait() if it
\* is init (init.c).  Nobody else has to call wait() or exit().
obliged(p) ==
  \E c \in CPU :
    \/ fork_kalloc(c, p) \/ fork_copy(c, p) \/ fork_run(c, p)
    \/ exit_step(c, p)
    \/ wait_step(c, p)
    \/ killed[p] /\ exit_start(c, p)
    \/ p = initproc /\ wait_call(c, p)

scheduler(c) == sched_acquire(c) \/ sched_switch(c) \/ sched_release(c) \/ resume(c)

\* Fairness.  A CPU is never stuck: it is in the scheduler or its timer ticks; and
\* a process that keeps being scheduled makes progress.
Fairness ==
  /\ \A c \in CPU : WF_vars(scheduler(c) \/ \E p \in Slot : yield(c, p))
  /\ \A p \in Slot : SF_vars(obliged(p))

FairSpec == Spec /\ Fairness

-----------------------------------------------------------------------------
(* Properties. *)

Alive == {"SLEEPING", "RUNNABLE", "RUNNING"}

\* A process that fork() has released has a living parent, so that somebody
\* can reap it: exit() hands every child to init, which has none and lives for ever.  A
\* slot that is free, or not yet a child, is nobody's.
ParentIsAlive ==
  /\ parent[initproc] = NoSlot /\ state[initproc] \in Alive
  /\ \A p \in Slot \ {initproc} :
       /\ parent[p] # p
       /\ state[p] \in Alive \cup {"ZOMBIE"} =>
            parent[p] # NoSlot /\ state[parent[p]] \in Alive
       /\ state[p] = "UNUSED" => parent[p] = NoSlot

\* A RUNNING process is on one CPU and nothing else is on any, although a process sets
\* its state before it has left its stack and the scheduler before it is there.
OnOneCpu ==
  /\ \A c \in CPU : cur[c] # NoSlot => state[cur[c]] = "RUNNING"
  /\ \A c, d \in CPU : cur[c] = cur[d] /\ cur[c] # NoSlot => c = d
  /\ \A p \in Slot : state[p] = "RUNNING" => \E c \in CPU : cur[c] = p

\* The child that fork() is making belongs to that fork() alone until it is RUNNABLE,
\* and its parent is awake.
Forks ==
  /\ \A p \in Slot :
       /\ np[p] # NoSlot <=> pc[p] \in {"fork_kalloc", "fork_copy", "fork_run"}
       /\ np[p] # NoSlot =>
            /\ state[p] \in {"RUNNABLE", "RUNNING"} /\ state[np[p]] = "EMBRYO"
            /\ kstack[np[p]] <=> pc[p] # "fork_kalloc"
            /\ parent[np[p]] = IF pc[p] = "fork_run" THEN p ELSE NoSlot
            /\ \A q \in Slot : np[q] = np[p] => q = p
       /\ state[p] = "EMBRYO" => \E q \in Slot : np[q] = p

\* A process asleep in wait() has children and none of them is dead: the
\* wakeup of exit() is never lost, neither for a parent nor for init when it
\* inherits a zombie.
WaitMissesNoZombie ==
  \A p \in Slot : state[p] = "SLEEPING" => Children(p) # {} /\ Zombies(p) = {}

\* Kernel stacks are neither leaked nor freed under a process: exactly the
\* slots past allocproc() have one.
KstackBalance ==
  \A p \in Slot :
    /\ state[p] \in Alive \cup {"ZOMBIE"} => kstack[p]
    /\ state[p] = "UNUSED" => ~kstack[p]

\* Only a process whose own pid was passed to kill() is killed.  The exception is the
\* code's: kill() also marks a slot that no process has, by pid 0 or by the pid that a
\* failed fork() leaves there, and allocproc() does not take the mark away.
KilledByPid ==
  \A p \in Slot : killed[p] =>
    hits[p] # <<>> /\ (hits[p][2] \/ (state[p] # "UNUSED" /\ hits[p][1] = pid[p]))

\* A zombie whose parent is init is reaped.
OrphansReaped ==
  \A p \in Slot \ {initproc} :
    (state[p] = "ZOMBIE" /\ parent[p] = initproc)
      ~> (state[p] # "ZOMBIE" \/ panicked)

\* A process that was killed dies, wherever the kill met it: it is woken if it
\* sleeps, the scheduler gets to it, and it leaves the kernel through exit().
KilledDies ==
  \A k \in KillPids :
    LET Lives(p) == pid[p] = k /\ state[p] \in Alive
    IN (\E p \in Slot : Lives(p) /\ killed[p])
         ~> (~(\E p \in Slot : Lives(p)) \/ panicked)

\* The table is sound at every step of fork(), exit(), wait() and the scheduler: parents
\* live, kernel stacks are where they belong, nobody runs twice, and nobody dies for
\* another's pid.  This is inductive.
TableInv ==
  /\ TypeOK /\ OnOneCpu /\ Forks
  /\ ParentIsAlive /\ KstackBalance /\ KilledByPid
=============================================================================
