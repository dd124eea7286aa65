----------------------------- MODULE ProcProofs -----------------------------
(***************************************************************************)
(* Proofs about the process table of proc.c, for any number of slots,      *)
(* processors and pids.                                                    *)
(*                                                                         *)
(* TableInv is inductive: OnOneCpu says who may act, Forks that the slot a *)
(* fork() fills is its own, and the three properties of the table follow   *)
(* from the two, one action at a time.  WaitMissesNoZombie is inductive    *)
(* beside it, since exit() relies on the parents that TableInv describes.  *)
(***************************************************************************)
EXTENDS Proc, WellFoundedInduction, TLAPS

\* Time for the provers, and a second try for the first of them
USE SMTT(10), SMTT(30), ZenonT(30)

States == {"UNUSED", "EMBRYO", "SLEEPING", "RUNNABLE", "RUNNING", "ZOMBIE"}
Places == {"user", "fork_kalloc", "fork_copy", "fork_run", "exit", "wait", "asleep"}
Forking == {"fork_kalloc", "fork_copy", "fork_run"}

\* What every step preserves
Inv == TableInv /\ WaitMissesNoZombie

\* The part of TypeOK that most steps need
Shape ==
  /\ state \in [Slot -> States] /\ pc \in [Slot -> Places]
  /\ parent \in [Slot -> Slot \cup {NoSlot}] /\ np \in [Slot -> Slot \cup {NoSlot}]
  /\ cur \in [CPU -> Slot \cup {NoSlot}] /\ kstack \in [Slot -> BOOLEAN]

\* s is the child that process p is making in fork().
Making(p, s) ==
  /\ s \in Slot /\ NoSlot \notin Slot /\ state[s] = "EMBRYO"
  /\ state[p] = "RUNNING" /\ s # p /\ s # initproc
  /\ np[p] = s /\ np[s] = NoSlot /\ pc[s] \notin Forking
  /\ \A q \in Slot : np[q] = s => q = p
  /\ kstack[s] <=> pc[p] # "fork_kalloc"
  /\ parent[s] = IF pc[p] = "fork_run" THEN p ELSE NoSlot

\* The types of the shape
LEMMA ShapeIs == TypeOK => Shape
  BY DEF TypeOK, Shape, States, Places

-----------------------------------------------------------------------------
(* Searches of the table. *)

\* A search that can succeed finds one of the slots it looks for.
LEMMA FirstIs ==
  ASSUME NEW S, S \subseteq Slot, S # {}
  PROVE  First(S) \in S
<1>1. S \subseteq Nat
  BY ProcConstants DEF Slot
<1>2. IsWellFoundedOn(OpToRel(<, Nat), Nat)
  BY NatLessThanWellFounded, Zenon
<1>3. PICK x \in S : \A y \in S : ~(<<y, x>> \in OpToRel(<, Nat))
  BY <1>1, <1>2, WFMin, Zenon
<1>4. \A a, b \in Nat : a < b => <<a, b>> \in OpToRel(<, Nat)
  BY DEF OpToRel
<1>5. ASSUME NEW y \in S PROVE x <= y
  <2>1. x \in Nat /\ y \in Nat
    BY <1>1
  <2>2. ~(y < x)
    BY <1>3, <1>4, <2>1, Zenon
  <2> QED BY <2>1, <2>2
<1> QED BY <1>5 DEF First

\* What wakeup1() does to the states
LEMMA WakeupIs ==
  ASSUME NEW f \in [Slot -> States], NEW S
  PROVE  /\ wakeup1(f, S) \in [Slot -> States]
         /\ \A q \in Slot : wakeup1(f, S)[q] = IF q \in S /\ f[q] = "SLEEPING"
                                               THEN "RUNNABLE" ELSE f[q]
  BY DEF wakeup1, States

\* The marks of kill() stay right in a step that frees no slot and marks nobody.
LEMMA MarksKept ==
  ASSUME KilledByPid, UNCHANGED <<killed, hits, pid>>,
         \A q \in Slot : state[q] # "UNUSED" => state'[q] # "UNUSED"
  PROVE  KilledByPid'
<1>1. killed' = killed /\ hits' = hits /\ pid' = pid
  OBVIOUS
<1>2. ASSUME NEW q \in Slot, killed[q]
      PROVE  hits[q] # <<>> /\ (hits[q][2] \/ (state'[q] # "UNUSED" /\ hits[q][1] = pid[q]))
  BY <1>2, Zenon DEF KilledByPid
<1> QED BY <1>1, <1>2, Zenon DEF KilledByPid

\* Forks stays true in a step that leaves every unfinished fork() and its child alone.
LEMMA ForksKept ==
  ASSUME Shape, Forks, NoSlot \notin Slot, np' = np,
         \A q \in Slot : /\ pc'[q] \in Forking <=> pc[q] \in Forking
                         /\ pc[q] \in Forking => pc'[q] = pc[q],
         \A q \in Slot : /\ state'[q] = "EMBRYO" <=> state[q] = "EMBRYO"
                         /\ state[q] = "EMBRYO" => kstack'[q] = kstack[q] /\ parent'[q] = parent[q],
         \A q \in Slot : pc[q] \in Forking /\ state[q] \in {"RUNNABLE", "RUNNING"}
                           => state'[q] \in {"RUNNABLE", "RUNNING"}
  PROVE  Forks'
<1>1. ASSUME NEW q \in Slot
      PROVE  np'[q] # NoSlot <=> pc'[q] \in {"fork_kalloc", "fork_copy", "fork_run"}
  BY DEF Forks, Forking
<1>2. ASSUME NEW q \in Slot, np'[q] # NoSlot
      PROVE  /\ state'[q] \in {"RUNNABLE", "RUNNING"} /\ state'[np'[q]] = "EMBRYO"
             /\ kstack'[np'[q]] <=> pc'[q] # "fork_kalloc"
             /\ parent'[np'[q]] = IF pc'[q] = "fork_run" THEN q ELSE NoSlot
             /\ \A r \in Slot : np'[r] = np'[q] => r = q
  <2>1. np[q] \in Slot /\ np[q] # NoSlot /\ pc[q] \in Forking /\ pc'[q] = pc[q]
    BY <1>2 DEF Shape, Forks, Forking
  <2>2. /\ state[q] \in {"RUNNABLE", "RUNNING"} /\ state[np[q]] = "EMBRYO"
        /\ kstack[np[q]] <=> pc[q] # "fork_kalloc"
        /\ parent[np[q]] = IF pc[q] = "fork_run" THEN q ELSE NoSlot
        /\ \A r \in Slot : np[r] = np[q] => r = q
    BY <2>1 DEF Forks
  <2> QED BY <2>1, <2>2
<1>3. ASSUME NEW q \in Slot, state'[q] = "EMBRYO"
      PROVE  \E r \in Slot : np'[r] = q
  <2>1. \E r \in Slot : np[r] = q
    BY <1>3 DEF Forks
  <2> QED BY <2>1
<1> QED BY <1>1, <1>2, <1>3 DEF Forks

\* Forks when fork() of p ends, whether with a child or without
LEMMA ForkEnds ==
  ASSUME Shape, Forks, NEW p \in Slot, NEW s \in Slot, Making(p, s),
         np' = [np EXCEPT ![p] = NoSlot],
         NEW x \in Places \ Forking, pc' = [pc EXCEPT ![p] = x],
         state'[s] # "EMBRYO",
         \A q \in Slot \ {s} : /\ state'[q] = state[q] /\ kstack'[q] = kstack[q]
                               /\ parent'[q] = parent[q]
  PROVE  Forks'
<1>1. /\ NoSlot \notin Slot /\ np[p] = s /\ np[s] = NoSlot /\ s # p
      /\ \A q \in Slot : np[q] = s => q = p
  BY DEF Making
<1>2. /\ np'[p] = NoSlot /\ pc'[p] \notin Forking
      /\ \A q \in Slot \ {p} : np'[q] = np[q] /\ pc'[q] = pc[q]
  BY DEF Shape
<1>3. ASSUME NEW q \in Slot
      PROVE  np'[q] # NoSlot <=> pc'[q] \in {"fork_kalloc", "fork_copy", "fork_run"}
  BY <1>2 DEF Forks, Forking
<1>4. ASSUME NEW q \in Slot, np'[q] # NoSlot
      PROVE  /\ state'[q] \in {"RUNNABLE", "RUNNING"} /\ state'[np'[q]] = "EMBRYO"
             /\ kstack'[np'[q]] <=> pc'[q] # "fork_kalloc"
             /\ parent'[np'[q]] = IF pc'[q] = "fork_run" THEN q ELSE NoSlot
             /\ \A r \in Slot : np'[r] = np'[q] => r = q
  <2>1. q # p /\ np'[q] = np[q] /\ pc'[q] = pc[q] /\ q # s
    BY <1>1, <1>2, <1>4
  <2>2. np[q] \in Slot \ {s} /\ np[q] # NoSlot
    BY <1>1, <1>4, <2>1 DEF Shape
  <2>3. /\ state[q] \in {"RUNNABLE", "RUNNING"} /\ state[np[q]] = "EMBRYO"
        /\ kstack[np[q]] <=> pc[q] # "fork_kalloc"
        /\ parent[np[q]] = IF pc[q] = "fork_run" THEN q ELSE NoSlot
        /\ \A r \in Slot : np[r] = np[q] => r = q
    BY <2>2 DEF Forks
  <2>4. \A r \in Slot : np'[r] = np[q] => r = q
    BY <1>1, <1>2, <2>2, <2>3
  <2> QED BY <2>1, <2>2, <2>3, <2>4
<1>5. ASSUME NEW q \in Slot, state'[q] = "EMBRYO"
      PROVE  \E r \in Slot : np'[r] = q
  <2>1. q # s /\ state[q] = "EMBRYO"
    BY <1>5
  <2>2. PICK r \in Slot : np[r] = q
    BY <2>1 DEF Forks
  <2> QED BY <1>1, <1>2, <2>1, <2>2
<1> QED BY <1>3, <1>4, <1>5 DEF Forks

-----------------------------------------------------------------------------
(* Every step preserves Inv. *)

\* userinit() establishes it.
LEMMA InitInv == Init => Inv
<1> SUFFICES ASSUME Init PROVE Inv
  OBVIOUS
<1>1. initproc \in Slot /\ NPROC \in Nat /\ MaxPid \in Nat /\ MaxPid >= 1
  BY ProcConstants DEF Slot, initproc
<1>2. state \in [Slot -> States] /\ pid \in [Slot -> 0..MaxPid] /\ kstack \in [Slot -> BOOLEAN]
  BY <1>1 DEF Init, States
<1>3. /\ parent \in [Slot -> Slot \cup {NoSlot}] /\ killed \in [Slot -> BOOLEAN]
      /\ pc \in [Slot -> Places] /\ np \in [Slot -> Slot \cup {NoSlot}]
      /\ cur \in [CPU -> Slot \cup {NoSlot}] /\ lock \in CPU \cup {NoCPU}
      /\ panicked \in BOOLEAN
  BY Zenon DEF Init, Places
<1>4. nextpid \in 1..(MaxPid + 1) /\ idx \in [CPU -> 1..(NPROC + 1)]
  BY <1>1 DEF Init
<1>5. hits \in [Slot -> {<<>>} \cup (KillPids \X BOOLEAN)]
  BY DEF Init
<1>6. TypeOK
  BY <1>2, <1>3, <1>4, <1>5 DEF TypeOK, States, Places
<1>7. OnOneCpu /\ Forks
  BY DEF Init, OnOneCpu, Forks, NoSlot
<1>8. ParentIsAlive
  BY <1>1 DEF Init, ParentIsAlive, Alive, NoSlot, Slot
<1>9. KstackBalance /\ KilledByPid /\ WaitMissesNoZombie
  BY Zenon DEF Init, KstackBalance, KilledByPid, WaitMissesNoZombie, Alive
<1> QED BY <1>6, <1>7, <1>8, <1>9 DEF Inv, TableInv

\* Steps that leave the table alone and move at most one process, from one place outside
\* fork() to another
LEMMA QuietInv ==
  ASSUME Inv,
         \/ pc' = pc
         \/ \E p \in Slot, x \in Places \ Forking :
              pc[p] \notin Forking /\ pc' = [pc EXCEPT ![p] = x],
         idx' \in [CPU -> 1..(NPROC + 1)], lock' \in CPU \cup {NoCPU}, panicked' \in BOOLEAN,
         UNCHANGED <<tableVars, np, nextpid, cur, hits>>
  PROVE  Inv'
<1> USE DEF Inv, TableInv
<1>0. Shape
  BY ShapeIs
<1>1. /\ pc' \in [Slot -> Places]
      /\ \A q \in Slot : pc'[q] \in Forking <=> pc[q] \in Forking
      /\ \A q \in Slot : pc[q] \in Forking => pc'[q] = pc[q]
  <2>1. pc \in [Slot -> Places]
    BY DEF TypeOK, Places
  <2>2. CASE pc' = pc
    BY <2>1, <2>2
  <2>3. ASSUME NEW p \in Slot, NEW x \in Places \ Forking,
               pc[p] \notin Forking, pc' = [pc EXCEPT ![p] = x]
        PROVE  /\ pc' \in [Slot -> Places]
               /\ \A q \in Slot : pc'[q] \in Forking <=> pc[q] \in Forking
               /\ \A q \in Slot : pc[q] \in Forking => pc'[q] = pc[q]
    BY <2>1, <2>3
  <2> QED BY <2>2, <2>3
<1>2. TypeOK'
  BY <1>1 DEF TypeOK, tableVars, Places
<1>3. OnOneCpu' /\ KstackBalance' /\ KilledByPid'
  <2>1. OnOneCpu' /\ KstackBalance'
    BY DEF OnOneCpu, KstackBalance, tableVars
  <2>2. KilledByPid'
    BY MarksKept DEF tableVars
  <2> QED BY <2>1, <2>2
<1>4. Forks'
  <2>1. NoSlot \notin Slot
    BY ProcConstants DEF Slot, NoSlot
  <2>2. state' = state /\ kstack' = kstack /\ parent' = parent /\ np' = np
    BY DEF tableVars
  <2> QED BY <1>0, <1>1, <2>1, <2>2, ForksKept
<1>5. ParentIsAlive' /\ WaitMissesNoZombie'
  BY DEF ParentIsAlive, WaitMissesNoZombie, Children, Zombies, tableVars
<1> QED BY <1>2, <1>3, <1>4, <1>5

\* scheduler() marks a process RUNNING that is on no CPU.
LEMMA SchedSwitchInv ==
  ASSUME Inv, NEW c \in CPU, sched_switch(c)
  PROVE  Inv'
<1> USE DEF Inv, TableInv
<1>0. Shape
  BY ShapeIs
<1>1. PICK p \in Slot :
        /\ state[p] = "RUNNABLE" /\ cur[c] = NoSlot
        /\ cur' = [cur EXCEPT ![c] = p]
        /\ idx' = [idx EXCEPT ![c] = p + 1]
        /\ state' = [state EXCEPT ![p] = "RUNNING"]
  <2>1. Ahead(c) \subseteq Slot /\ Ahead(c) # {}
    BY DEF sched_switch, Ahead
  <2>2. First(Ahead(c)) \in Ahead(c)
    BY <2>1, FirstIs
  <2> QED BY <2>1, <2>2, Zenon DEF sched_switch, Ahead
<1>2. UNCHANGED <<pid, parent, killed, kstack, pc, np, nextpid, lock, hits, panicked>>
  BY DEF sched_switch
<1>3. p \in Nat /\ p + 1 \in 1..(NPROC + 1) /\ p # NoSlot /\ NoSlot \notin Slot
  BY ProcConstants DEF Slot, NoSlot
<1>4. TypeOK'
  BY <1>1, <1>2, <1>3 DEF TypeOK
<1>5. OnOneCpu'
  BY <1>1, <1>2, <1>3, <1>0 DEF Shape, OnOneCpu
<1>6. Forks'
  <2>1. \A q \in Slot : /\ state'[q] = "EMBRYO" <=> state[q] = "EMBRYO"
                        /\ pc[q] \in Forking /\ state[q] \in {"RUNNABLE", "RUNNING"}
                             => state'[q] \in {"RUNNABLE", "RUNNING"}
    BY <1>0, <1>1, <1>3 DEF Shape, Forking
  <2>2. \A q \in Slot : /\ pc'[q] \in Forking <=> pc[q] \in Forking
                        /\ pc[q] \in Forking => pc'[q] = pc[q]
    BY <1>0, <1>1, <1>2 DEF Shape, Forking
  <2> QED BY <1>0, <1>1, <1>2, <1>3, <2>1, <2>2, ForksKept
<1>7. ParentIsAlive'
  BY <1>1, <1>2, <1>3, <1>0 DEF Shape, ParentIsAlive, Alive
<1>8. KstackBalance' /\ KilledByPid'
  <2>1. KstackBalance'
    BY <1>1, <1>2, <1>3, <1>0 DEF Shape, KstackBalance, Alive
  <2>2. \A q \in Slot : state[q] # "UNUSED" => state'[q] # "UNUSED"
    BY <1>1 DEF TypeOK
  <2> QED BY <1>1, <1>2, <2>1, <2>2, MarksKept
<1>9. WaitMissesNoZombie'
  BY <1>1, <1>2, <1>3, <1>0 DEF Shape, WaitMissesNoZombie, Children, Zombies
<1> QED BY <1>4, <1>5, <1>6, <1>7, <1>8, <1>9

\* A process that gives up the CPU by itself leaves no CPU with it.
LEMMA YieldInv ==
  ASSUME Inv, NEW c \in CPU, NEW p \in Slot, yield(c, p)
  PROVE  Inv'
<1> USE DEF Inv, TableInv
<1>0. Shape
  BY ShapeIs
<1>1. /\ cur[c] = p
      /\ state' = [state EXCEPT ![p] = "RUNNABLE"]
      /\ cur' = [cur EXCEPT ![c] = NoSlot] /\ lock' = c
      /\ UNCHANGED <<pid, parent, killed, kstack, pc, np, nextpid, idx, hits, panicked>>
  BY DEF yield, sched, Runs
<1>2. p # NoSlot /\ NoSlot \notin Slot
  BY ProcConstants DEF Slot, NoSlot
<1>3. state[p] = "RUNNING"
  BY <1>1, <1>2 DEF OnOneCpu
<1>4. TypeOK'
  BY <1>1 DEF TypeOK
<1>5. OnOneCpu'
  BY <1>1, <1>2, <1>3, <1>0 DEF Shape, OnOneCpu
<1>6. Forks'
  <2>1. \A q \in Slot : /\ state'[q] = "EMBRYO" <=> state[q] = "EMBRYO"
                        /\ pc[q] \in Forking /\ state[q] \in {"RUNNABLE", "RUNNING"}
                             => state'[q] \in {"RUNNABLE", "RUNNING"}
    BY <1>0, <1>1, <1>3 DEF Shape, Forking
  <2>2. \A q \in Slot : /\ pc'[q] \in Forking <=> pc[q] \in Forking
                        /\ pc[q] \in Forking => pc'[q] = pc[q]
    BY <1>0, <1>1, <1>2 DEF Shape, Forking
  <2> QED BY <1>0, <1>1, <1>2, <1>3, <2>1, <2>2, ForksKept
<1>7. ParentIsAlive'
  BY <1>1, <1>2, <1>3, <1>0 DEF Shape, ParentIsAlive, Alive
<1>8. KstackBalance' /\ KilledByPid'
  <2>1. KstackBalance'
    BY <1>1, <1>2, <1>3, <1>0 DEF Shape, KstackBalance, Alive
  <2>2. \A q \in Slot : state[q] # "UNUSED" => state'[q] # "UNUSED"
    BY <1>1 DEF TypeOK
  <2> QED BY <1>1, <1>2, <2>1, <2>2, MarksKept
<1>9. WaitMissesNoZombie'
  BY <1>1, <1>2, <1>3, <1>0 DEF Shape, WaitMissesNoZombie, Children, Zombies
<1> QED BY <1>4, <1>5, <1>6, <1>7, <1>8, <1>9

\* wait() sleeps only after it has seen that it has children and none of them is dead,
\* and only outside fork().
LEMMA WaitSleepInv ==
  ASSUME Inv, NEW c \in CPU, NEW p \in Slot, wait_sleep(c, p)
  PROVE  Inv'
<1> USE DEF Inv, TableInv
<1>0. Shape
  BY ShapeIs
<1>1. /\ cur[c] = p /\ pc[p] \in {"wait", "asleep"}
      /\ Zombies(p) = {} /\ Children(p) # {}
      /\ state' = [state EXCEPT ![p] = "SLEEPING"]
      /\ pc' = [pc EXCEPT ![p] = "asleep"]
      /\ cur' = [cur EXCEPT ![c] = NoSlot] /\ lock' = c
      /\ UNCHANGED <<pid, parent, killed, kstack, np, nextpid, idx, hits, panicked>>
  BY DEF wait_sleep, sched, InWait
<1>2. p # NoSlot /\ NoSlot \notin Slot
  BY ProcConstants DEF Slot, NoSlot
<1>3. state[p] = "RUNNING" /\ np[p] = NoSlot
  BY <1>1, <1>2 DEF OnOneCpu, Forks
<1>4. TypeOK'
  BY <1>1 DEF TypeOK
<1>5. OnOneCpu'
  BY <1>1, <1>2, <1>3, <1>0 DEF Shape, OnOneCpu
<1>6. Forks'
  <2>1. \A q \in Slot : /\ state'[q] = "EMBRYO" <=> state[q] = "EMBRYO"
                        /\ pc[q] \in Forking /\ state[q] \in {"RUNNABLE", "RUNNING"}
                             => state'[q] \in {"RUNNABLE", "RUNNING"}
    BY <1>0, <1>1, <1>3 DEF Shape, Forking
  <2>2. \A q \in Slot : /\ pc'[q] \in Forking <=> pc[q] \in Forking
                        /\ pc[q] \in Forking => pc'[q] = pc[q]
    BY <1>0, <1>1, <1>2 DEF Shape, Forking
  <2> QED BY <1>0, <1>1, <1>2, <1>3, <2>1, <2>2, ForksKept
<1>7. ParentIsAlive'
  BY <1>1, <1>2, <1>3, <1>0 DEF Shape, ParentIsAlive, Alive
<1>8. KstackBalance' /\ KilledByPid'
  <2>1. KstackBalance'
    BY <1>1, <1>2, <1>3, <1>0 DEF Shape, KstackBalance, Alive
  <2>2. \A q \in Slot : state[q] # "UNUSED" => state'[q] # "UNUSED"
    BY <1>1 DEF TypeOK
  <2> QED BY <1>1, <1>2, <2>1, <2>2, MarksKept
<1>9. WaitMissesNoZombie'
  BY <1>1, <1>2, <1>3, <1>0 DEF Shape, WaitMissesNoZombie, Children, Zombies
<1> QED BY <1>4, <1>5, <1>6, <1>7, <1>8, <1>9

\* allocproc() takes a slot that no other fork() has.
LEMMA AllocprocInv ==
  ASSUME Inv, NEW c \in CPU, NEW p \in Slot, allocproc(c, p)
  PROVE  Inv'
<1> USE DEF Inv, TableInv
<1>0. Shape
  BY ShapeIs
<1>1. PICK s \in Slot :
        /\ state[s] = "UNUSED"
        /\ state' = [state EXCEPT ![s] = "EMBRYO"]
        /\ pid' = [pid EXCEPT ![s] = nextpid]
        /\ np' = [np EXCEPT ![p] = s]
  <2>1. Unused \subseteq Slot /\ Unused # {}
    BY DEF allocproc, Unused
  <2>2. First(Unused) \in Unused
    BY <2>1, FirstIs
  <2> QED BY <2>1, <2>2, Zenon DEF allocproc, Unused
<1>2. /\ cur[c] = p /\ pc[p] = "user" /\ nextpid <= MaxPid
      /\ nextpid' = nextpid + 1
      /\ pc' = [pc EXCEPT ![p] = "fork_kalloc"]
      /\ UNCHANGED <<parent, killed, kstack, cur, idx, lock, hits, panicked>>
  BY DEF allocproc, Runs, cpuVars
<1>3. p # NoSlot /\ s # NoSlot /\ NoSlot \notin Slot /\ MaxPid \in Nat
  BY ProcConstants DEF Slot, NoSlot
<1>4. state[p] = "RUNNING" /\ np[p] = NoSlot /\ s # p /\ s # initproc
  BY <1>1, <1>2, <1>3 DEF OnOneCpu, Forks, ParentIsAlive, Alive
<1>5. TypeOK'
  <2>1. nextpid \in 0..MaxPid /\ nextpid' \in 1..(MaxPid + 1)
    BY <1>2, <1>3 DEF TypeOK
  <2> QED BY <1>1, <1>2, <2>1 DEF TypeOK
<1>6. OnOneCpu'
  BY <1>1, <1>2, <1>3, <1>0 DEF Shape, OnOneCpu
<1>7. Forks'
  <2>1. ~kstack[s] /\ parent[s] = NoSlot
    BY <1>1, <1>4 DEF KstackBalance, ParentIsAlive
  <2>2. \A q \in Slot : np[q] # s
    BY <1>1, <1>3 DEF Forks
  <2>3. ASSUME NEW q \in Slot
        PROVE  np'[q] # NoSlot <=> pc'[q] \in {"fork_kalloc", "fork_copy", "fork_run"}
    BY <1>1, <1>2, <1>3, <1>0 DEF Shape, Forks
  <2>4. ASSUME NEW q \in Slot, np'[q] # NoSlot
        PROVE  /\ state'[q] \in {"RUNNABLE", "RUNNING"} /\ state'[np'[q]] = "EMBRYO"
               /\ kstack'[np'[q]] <=> pc'[q] # "fork_kalloc"
               /\ parent'[np'[q]] = IF pc'[q] = "fork_run" THEN q ELSE NoSlot
               /\ \A r \in Slot : np'[r] = np'[q] => r = q
    <3>1. CASE q = p
      BY <1>1, <1>2, <1>3, <1>4, <2>1, <2>2, <3>1 DEF TypeOK
    <3>2. CASE q # p
      BY <1>1, <1>2, <1>3, <1>4, <2>2, <2>4, <3>2, <1>0 DEF Shape, Forks
    <3> QED BY <3>1, <3>2
  <2>5. ASSUME NEW q \in Slot, state'[q] = "EMBRYO"
        PROVE  \E r \in Slot : np'[r] = q
    <3>1. CASE q = s
      BY <1>1, <3>1 DEF TypeOK
    <3>2. CASE q # s
      <4>1. state[q] = "EMBRYO"
        BY <1>1, <2>5, <3>2 DEF TypeOK
      <4>2. PICK r \in Slot : np[r] = q
        BY <4>1 DEF Forks
      <4> QED BY <1>1, <1>3, <1>4, <4>2 DEF TypeOK
    <3> QED BY <3>1, <3>2
  <2> QED BY <2>3, <2>4, <2>5 DEF Forks
<1>8. ParentIsAlive'
  BY <1>1, <1>2, <1>3, <1>4, <1>0 DEF Shape, ParentIsAlive, Alive
<1>9. KstackBalance' /\ KilledByPid'
  <2>1. KstackBalance'
    BY <1>1, <1>2, <1>3, <1>4, <1>0 DEF Shape, KstackBalance, Alive
  <2>2. SUFFICES ASSUME NEW q \in Slot, killed[q]
                 PROVE  /\ hits[q] # <<>>
                        /\ hits[q][2] \/ (state'[q] # "UNUSED" /\ hits[q][1] = pid'[q])
    BY <1>2, <2>1 DEF KilledByPid
  <2>3. hits[q] # <<>> /\ (hits[q][2] \/ (state[q] # "UNUSED" /\ hits[q][1] = pid[q]))
    BY <2>2, Zenon DEF KilledByPid
  <2>4. state[q] # "UNUSED" => state'[q] # "UNUSED" /\ pid'[q] = pid[q]
    BY <1>1 DEF TypeOK
  <2> QED BY <2>3, <2>4, Zenon
<1>10. WaitMissesNoZombie'
  BY <1>1, <1>2, <1>3, <1>4, <1>0 DEF Shape, WaitMissesNoZombie, Children, Zombies
<1> QED BY <1>5, <1>6, <1>7, <1>8, <1>9, <1>10

\* The child that a process inside fork() is making
LEMMA ChildOf ==
  ASSUME TableInv, NEW c \in CPU, NEW p \in Slot, cur[c] = p, pc[p] \in Forking
  PROVE  Making(p, np[p])
<1> USE DEF TableInv
<1>1. NoSlot \notin Slot /\ p # NoSlot
  BY ProcConstants DEF Slot, NoSlot
<1>2. np[p] # NoSlot /\ np[p] \in Slot
  BY <1>1 DEF Forks, Forking, TypeOK
<1>3. /\ state[np[p]] = "EMBRYO" /\ \A q \in Slot : np[q] = np[p] => q = p
      /\ kstack[np[p]] <=> pc[p] # "fork_kalloc"
      /\ parent[np[p]] = IF pc[p] = "fork_run" THEN p ELSE NoSlot
  BY <1>2 DEF Forks
<1>4. state[p] = "RUNNING" /\ np[p] # initproc
  BY <1>1, <1>3 DEF OnOneCpu, ParentIsAlive, Alive
<1>5. np[np[p]] = NoSlot /\ pc[np[p]] \notin Forking
  BY <1>2, <1>3 DEF Forks, Forking
<1> QED BY <1>1, <1>2, <1>3, <1>4, <1>5 DEF Making

\* fork() that runs out of memory gives the slot back without a stack and to no parent.
LEMMA ForkFailsInv ==
  ASSUME Inv, NEW c \in CPU, NEW p \in Slot, cur[c] = p,
         pc[p] \in {"fork_kalloc", "fork_copy"},
         kstack' = [kstack EXCEPT ![np[p]] = FALSE],
         state' = [state EXCEPT ![np[p]] = "UNUSED"],
         np' = [np EXCEPT ![p] = NoSlot],
         hits' = [hits EXCEPT ![np[p]] = unborn(@)],
         fork_fails(p),
         UNCHANGED <<parent, pid, killed, nextpid, cpuVars, panicked>>
  PROVE  Inv'
<1> USE DEF Inv, TableInv
<1>0. Shape
  BY ShapeIs
<1> DEFINE s == np[p]
<1>1. /\ s \in Slot /\ NoSlot \notin Slot /\ state[s] = "EMBRYO"
      /\ state[p] = "RUNNING" /\ s # p /\ s # initproc
      /\ np[s] = NoSlot /\ pc[s] \notin Forking
      /\ \A q \in Slot : np[q] = s => q = p
      /\ parent[s] = NoSlot
  <2>1. Making(p, np[p])
    BY ChildOf DEF Forking
  <2> QED BY <2>1 DEF Making
<1>2. /\ state' = [state EXCEPT ![s] = "UNUSED"] /\ kstack' = [kstack EXCEPT ![s] = FALSE]
      /\ np' = [np EXCEPT ![p] = NoSlot] /\ hits' = [hits EXCEPT ![s] = unborn(hits[s])]
      /\ UNCHANGED <<parent, pid, killed, nextpid, cur, idx, lock, panicked>>
  BY DEF cpuVars
<1>3. PICK x \in {"exit", "user"} : pc' = [pc EXCEPT ![p] = x]
  BY Zenon DEF fork_fails
<1> HIDE DEF s
<1>4. unborn(hits[s]) \in {<<>>} \cup (KillPids \X BOOLEAN)
  BY <1>1, Zenon DEF TypeOK, unborn
<1>5. TypeOK'
  BY <1>1, <1>2, <1>3, <1>4 DEF TypeOK
<1>6. OnOneCpu'
  BY <1>1, <1>2, <1>0 DEF Shape, OnOneCpu
<1>7. Forks'
  <2>1. Making(p, s)
    BY ChildOf DEF Forking, s
  <2>2. x \in Places \ Forking
    BY DEF Places, Forking
  <2>3. /\ state'[s] # "EMBRYO"
        /\ \A q \in Slot \ {s} : /\ state'[q] = state[q] /\ kstack'[q] = kstack[q]
                                 /\ parent'[q] = parent[q]
    BY <1>0, <1>1, <1>2, Zenon DEF Shape
  <2> QED BY <1>0, <1>1, <1>2, <1>3, <2>1, <2>2, <2>3, ForkEnds, Zenon
<1>8. ParentIsAlive'
  BY <1>1, <1>2, <1>0 DEF Shape, ParentIsAlive, Alive
<1>9. KstackBalance'
  BY <1>1, <1>2, <1>0 DEF Shape, KstackBalance, Alive
<1>10. KilledByPid'
  <2>1. SUFFICES ASSUME NEW q \in Slot, killed'[q]
                 PROVE  /\ hits'[q] # <<>>
                        /\ hits'[q][2] \/ (state'[q] # "UNUSED" /\ hits'[q][1] = pid'[q])
    BY DEF KilledByPid
  <2>2. CASE q = s
    <3>1. hits[s] # <<>>
      BY <1>2, <2>1, <2>2 DEF KilledByPid
    <3> DEFINE mark == TRUE
    <3>2. hits'[s] = <<hits[s][1], mark>>
      <4>1. hits'[s] = unborn(hits[s])
        BY <1>1, <1>2 DEF TypeOK
      <4> QED BY <3>1, <4>1, Zenon DEF unborn
    <3>3. mark
      OBVIOUS
    <3> HIDE DEF mark
    <3>4. hits'[q] # <<>> /\ hits'[q][2] = mark
      BY <2>2, <3>2
    <3> QED BY <3>3, <3>4, Zenon
  <2>3. CASE q # s
    <3>1. /\ killed[q] /\ hits'[q] = hits[q] /\ state'[q] = state[q] /\ pid'[q] = pid[q]
      BY <1>1, <1>2, <2>1, <2>3 DEF TypeOK
    <3>2. hits[q] # <<>> /\ (hits[q][2] \/ (state[q] # "UNUSED" /\ hits[q][1] = pid[q]))
      BY <3>1, Zenon DEF KilledByPid
    <3> QED BY <3>1, <3>2, Zenon
  <2> QED BY <2>2, <2>3
<1>11. WaitMissesNoZombie'
  BY <1>1, <1>2, <1>0 DEF Shape, WaitMissesNoZombie, Children, Zombies
<1> QED BY <1>5, <1>6, <1>7, <1>8, <1>9, <1>10, <1>11

\* allocproc() with a stack
LEMMA ForkKallocInv ==
  ASSUME Inv, NEW c \in CPU, NEW p \in Slot, fork_kalloc(c, p)
  PROVE  Inv'
<1> USE DEF Inv, TableInv
<1>0. Shape
  BY ShapeIs
<1>1. cur[c] = p /\ pc[p] = "fork_kalloc"
  BY DEF fork_kalloc, Runs
<1> DEFINE s == np[p]
<1>2. /\ s \in Slot /\ NoSlot \notin Slot /\ state[s] = "EMBRYO"
      /\ state[p] = "RUNNING" /\ s # p /\ s # initproc
      /\ \A q \in Slot : np[q] = s => q = p
      /\ parent[s] = NoSlot /\ ~kstack[s]
  <2>1. Making(p, np[p])
    BY <1>1, ChildOf DEF Forking
  <2> QED BY <1>1, <2>1 DEF Making
<1>3. CASE UNCHANGED <<state, np, hits>>
  <2>1. /\ kstack' = [kstack EXCEPT ![s] = TRUE] /\ pc' = [pc EXCEPT ![p] = "fork_copy"]
        /\ UNCHANGED <<state, np, hits, parent, pid, killed, nextpid, cur, idx, lock, panicked>>
    <3>1. state'[np[p]] # "UNUSED"
      BY <1>2, <1>3
    <3> QED BY <1>2, <1>3, <3>1 DEF fork_kalloc, cpuVars, TypeOK
  <2> HIDE DEF s
  <2>2. TypeOK'
    BY <1>2, <2>1 DEF TypeOK
  <2>3. OnOneCpu' /\ ParentIsAlive' /\ KilledByPid' /\ WaitMissesNoZombie'
    <3>1. OnOneCpu'
      BY <2>1, Zenon DEF OnOneCpu
    <3>2. ParentIsAlive' /\ WaitMissesNoZombie'
      BY <2>1, Zenon DEF ParentIsAlive, WaitMissesNoZombie, Children, Zombies
    <3> QED BY <2>1, <3>1, <3>2, MarksKept
  <2>4. s = np[p]
    BY DEF s
  <2>5. Forks'
    BY <1>1, <1>2, <2>1, <2>4, <1>0 DEF Shape, Forks
  <2>6. KstackBalance'
    BY <1>2, <2>1, <1>0 DEF Shape, KstackBalance, Alive
  <2> QED BY <2>2, <2>3, <2>5, <2>6
<1>4. CASE ~UNCHANGED <<state, np, hits>>
  <2>1. kstack' = [kstack EXCEPT ![np[p]] = FALSE]
    <3>1. kstack' = kstack
      BY <1>4 DEF fork_kalloc
    <3> QED BY <1>2, <3>1 DEF TypeOK
  <2>2. /\ state' = [state EXCEPT ![np[p]] = "UNUSED"]
        /\ np' = [np EXCEPT ![p] = NoSlot]
        /\ hits' = [hits EXCEPT ![np[p]] = unborn(@)]
        /\ fork_fails(p)
        /\ UNCHANGED <<parent, pid, killed, nextpid, cpuVars, panicked>>
    BY <1>4 DEF fork_kalloc
  <2> QED BY <1>1, <2>1, <2>2, ForkFailsInv, Zenon
<1> QED BY <1>3, <1>4

\* The child gets its parent while it is still an EMBRYO.
LEMMA ForkCopyInv ==
  ASSUME Inv, NEW c \in CPU, NEW p \in Slot, fork_copy(c, p)
  PROVE  Inv'
<1> USE DEF Inv, TableInv
<1>0. Shape
  BY ShapeIs
<1>1. cur[c] = p /\ pc[p] = "fork_copy"
  BY DEF fork_copy, Runs
<1> DEFINE s == np[p]
<1>2. /\ s \in Slot /\ NoSlot \notin Slot /\ state[s] = "EMBRYO"
      /\ state[p] = "RUNNING" /\ s # p /\ s # initproc
      /\ np[s] = NoSlot /\ pc[s] \notin Forking
      /\ \A q \in Slot : np[q] = s => q = p
      /\ parent[s] = NoSlot /\ kstack[s]
  <2>1. Making(p, np[p])
    BY <1>1, ChildOf DEF Forking
  <2> QED BY <1>1, <2>1 DEF Making
<1>3. CASE UNCHANGED <<state, kstack, np, hits>>
  <2>1. /\ parent' = [parent EXCEPT ![s] = p]
        /\ pc' = [pc EXCEPT ![p] = "fork_run", ![s] = "user"]
        /\ UNCHANGED <<state, np, hits, kstack, pid, killed, nextpid, cur, idx, lock, panicked>>
    <3>1. state'[np[p]] # "UNUSED"
      BY <1>2, <1>3
    <3> QED BY <1>2, <1>3, <3>1 DEF fork_copy, cpuVars, TypeOK
  <2>2. s = np[p]
    OBVIOUS
  <2> HIDE DEF s
  <2>3. TypeOK'
    BY <1>2, <2>1, Zenon DEF TypeOK
  <2>4. OnOneCpu' /\ KstackBalance' /\ KilledByPid'
    <3>1. OnOneCpu' /\ KstackBalance'
      BY <2>1, Zenon DEF OnOneCpu, KstackBalance
    <3> QED BY <2>1, <3>1, MarksKept
  <2>5. Forks'
    BY <1>1, <1>2, <2>1, <2>2, <1>0 DEF Shape, Forks, Forking
  <2>6. ParentIsAlive'
    BY <1>2, <2>1, <1>0 DEF Shape, ParentIsAlive, Alive
  <2>7. WaitMissesNoZombie'
    BY <1>2, <2>1, <1>0 DEF Shape, WaitMissesNoZombie, Children, Zombies
  <2> QED BY <2>3, <2>4, <2>5, <2>6, <2>7
<1>4. CASE ~UNCHANGED <<state, kstack, np, hits>>
  <2>1. /\ kstack' = [kstack EXCEPT ![np[p]] = FALSE]
        /\ state' = [state EXCEPT ![np[p]] = "UNUSED"]
        /\ np' = [np EXCEPT ![p] = NoSlot]
        /\ hits' = [hits EXCEPT ![np[p]] = unborn(@)]
        /\ fork_fails(p)
        /\ UNCHANGED <<parent, pid, killed, nextpid, cpuVars, panicked>>
    BY <1>4 DEF fork_copy
  <2> QED BY <1>1, <2>1, ForkFailsInv, Zenon
<1> QED BY <1>3, <1>4

\* The child that becomes RUNNABLE has a stack and a parent that runs.
LEMMA ForkRunInv ==
  ASSUME Inv, NEW c \in CPU, NEW p \in Slot, fork_run(c, p)
  PROVE  Inv'
<1> USE DEF Inv, TableInv
<1>0. Shape
  BY ShapeIs
<1>1. cur[c] = p /\ pc[p] = "fork_run"
  BY DEF fork_run, Runs
<1> DEFINE s == np[p]
<1>2. /\ s \in Slot /\ NoSlot \notin Slot /\ state[s] = "EMBRYO"
      /\ state[p] = "RUNNING" /\ s # p /\ s # initproc /\ np[s] = NoSlot
      /\ \A q \in Slot : np[q] = s => q = p
      /\ parent[s] = p /\ kstack[s]
  <2>1. Making(p, np[p])
    BY <1>1, ChildOf DEF Forking
  <2> QED BY <1>1, <2>1 DEF Making
<1>3. /\ state' = [state EXCEPT ![s] = "RUNNABLE"] /\ np' = [np EXCEPT ![p] = NoSlot]
      /\ pc' = [pc EXCEPT ![p] = "user"]
      /\ UNCHANGED <<parent, hits, kstack, pid, killed, nextpid, cur, idx, lock, panicked>>
  BY DEF fork_run, cpuVars
<1> HIDE DEF s
<1>4. TypeOK'
  BY <1>2, <1>3 DEF TypeOK
<1>5. OnOneCpu'
  BY <1>2, <1>3, <1>0 DEF Shape, OnOneCpu
<1>6. Forks'
  <2>1. Making(p, s)
    BY <1>1, ChildOf DEF Forking, s
  <2>2. "user" \in Places \ Forking
    BY DEF Places, Forking
  <2>3. /\ state'[s] # "EMBRYO"
        /\ \A q \in Slot \ {s} : /\ state'[q] = state[q] /\ kstack'[q] = kstack[q]
                                 /\ parent'[q] = parent[q]
    BY <1>0, <1>2, <1>3 DEF Shape
  <2> QED BY <1>0, <1>2, <1>3, <2>1, <2>2, <2>3, ForkEnds, Zenon
<1>7. ParentIsAlive'
  BY <1>2, <1>3, <1>0 DEF Shape, ParentIsAlive, Alive
<1>8. KstackBalance' /\ KilledByPid'
  <2>1. KstackBalance'
    BY <1>2, <1>3, <1>0 DEF Shape, KstackBalance, Alive
  <2>2. \A q \in Slot : state[q] # "UNUSED" => state'[q] # "UNUSED"
    BY <1>3 DEF TypeOK
  <2> QED BY <1>3, <2>1, <2>2, MarksKept
<1>9. WaitMissesNoZombie'
  BY <1>2, <1>3, <1>0 DEF Shape, WaitMissesNoZombie, Children, Zombies
<1> QED BY <1>4, <1>5, <1>6, <1>7, <1>8, <1>9

\* exit() leaves no child behind, and wakes whoever now has a dead child.
LEMMA ExitInv ==
  ASSUME Inv, NEW c \in CPU, NEW p \in Slot, exit(c, p)
  PROVE  Inv'
<1> USE DEF Inv, TableInv
<1>0. Shape
  BY ShapeIs
<1> DEFINE woken == {parent[p]} \cup
                    (IF \E s \in Children(p) : state[s] = "ZOMBIE" THEN {initproc} ELSE {})
           awake == wakeup1(state, woken)
<1>1. /\ cur[c] = p /\ pc[p] = "exit" /\ p # initproc
      /\ state' = [awake EXCEPT ![p] = "ZOMBIE"]
      /\ parent' = [s \in Slot |-> IF s \in Children(p) THEN initproc ELSE parent[s]]
      /\ cur' = [cur EXCEPT ![c] = NoSlot] /\ lock' = c
      /\ UNCHANGED <<pid, killed, kstack, pc, np, nextpid, idx, hits, panicked>>
  BY DEF exit, sched, Runs
<1>2. initproc \in Slot /\ p # NoSlot /\ NoSlot \notin Slot /\ initproc # NoSlot
  BY ProcConstants DEF Slot, NoSlot, initproc
<1>3. state[p] = "RUNNING" /\ np[p] = NoSlot
  BY <1>1, <1>2 DEF OnOneCpu, Forks
<1>4. /\ awake \in [Slot -> States]
      /\ \A q \in Slot : awake[q] = IF q \in woken /\ state[q] = "SLEEPING"
                                    THEN "RUNNABLE" ELSE state[q]
  <2>1. state \in [Slot -> States]
    BY DEF TypeOK, States
  <2> HIDE DEF woken
  <2> QED BY <2>1, WakeupIs
<1>5. /\ parent[p] \in woken
      /\ \A s \in Slot : parent[s] = p /\ state[s] = "ZOMBIE" => initproc \in woken
  BY DEF Children
<1> HIDE DEF woken, awake
<1>6. /\ state' \in [Slot -> States] /\ state'[p] = "ZOMBIE"
      /\ \A q \in Slot \ {p} :
           state'[q] = IF q \in woken /\ state[q] = "SLEEPING" THEN "RUNNABLE" ELSE state[q]
  BY <1>1, <1>4 DEF States
<1>7. /\ parent' \in [Slot -> Slot \cup {NoSlot}]
      /\ \A q \in Slot : parent'[q] = IF parent[q] = p THEN initproc ELSE parent[q]
  BY <1>1, <1>2 DEF Children, TypeOK
<1>8. TypeOK'
  BY <1>1, <1>6, <1>7 DEF TypeOK, States
<1>9. \A q \in Slot \ {p} :
         /\ state'[q] = "RUNNING" <=> state[q] = "RUNNING"
         /\ state'[q] = "EMBRYO" <=> state[q] = "EMBRYO"
         /\ state[q] = "RUNNABLE" => state'[q] = "RUNNABLE"
  BY <1>6
<1>10. OnOneCpu'
  BY <1>1, <1>2, <1>3, <1>6, <1>9, <1>0 DEF Shape, OnOneCpu
<1>11. Forks'
  <2>1. ASSUME NEW q \in Slot, state[q] = "EMBRYO" PROVE parent'[q] = parent[q]
    <3>1. PICK r \in Slot : np[r] = q
      BY <2>1 DEF Forks
    <3>2. r # p /\ np[r] # NoSlot
      BY <1>2, <1>3, <3>1
    <3>3. parent[q] \in {r, NoSlot}
      BY <3>1, <3>2 DEF Forks
    <3> QED BY <1>2, <1>7, <3>2, <3>3
  <2>2. \A q \in Slot : state'[q] = "EMBRYO" <=> state[q] = "EMBRYO"
    BY <1>3, <1>6, <1>9
  <2>3. \A q \in Slot : pc[q] \in Forking /\ state[q] \in {"RUNNABLE", "RUNNING"}
                          => state'[q] \in {"RUNNABLE", "RUNNING"}
    BY <1>1, <1>9 DEF Forking
  <2>4. np' = np /\ pc' = pc /\ kstack' = kstack
    BY <1>1
  <2> QED BY <1>0, <1>2, <2>1, <2>2, <2>3, <2>4, ForksKept, Zenon
<1>12. ParentIsAlive'
  <2>1. \A q \in Slot \ {p} :
          /\ state'[q] \in Alive <=> state[q] \in Alive
          /\ state'[q] = "ZOMBIE" <=> state[q] = "ZOMBIE"
          /\ state'[q] = "UNUSED" <=> state[q] = "UNUSED"
    BY <1>6 DEF Alive
  <2>2. parent'[initproc] = NoSlot /\ state'[initproc] \in Alive
    BY <1>1, <1>2, <1>7, <2>1 DEF ParentIsAlive
  <2>3. ASSUME NEW q \in Slot \ {initproc}
        PROVE  parent'[q] # q /\ (state'[q] = "UNUSED" => parent'[q] = NoSlot)
    BY <1>2, <1>6, <1>7, <2>1 DEF ParentIsAlive
  <2>4. ASSUME NEW q \in Slot \ {initproc}, state'[q] \in Alive \cup {"ZOMBIE"}
        PROVE  parent'[q] # NoSlot /\ state'[parent'[q]] \in Alive
    <3>1. state[q] \in Alive \cup {"ZOMBIE"}
      BY <1>3, <2>1, <2>4 DEF Alive
    <3>2. parent[q] \in Slot /\ state[parent[q]] \in Alive
      BY <3>1 DEF ParentIsAlive, TypeOK
    <3>3. CASE parent[q] = p
      BY <1>2, <1>7, <2>2, <3>3
    <3>4. CASE parent[q] # p
      BY <1>2, <1>7, <2>1, <3>2, <3>4
    <3> QED BY <3>3, <3>4
  <2> QED BY <2>2, <2>3, <2>4 DEF ParentIsAlive
<1>13. KstackBalance' /\ KilledByPid'
  <2>1. \A q \in Slot : /\ state[q] # "UNUSED" => state'[q] # "UNUSED"
                        /\ state'[q] = "UNUSED" => state[q] = "UNUSED"
                        /\ state'[q] \in Alive \cup {"ZOMBIE"} => state[q] \in Alive \cup {"ZOMBIE"}
    BY <1>3, <1>6 DEF Alive
  <2>2. KstackBalance'
    BY <1>1, <2>1 DEF KstackBalance
  <2> QED BY <1>1, <2>1, <2>2, MarksKept
<1>14. WaitMissesNoZombie'
  <2>1. SUFFICES ASSUME NEW q \in Slot, state'[q] = "SLEEPING"
                 PROVE  /\ \E s \in Slot : parent'[s] = q
                        /\ \A s \in Slot : parent'[s] = q => state'[s] # "ZOMBIE"
    BY DEF WaitMissesNoZombie, Children, Zombies
  <2>2. q # p /\ state[q] = "SLEEPING" /\ q \notin woken
    BY <1>6, <2>1
  <2>3. /\ \E s \in Slot : parent[s] = q
        /\ \A s \in Slot : parent[s] = q => state[s] # "ZOMBIE"
    BY <2>2 DEF WaitMissesNoZombie, Children, Zombies
  <2>4. \E s \in Slot : parent'[s] = q
    BY <1>7, <2>2, <2>3
  <2>5. ASSUME NEW s \in Slot, parent'[s] = q PROVE state'[s] # "ZOMBIE"
    <3>1. s # p
      BY <1>5, <1>7, <2>2, <2>5 DEF ParentIsAlive
    <3>2. state[s] # "ZOMBIE"
      BY <1>5, <1>7, <2>2, <2>3, <2>5
    <3> QED BY <1>6, <3>1, <3>2
  <2> QED BY <2>4, <2>5
<1> QED BY <1>8, <1>10, <1>11, <1>12, <1>13, <1>14

\* wait() frees a slot that is nobody's parent.
LEMMA WaitReapInv ==
  ASSUME Inv, NEW c \in CPU, NEW p \in Slot, wait_reap(c, p)
  PROVE  Inv'
<1> USE DEF Inv, TableInv
<1>0. Shape
  BY ShapeIs
<1>1. PICK s \in Slot :
        /\ parent[s] = p /\ state[s] = "ZOMBIE"
        /\ kstack' = [kstack EXCEPT ![s] = FALSE]
        /\ state' = [state EXCEPT ![s] = "UNUSED"]
        /\ pid' = [pid EXCEPT ![s] = 0]
        /\ parent' = [parent EXCEPT ![s] = NoSlot]
        /\ killed' = [killed EXCEPT ![s] = FALSE]
        /\ hits' = [hits EXCEPT ![s] = <<>>]
  <2>1. Zombies(p) \subseteq Slot /\ Zombies(p) # {}
    BY DEF wait_reap, Zombies, Children
  <2>2. First(Zombies(p)) \in Zombies(p)
    BY <2>1, FirstIs
  <2> QED BY <2>1, <2>2, Zenon DEF wait_reap, Zombies, Children
<1>2. /\ cur[c] = p /\ pc[p] \in {"wait", "asleep"}
      /\ pc' = [pc EXCEPT ![p] = "user"] /\ lock' = NoCPU
      /\ UNCHANGED <<np, nextpid, cur, idx, panicked>>
  BY Zenon DEF wait_reap, InWait
<1>3. p # NoSlot /\ s # NoSlot /\ NoSlot \notin Slot /\ MaxPid \in Nat
  BY ProcConstants DEF Slot, NoSlot
<1>4. state[p] = "RUNNING" /\ np[p] = NoSlot /\ s # p /\ s # initproc
  <2>1. state[p] = "RUNNING"
    BY <1>2, <1>3 DEF OnOneCpu
  <2>2. np[p] = NoSlot
    BY <1>2 DEF Forks
  <2>3. s # initproc
    BY <1>1 DEF ParentIsAlive, Alive
  <2> QED BY <1>1, <2>1, <2>2, <2>3
<1>5. TypeOK'
  BY <1>1, <1>2, <1>3 DEF TypeOK
<1>6. OnOneCpu'
  BY <1>1, <1>2, <1>3, <1>4, <1>0 DEF Shape, OnOneCpu
<1>7. Forks'
  <2>1. \A q \in Slot \ {s} : /\ state'[q] = state[q] /\ kstack'[q] = kstack[q]
                               /\ parent'[q] = parent[q]
    BY <1>0, <1>1 DEF Shape
  <2>2. state'[s] = "UNUSED"
    BY <1>0, <1>1 DEF Shape
  <2>3. pc[s] \notin Forking
    BY <1>1 DEF Forks, Forking
  <2>4. \A q \in Slot : /\ pc'[q] \in Forking <=> pc[q] \in Forking
                        /\ pc[q] \in Forking => pc'[q] = pc[q]
    BY <1>0, <1>2 DEF Shape, Forking
  <2>5. \A q \in Slot : /\ state'[q] = "EMBRYO" <=> state[q] = "EMBRYO"
                        /\ state[q] = "EMBRYO" => kstack'[q] = kstack[q] /\ parent'[q] = parent[q]
    BY <1>1, <2>1, <2>2, Zenon
  <2>6. \A q \in Slot : pc[q] \in Forking /\ state[q] \in {"RUNNABLE", "RUNNING"}
                          => state'[q] \in {"RUNNABLE", "RUNNING"}
    BY <2>1, <2>3
  <2> QED BY <1>0, <1>2, <1>3, <2>4, <2>5, <2>6, ForksKept
<1>8. ParentIsAlive'
  BY <1>1, <1>2, <1>3, <1>4, <1>0 DEF Shape, ParentIsAlive, Alive
<1>9. KstackBalance'
  BY <1>1, <1>2, <1>4, <1>0 DEF Shape, KstackBalance, Alive
<1>10. KilledByPid'
  <2>1. SUFFICES ASSUME NEW q \in Slot, killed'[q]
                 PROVE  /\ hits'[q] # <<>>
                        /\ hits'[q][2] \/ (state'[q] # "UNUSED" /\ hits'[q][1] = pid'[q])
    BY Zenon DEF KilledByPid
  <2>2. q # s /\ killed[q]
    BY <1>1, <2>1 DEF TypeOK
  <2>3. hits'[q] = hits[q] /\ state'[q] = state[q] /\ pid'[q] = pid[q]
    BY <1>1, <2>2 DEF TypeOK
  <2>4. hits[q] # <<>> /\ (hits[q][2] \/ (state[q] # "UNUSED" /\ hits[q][1] = pid[q]))
    BY <2>2, Zenon DEF KilledByPid
  <2> QED BY <2>3, <2>4, Zenon
<1>11. WaitMissesNoZombie'
  BY <1>1, <1>2, <1>3, <1>4, <1>0 DEF Shape, WaitMissesNoZombie, Children, Zombies
<1> QED BY <1>5, <1>6, <1>7, <1>8, <1>9, <1>10, <1>11

\* kill() wakes what it marks.
LEMMA KillInv ==
  ASSUME Inv, NEW c \in CPU, NEW p \in Slot, NEW k \in KillPids, kill(c, p, k)
  PROVE  Inv'
<1> USE DEF Inv, TableInv
<1>0. Shape
  BY ShapeIs
<1> DEFINE hit == {s \in Slot : pid[s] = k}
<1>1. UNCHANGED <<pid, parent, kstack, pc, np, nextpid, cur, idx, lock, panicked>>
  BY Zenon DEF kill, cpuVars
<1>2. CASE hit = {}
  <2>1. UNCHANGED <<killed, state, hits>>
    BY <1>2 DEF kill
  <2>2. lock \in CPU \cup {NoCPU} /\ idx \in [CPU -> 1..(NPROC + 1)] /\ panicked \in BOOLEAN
    BY DEF TypeOK
  <2> QED BY <1>1, <2>1, <2>2, QuietInv DEF tableVars
<1>3. CASE hit # {}
  <2> DEFINE h == First(hit)
             mark == (state[h] = "UNUSED")
  <2>1. h \in Slot /\ pid[h] = k
    <3>1. First(hit) \in hit
      BY <1>3, FirstIs
    <3> QED BY <3>1
  <2>2. /\ killed' = [killed EXCEPT ![h] = TRUE]
        /\ hits' = [hits EXCEPT ![h] = <<k, mark>>]
        /\ state' = wakeup1(state, {h})
    BY <1>3 DEF kill
  <2>3. mark \in BOOLEAN /\ (state[h] = "UNUSED" => mark)
    OBVIOUS
  <2> HIDE DEF h, mark, hit
  <2>4. /\ state' \in [Slot -> States]
        /\ \A q \in Slot : state'[q] = IF q = h /\ state[q] = "SLEEPING"
                                       THEN "RUNNABLE" ELSE state[q]
    <3>1. state \in [Slot -> States]
      BY DEF TypeOK, States
    <3>2. /\ wakeup1(state, {h}) \in [Slot -> States]
          /\ \A q \in Slot : wakeup1(state, {h})[q] =
                IF q \in {h} /\ state[q] = "SLEEPING" THEN "RUNNABLE" ELSE state[q]
      BY <3>1, WakeupIs
    <3> QED BY <2>2, <3>2
  <2>5. \A q \in Slot :
           /\ \A x \in {"RUNNING", "EMBRYO", "UNUSED", "ZOMBIE"} : state'[q] = x <=> state[q] = x
           /\ state[q] = "RUNNABLE" => state'[q] = "RUNNABLE"
           /\ state'[q] = "SLEEPING" => state[q] = "SLEEPING"
           /\ state'[q] \in Alive <=> state[q] \in Alive
    BY <2>4 DEF Alive
  <2>6. TypeOK'
    <3>1. <<k, mark>> \in KillPids \X BOOLEAN
      BY <2>3
    <3> QED BY <1>1, <2>1, <2>2, <2>4, <3>1, Zenon DEF TypeOK, States
  <2>7. OnOneCpu' /\ ParentIsAlive'
    <3>1. initproc \in Slot
      BY ProcConstants DEF Slot, initproc
    <3>2. OnOneCpu'
      BY <1>1, <2>5, <1>0 DEF Shape, OnOneCpu
    <3>3. ParentIsAlive'
      BY <1>1, <2>5, <3>1, <1>0 DEF Shape, ParentIsAlive
    <3> QED BY <3>2, <3>3
  <2>8. Forks'
    <3>1. NoSlot \notin Slot
      BY ProcConstants DEF Slot, NoSlot
    <3>2. \A q \in Slot : /\ state'[q] = "EMBRYO" <=> state[q] = "EMBRYO"
                          /\ state[q] \in {"RUNNABLE", "RUNNING"}
                               => state'[q] \in {"RUNNABLE", "RUNNING"}
      BY <2>5
    <3>3. np' = np /\ pc' = pc /\ kstack' = kstack /\ parent' = parent
      BY <1>1
    <3> QED BY <1>0, <3>1, <3>2, <3>3, ForksKept
  <2>9. KstackBalance' /\ WaitMissesNoZombie'
    <3>1. \A q \in Slot : /\ state'[q] \in Alive \cup {"ZOMBIE"}
                               => state[q] \in Alive \cup {"ZOMBIE"}
                          /\ state'[q] = "UNUSED" => state[q] = "UNUSED"
                          /\ state'[q] = "ZOMBIE" => state[q] = "ZOMBIE"
                          /\ state'[q] = "SLEEPING" => state[q] = "SLEEPING"
      BY <2>5
    <3>2. KstackBalance'
      BY <1>1, <3>1 DEF KstackBalance
    <3>3. WaitMissesNoZombie'
      BY <1>1, <3>1 DEF WaitMissesNoZombie, Children, Zombies
    <3> QED BY <3>2, <3>3
  <2>10. KilledByPid'
    <3>1. SUFFICES ASSUME NEW q \in Slot, killed'[q]
                   PROVE  /\ hits'[q] # <<>>
                          /\ hits'[q][2] \/ (state'[q] # "UNUSED" /\ hits'[q][1] = pid'[q])
      BY DEF KilledByPid
    <3>2. CASE q = h
      <4>1. hits'[q] # <<>> /\ hits'[q][1] = k /\ hits'[q][2] = mark
        BY <2>1, <2>2, <3>2 DEF TypeOK
      <4>2. state[q] # "UNUSED" => state'[q] # "UNUSED" /\ k = pid'[q]
        BY <1>1, <2>1, <2>4, <3>2
      <4> QED BY <2>3, <3>2, <4>1, <4>2, Zenon
    <3>3. CASE q # h
      <4>1. killed[q] /\ hits'[q] = hits[q] /\ state'[q] = state[q] /\ pid'[q] = pid[q]
        BY <1>1, <2>1, <2>2, <2>4, <3>1, <3>3, Zenon DEF TypeOK
      <4>2. hits[q] # <<>> /\ (hits[q][2] \/ (state[q] # "UNUSED" /\ hits[q][1] = pid[q]))
        BY <4>1, Zenon DEF KilledByPid
      <4> QED BY <4>1, <4>2, Zenon
    <3> QED BY <3>2, <3>3
  <2> QED BY <2>6, <2>7, <2>8, <2>9, <2>10
<1> QED BY <1>2, <1>3

-----------------------------------------------------------------------------
(* The theorems. *)

\* Inv is inductive.
LEMMA NextInv == Inv /\ [Next]_vars => Inv'
<1> SUFFICES ASSUME Inv, [Next]_vars PROVE Inv'
  OBVIOUS
<1>1. /\ lock \in CPU \cup {NoCPU} /\ idx \in [CPU -> 1..(NPROC + 1)] /\ panicked \in BOOLEAN
      /\ 1 \in 1..(NPROC + 1)
  BY ProcConstants DEF Inv, TableInv, TypeOK
<1>2. CASE UNCHANGED vars
  <2>1. UNCHANGED <<tableVars, pc, np, nextpid, cur, idx, lock, hits, panicked>>
    BY <1>2 DEF vars, cpuVars
  <2> QED BY <1>1, <2>1, QuietInv
<1>3. ASSUME NEW c \in CPU, sched_acquire(c) \/ sched_release(c) \/ resume(c)
      PROVE  Inv'
  <2>1. /\ pc' = pc /\ lock' \in CPU \cup {NoCPU} /\ idx' \in [CPU -> 1..(NPROC + 1)]
        /\ panicked' \in BOOLEAN /\ UNCHANGED <<tableVars, np, nextpid, cur, hits>>
    BY <1>1, <1>3 DEF sched_acquire, sched_release, resume
  <2> QED BY <2>1, QuietInv
<1>4. ASSUME NEW c \in CPU, NEW p \in Slot,
             \/ fork_full(c, p) \/ exit_start(c, p) \/ exit_init(c, p)
             \/ wait_call(c, p) \/ wait_fails(c, p)
      PROVE  Inv'
  <2>1. pc[p] \notin Forking /\ \E x \in Places \ Forking : pc' = [pc EXCEPT ![p] = x]
    <3>1. {"user", "exit", "wait", "asleep"} \subseteq Places \ Forking
      BY DEF Places, Forking
    <3>2. pc \in [Slot -> Places]
      BY DEF Inv, TableInv, TypeOK, Places
    <3>3. CASE exit_init(c, p)
      <4>1. pc[p] = "exit" /\ pc' = [pc EXCEPT ![p] = "exit"]
        BY <3>2, <3>3 DEF exit_init
      <4> QED BY <3>1, <4>1, Zenon
    <3>4. CASE fork_full(c, p)
      BY <3>1, <3>4, Zenon DEF fork_full, fork_fails
    <3>5. CASE exit_start(c, p) \/ wait_call(c, p)
      BY <3>1, <3>5 DEF exit_start, wait_call
    <3>6. CASE wait_fails(c, p)
      BY <3>1, <3>6, Zenon DEF wait_fails, InWait
    <3> QED BY <1>4, <3>3, <3>4, <3>5, <3>6
  <2>2. /\ lock' \in CPU \cup {NoCPU} /\ idx' = idx /\ panicked' \in BOOLEAN
        /\ UNCHANGED <<tableVars, np, nextpid, cur, hits>>
    BY <1>1, <1>4, Zenon DEF fork_full, exit_start, exit_init, wait_call, wait_fails, cpuVars
  <2> QED BY <1>1, <2>1, <2>2, QuietInv, Zenon
<1>5. CASE Next
  <2>1. PICK c \in CPU :
          \/ sched_acquire(c) \/ sched_switch(c) \/ sched_release(c) \/ resume(c)
          \/ \E p \in Slot :
               \/ yield(c, p) \/ fork_step(c, p) \/ exit_start(c, p) \/ exit_step(c, p)
               \/ wait_call(c, p) \/ wait_step(c, p)
               \/ \E k \in KillPids : kill(c, p, k)
    BY <1>5 DEF Next
  <2>2. CASE sched_acquire(c) \/ sched_switch(c) \/ sched_release(c) \/ resume(c)
    BY <1>3, <2>2, SchedSwitchInv
  <2>3. ASSUME NEW p \in Slot, fork_step(c, p) PROVE Inv'
    BY <1>4, <2>3, AllocprocInv, ForkKallocInv, ForkCopyInv, ForkRunInv DEF fork_step
  <2>4. ASSUME NEW p \in Slot, exit_start(c, p) \/ exit_step(c, p) PROVE Inv'
    BY <1>4, <2>4, ExitInv DEF exit_step
  <2>5. ASSUME NEW p \in Slot, wait_call(c, p) \/ wait_step(c, p) PROVE Inv'
    BY <1>4, <2>5, WaitReapInv, WaitSleepInv DEF wait_step
  <2>6. ASSUME NEW p \in Slot, yield(c, p) \/ \E k \in KillPids : kill(c, p, k) PROVE Inv'
    BY <2>6, YieldInv, KillInv
  <2> QED BY <2>1, <2>2, <2>3, <2>4, <2>5, <2>6
<1> QED BY <1>2, <1>5

\* The process table is sound in every reachable state, whatever the number of slots and
\* processors: no process is on two CPUs, a child under construction belongs to one fork(),
\* every process that fork() has released has a living parent, kernel stacks are neither
\* leaked nor missing, and kill() marks only the process whose pid it was given (or a slot
\* that no process has).
THEOREM TableInvTheorem == Spec => []TableInv
<1>1. Inv => TableInv
  BY DEF Inv
<1> QED BY InitInv, NextInv, <1>1, PTL DEF Spec

\* No process sleeps in wait() while it has a dead child, or has none: exit() wakes the
\* parent, and init when it inherits a zombie, and wait() cannot miss it.
THEOREM WaitTheorem == Spec => []WaitMissesNoZombie
<1>1. Inv => WaitMissesNoZombie
  BY DEF Inv
<1> QED BY InitInv, NextInv, <1>1, PTL DEF Spec
=============================================================================
