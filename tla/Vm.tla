--------------------------------- MODULE Vm ---------------------------------
(***************************************************************************)
(* Physical pages and address spaces: the free list of kalloc.c, the page  *)
(* tables of vm.c, and the calls that build, grow, copy and free them:     *)
(* fork, exec, sbrk and wait.                                              *)
(*                                                                         *)
(* An address space is private to its process, so processes meet only on   *)
(* the free list: a step takes the pages of one turn of a loop, and all    *)
(* that a call frees at once goes back in one step.  Sizes are in units of *)
(* which PGSIZE make a page; a page table maps NPTENTRIES pages, and the   *)
(* kernel's part of an address space takes NKPT page tables.               *)
(***************************************************************************)
EXTENDS Integers, Sequences, FiniteSets, SequencesExt

CONSTANTS NPROC, NPAGES,
          PGSIZE, NPTENTRIES, KERNBASE, NKPT,
          Images,    \* sizes of the programs that exec() loads
          Deltas,    \* by how much sbrk() grows or shrinks
          MaxCalls   \* bound: system calls in a behaviour

ASSUME VmConstants ==
  /\ {NPROC, NPAGES, PGSIZE, NPTENTRIES, NKPT, MaxCalls} \subseteq Nat \ {0}
  /\ KERNBASE \in Nat /\ KERNBASE % (PGSIZE * NPTENTRIES) = 0
  /\ Images \subseteq 1..KERNBASE /\ Deltas \subseteq Nat \ {0}
  /\ NPAGES >= NKPT + 4

Proc == 1..NPROC
Page == 1..NPAGES      \* 0 is no page
VPage == 0..(KERNBASE \div PGSIZE - 1)
Table == 0..(KERNBASE \div (PGSIZE * NPTENTRIES) - 1)

NoVm == [dir |-> 0, kpt |-> <<>>, upt |-> [t \in Table |-> 0], pte |-> [v \in VPage |-> 0]]
Vms == [dir : Page \cup {0}, kpt : UNION {[1..n -> Page] : n \in 0..NKPT},
        upt : [Table -> Page \cup {0}], pte : [VPage -> Page \cup {0}]]

VARIABLES
  freelist,  \* kmem.freelist
  state,     \* p->state
  kstack,    \* p->kstack
  vm,        \* the address space under p->pgdir
  sz,        \* p->sz
  pc,        \* where each process is
  np,        \* the child that fork() is making, or 0
  new,       \* the address space that copyuvm() or exec() is building
  a,         \* the address the loop of allocuvm() or copyuvm() has reached
  goal,      \* newsz of allocuvm()
  starved,   \* history: page tables that kalloc() had no memory for
  emptied,   \* history: sbrk() was asked for a size of 0
  panicked,
  calls      \* system calls so far

history == <<starved, emptied>>
memory == <<state, kstack, vm, sz, np, new, a, goal, history>>
vmVars == <<freelist, memory, panicked, pc, calls>>

Ceil(x) == (x + PGSIZE - 1) \div PGSIZE      \* PGROUNDUP(x), as a page number
Room(n) == Len(freelist) >= n

At(p, l) == ~panicked /\ pc[p] = l
goto(p, l) == pc' = [pc EXCEPT ![p] = l]
Call(p) == At(p, "user") /\ state[p] = "RUNNING" /\ calls < MaxCalls /\ calls' = calls + 1

\* kfree() of the pages ps, and kalloc() of the first n
kfree(ps) == freelist' = SetToSeq(ps \ {0}) \o freelist
kalloc(n) == freelist' = SubSeq(freelist, n + 1, Len(freelist))

-----------------------------------------------------------------------------
(* Address spaces *)

\* walkpgdir() for page v needs so many page tables.
walkpgdir(m, v) == IF m.upt[v \div NPTENTRIES] = 0 THEN 1 ELSE 0

\* mappages() of the page at the head of the free list at v: the next one
\* becomes the page table if there is none.
mappages(m, v) ==
  [m EXCEPT !.pte[v] = Head(freelist),
            !.upt[v \div NPTENTRIES] = IF @ = 0 THEN freelist[2] ELSE @]

\* The pages that the loop of deallocuvm() looks at: without a page table it
\* moves on by the span of one.
Scanned(m, first, last) ==
  LET scan[v \in 0..(2 * KERNBASE)] ==
        IF v >= last THEN {}
        ELSE IF m.upt[v \div NPTENTRIES] = 0 THEN scan[v + NPTENTRIES]
        ELSE {v} \cup scan[v + 1]
  IN scan[first]

\* deallocuvm(m, oldsz, newsz): the pages it frees and what is left
dropped(m, oldsz, newsz) ==
  {m.pte[v] : v \in IF newsz >= oldsz THEN {} ELSE Scanned(m, Ceil(newsz), Ceil(oldsz))}
shrunk(m, oldsz, newsz) ==
  [m EXCEPT !.pte = [v \in VPage |-> IF @[v] \in dropped(m, oldsz, newsz) THEN 0 ELSE @[v]]]

\* freevm()
freevm(m) == dropped(m, KERNBASE, 0) \cup Range(m.kpt) \cup Range(m.upt) \cup {m.dir}

-----------------------------------------------------------------------------
(* setupkvm(): the page directory, then the page tables of the kernel part.  *)
(* When it fails it returns 0 and drops what it has taken; fork() then frees *)
(* the stack of the child.                                                   *)

setupkvm(p) ==
  /\ At(p, "setupkvm_fork") \/ At(p, "setupkvm_exec")
  /\ Room(1)
  /\ LET m == new[p]
         more == IF m.dir = 0 THEN [m EXCEPT !.dir = Head(freelist)]
                 ELSE [m EXCEPT !.kpt = Append(@, Head(freelist))]
     IN /\ new' = [new EXCEPT ![p] = more]
        /\ goto(p, IF Len(more.kpt) < NKPT THEN pc[p]
                   ELSE IF pc[p] = "setupkvm_fork" THEN "copyuvm" ELSE "load")
  /\ kalloc(1)
  /\ UNCHANGED <<state, kstack, vm, sz, np, a, goal, history, panicked, calls>>

\* fork() gives up: the stack of the child and the slot are free again.
abandon(p, ps, rest) ==
  /\ freelist' = SetToSeq((ps \cup {kstack[np[p]]}) \ {0}) \o rest
  /\ kstack' = [kstack EXCEPT ![np[p]] = 0]
  /\ state' = [state EXCEPT ![np[p]] = "UNUSED"]
  /\ np' = [np EXCEPT ![p] = 0]
  /\ new' = [new EXCEPT ![p] = NoVm]
  /\ goto(p, "user")

setupkvm_fails(p) ==
  /\ ~Room(1)
  /\ \/ At(p, "setupkvm_fork") /\ abandon(p, {}, <<>>)
     \/ /\ At(p, "setupkvm_exec")
        /\ new' = [new EXCEPT ![p] = NoVm] /\ goto(p, "user")
        /\ UNCHANGED <<freelist, kstack, state, np>>
  /\ starved' = starved + (IF new[p].dir = 0 THEN 0 ELSE 1)
  /\ UNCHANGED <<vm, sz, a, goal, emptied, panicked, calls>>

-----------------------------------------------------------------------------
(* allocuvm(): for sbrk() on the address space of p, for exec() on the new   *)
(* one.  The code ignores the result of mappages(): without memory for a    *)
(* page table the page that was to be mapped is dropped and the loop goes on. *)

Target(p) == IF pc[p] = "grow" THEN vm[p] ELSE new[p]
Growing(p) == At(p, "grow") \/ At(p, "load") \/ At(p, "stack")

allocuvm(p) ==
  /\ Growing(p)
  /\ a[p] * PGSIZE < goal[p]
  /\ Room(1)
  /\ LET need == 1 + walkpgdir(Target(p), a[p])
         m == IF Room(need) THEN mappages(Target(p), a[p]) ELSE Target(p)
     IN /\ kalloc(IF Room(need) THEN need ELSE 1)
        /\ IF pc[p] = "grow" THEN vm' = [vm EXCEPT ![p] = m] /\ UNCHANGED new
           ELSE new' = [new EXCEPT ![p] = m] /\ UNCHANGED vm
        /\ starved' = starved + (IF Room(need) THEN 0 ELSE 1)
  /\ a' = [a EXCEPT ![p] = @ + 1]
  /\ UNCHANGED <<state, kstack, sz, pc, np, goal, emptied, panicked, calls>>

\* exec() goes to bad: freevm() of the address space it was building.
exec_bad(p) ==
  /\ kfree(freevm(new[p]))
  /\ new' = [new EXCEPT ![p] = NoVm]
  /\ goto(p, "user")
  /\ UNCHANGED <<state, kstack, vm, sz, np, a, goal, history, panicked, calls>>

allocuvm_fails(p) ==
  /\ Growing(p)
  /\ a[p] * PGSIZE < goal[p]
  /\ ~Room(1)
  /\ \/ pc[p] # "grow" /\ exec_bad(p)
     \/ /\ pc[p] = "grow"
        /\ kfree(dropped(vm[p], goal[p], sz[p]))
        /\ vm' = [vm EXCEPT ![p] = shrunk(@, goal[p], sz[p])]
        /\ goto(p, "user")
        /\ UNCHANGED <<state, kstack, sz, np, new, a, goal, history, panicked, calls>>

-----------------------------------------------------------------------------
(* sys_sbrk() and growproc() *)

sbrk_grow(p, n) ==
  /\ Call(p)
  /\ sz[p] + n < KERNBASE
  /\ a' = [a EXCEPT ![p] = Ceil(sz[p])]
  /\ goal' = [goal EXCEPT ![p] = sz[p] + n]
  /\ goto(p, "grow")
  /\ UNCHANGED <<freelist, state, kstack, vm, sz, np, new, history, panicked>>

grown(p) ==
  /\ At(p, "grow")
  /\ a[p] * PGSIZE >= goal[p]
  /\ sz' = [sz EXCEPT ![p] = goal[p]]
  /\ goto(p, "user")
  /\ UNCHANGED <<freelist, state, kstack, vm, np, new, a, goal, history, panicked, calls>>

\* Fault: the pages are freed but the size is not reduced.
FaultKeepsSz(p, n) ==
  /\ Call(p)
  /\ n <= sz[p]
  /\ kfree(dropped(vm[p], sz[p], sz[p] - n))
  /\ vm' = [vm EXCEPT ![p] = shrunk(@, sz[p], sz[p] - n)]
  /\ emptied' = (emptied \/ sz[p] - n = 0)
  /\ UNCHANGED <<sz, state, kstack, pc, np, new, a, goal, starved, panicked>>

\* A new size of 0 is taken for an error of deallocuvm(): the pages are gone and
\* p->sz is as before.  A size below 0 wraps around and changes nothing.
sbrk_shrink(p, n) ==
  /\ Call(p)
  /\ n <= sz[p]
  /\ kfree(dropped(vm[p], sz[p], sz[p] - n))
  /\ vm' = [vm EXCEPT ![p] = shrunk(@, sz[p], sz[p] - n)]
  /\ sz' = [sz EXCEPT ![p] = IF @ - n = 0 THEN @ ELSE @ - n]
  /\ emptied' = (emptied \/ sz[p] - n = 0)
  /\ UNCHANGED <<state, kstack, pc, np, new, a, goal, starved, panicked>>

-----------------------------------------------------------------------------
(* exec(): the image, two pages for the guard and the stack, then the switch. *)

exec_start(p, image) ==
  /\ Call(p)
  /\ a' = [a EXCEPT ![p] = 0]
  /\ goal' = [goal EXCEPT ![p] = image]
  /\ goto(p, "setupkvm_exec")
  /\ UNCHANGED <<freelist, state, kstack, vm, sz, np, new, history, panicked>>

\* loaduvm(), clearpteu() and copyout() expect a page table for every page of
\* the new address space: the first two panic, the third follows a null pointer.
Torn(p) == \E v \in 0..(a[p] - 1) : walkpgdir(new[p], v) # 0
exec_torn(p) ==
  /\ At(p, "load") \/ At(p, "stack")
  /\ a[p] * PGSIZE >= goal[p]
  /\ Torn(p)
  /\ panicked' = TRUE
  /\ UNCHANGED <<freelist, memory, pc, calls>>

\* loaduvm() has read the image; an address space that would reach KERNBASE is
\* refused.
exec_loaded(p) ==
  /\ At(p, "load")
  /\ a[p] * PGSIZE >= goal[p] /\ ~Torn(p)
  /\ IF (a[p] + 2) * PGSIZE >= KERNBASE THEN exec_bad(p)
     ELSE /\ goal' = [goal EXCEPT ![p] = (a[p] + 2) * PGSIZE]
          /\ goto(p, "stack")
          /\ UNCHANGED <<freelist, state, kstack, vm, sz, np, new, a, history, panicked, calls>>

\* A short read of the image, or arguments that do not fit the stack
exec_refused(p) ==
  /\ At(p, "load") \/ At(p, "stack")
  /\ a[p] * PGSIZE >= goal[p] /\ ~Torn(p)
  /\ exec_bad(p)

\* Fault: the old address space is not freed.
FaultExecKeeps(p) ==
  /\ At(p, "stack")
  /\ a[p] * PGSIZE >= goal[p] /\ ~Torn(p)
  /\ vm' = [vm EXCEPT ![p] = new[p]]
  /\ new' = [new EXCEPT ![p] = NoVm]
  /\ sz' = [sz EXCEPT ![p] = goal[p]]
  /\ goto(p, "user")
  /\ UNCHANGED <<freelist, state, kstack, np, a, goal, history, panicked, calls>>

exec_commit(p) ==
  /\ At(p, "stack")
  /\ a[p] * PGSIZE >= goal[p] /\ ~Torn(p)
  /\ kfree(freevm(vm[p]))
  /\ vm' = [vm EXCEPT ![p] = new[p]]
  /\ new' = [new EXCEPT ![p] = NoVm]
  /\ sz' = [sz EXCEPT ![p] = goal[p]]
  /\ goto(p, "user")
  /\ UNCHANGED <<state, kstack, np, a, goal, history, panicked, calls>>

-----------------------------------------------------------------------------
(* fork() and wait() *)

\* allocproc(): the first free slot and a kernel stack
allocproc(p) ==
  /\ Call(p)
  /\ \E q \in Proc :
       /\ state[q] = "UNUSED" /\ \A r \in 1..(q - 1) : state[r] # "UNUSED"
       /\ IF Room(1)
          THEN /\ kalloc(1)
               /\ state' = [state EXCEPT ![q] = "EMBRYO"]
               /\ kstack' = [kstack EXCEPT ![q] = Head(freelist)]
               /\ np' = [np EXCEPT ![p] = q]
               /\ a' = [a EXCEPT ![p] = 0]
               /\ goto(p, "setupkvm_fork")
          ELSE UNCHANGED <<freelist, state, kstack, np, a, pc>>
  /\ UNCHANGED <<vm, sz, new, goal, history, panicked>>

\* One turn of the loop of copyuvm()
copyuvm(p) ==
  /\ At(p, "copyuvm")
  /\ a[p] * PGSIZE < sz[p]
  /\ IF vm[p].pte[a[p]] = 0
     THEN panicked' = TRUE /\ UNCHANGED <<freelist, state, kstack, np, new, a, starved, pc>>
     ELSE LET need == 1 + walkpgdir(new[p], a[p]) IN
          /\ UNCHANGED panicked
          /\ IF Room(need)
             THEN /\ kalloc(need)
                  /\ new' = [new EXCEPT ![p] = mappages(@, a[p])]
                  /\ a' = [a EXCEPT ![p] = @ + 1]
                  /\ UNCHANGED <<state, kstack, np, starved, pc>>
             ELSE /\ abandon(p, freevm(new[p]), <<>>)    \* a page without a table is dropped
                  /\ starved' = starved + Len(freelist)
                  /\ UNCHANGED a
  /\ UNCHANGED <<vm, sz, goal, emptied, calls>>

\* The child is complete and may run.
fork_run(p) ==
  /\ At(p, "copyuvm")
  /\ a[p] * PGSIZE >= sz[p]
  /\ vm' = [vm EXCEPT ![np[p]] = new[p]]
  /\ sz' = [sz EXCEPT ![np[p]] = sz[p]]
  /\ state' = [state EXCEPT ![np[p]] = "RUNNING"]
  /\ np' = [np EXCEPT ![p] = 0]
  /\ new' = [new EXCEPT ![p] = NoVm]
  /\ goto(p, "user")
  /\ UNCHANGED <<freelist, kstack, a, goal, history, panicked, calls>>

\* wait(): parents are left to Proc, so any other process may be the one that
\* reaps a zombie.
wait(p, q) ==
  /\ Call(p)
  /\ p # q /\ state[q] = "ZOMBIE"
  /\ kfree(freevm(vm[q]) \cup {kstack[q]})
  /\ state' = [state EXCEPT ![q] = "UNUSED"]
  /\ kstack' = [kstack EXCEPT ![q] = 0]
  /\ vm' = [vm EXCEPT ![q] = NoVm]
  /\ UNCHANGED <<sz, pc, np, new, a, goal, history, panicked>>

VmStep(p) ==
  \/ setupkvm(p) \/ setupkvm_fails(p) \/ allocuvm(p) \/ allocuvm_fails(p)
  \/ grown(p) \/ exec_torn(p) \/ exec_loaded(p) \/ exec_refused(p) \/ exec_commit(p)
  \/ allocproc(p) \/ copyuvm(p)
  \/ \E n \in Deltas : sbrk_grow(p, n) \/ sbrk_shrink(p, n)
  \/ \E i \in Images : exec_start(p, i)
  \/ \E q \in Proc : wait(p, q)

-----------------------------------------------------------------------------
\* userinit() has made the first process; its image is one page.
VmInit ==
  LET table == NKPT + 3 IN
  /\ freelist = [i \in 1..(NPAGES - NKPT - 4) |-> NKPT + 4 + i]
  /\ state = [p \in Proc |-> IF p = 1 THEN "RUNNING" ELSE "UNUSED"]
  /\ kstack = [p \in Proc |-> IF p = 1 THEN 1 ELSE 0]
  /\ vm = [p \in Proc |-> IF p # 1 THEN NoVm
           ELSE [NoVm EXCEPT !.dir = 2, !.kpt = [i \in 1..NKPT |-> i + 2],
                             !.upt[0] = table, !.pte[0] = table + 1]]
  /\ sz = [p \in Proc |-> IF p = 1 THEN PGSIZE ELSE 0]
  /\ pc = [p \in Proc |-> "user"]
  /\ np = [p \in Proc |-> 0]
  /\ new = [p \in Proc |-> NoVm]
  /\ a = [p \in Proc |-> 0]
  /\ goal = [p \in Proc |-> 0]
  /\ starved = 0
  /\ emptied = FALSE
  /\ panicked = FALSE
  /\ calls = 0
=============================================================================
