---------------------------- MODULE Descriptors -----------------------------
(***************************************************************************)
(* What a process holds: its file descriptors on top of its memory.  The   *)
(* calls open, pipe, dup and close of sysfile.c with filealloc, filedup    *)
(* and fileclose of file.c, pipealloc and pipeclose of pipe.c, and the     *)
(* parts of fork and exit that deal with open files.  A pipe lives in a    *)
(* page of kalloc(), and is known by it.                                   *)
(*                                                                         *)
(* A step is a critical section of ftable.lock, of a pipe or of the free   *)
(* list; p->ofile belongs to the process.                                  *)
(***************************************************************************)
EXTENDS Vm

CONSTANTS NOFILE, NFILE

ASSUME DescriptorConstants == {NOFILE, NFILE} \subseteq Nat \ {0}

FD == 1..NOFILE        \* 0..NOFILE-1 in the code
File == 1..NFILE       \* 0 is no file

VARIABLES
  ofile,   \* p->ofile
  ftable,  \* struct file: ref, type and pipe
  ends,    \* per page that is a pipe: the ends that are open
  iref,    \* references to the one inode that files are opened on
  loc,     \* struct files that sys_open() or pipealloc() has taken so far
  todo,    \* struct files that the call still has to close
  ff       \* the copy of the struct file whose last reference is gone

files == <<ofile, ftable, ends, iref, loc, todo, ff>>
vars == <<vmVars, files>>

NoFile == [type |-> "FD_NONE", pipe |-> 0]
Kind == {"FD_NONE", "read end", "write end", "FD_INODE"}

TypeOK ==
  /\ freelist \in Seq(Page)
  /\ state \in [Proc -> {"UNUSED", "EMBRYO", "RUNNING", "ZOMBIE"}]
  /\ kstack \in [Proc -> Page \cup {0}]
  /\ \A p \in Proc : vm[p] \in Vms /\ new[p] \in Vms
  /\ sz \in [Proc -> 0..KERNBASE] /\ goal \in [Proc -> 0..KERNBASE]
  /\ np \in [Proc -> Proc \cup {0}]
  /\ ofile \in [Proc -> [FD -> File \cup {0}]]
  /\ ftable \in [File -> [ref : Nat, type : Kind, pipe : Page \cup {0}]]
  /\ ends \in [Page -> SUBSET {"read end", "write end"}]
  /\ iref \in Nat
  /\ loc \in [Proc -> Seq(File)] /\ todo \in [Proc -> Seq(File)]
  /\ ff \in [Proc -> [type : Kind, pipe : Page \cup {0}]]

\* init has the console open, as descriptor 0.
Init ==
  /\ VmInit
  /\ ofile = [p \in Proc |-> [d \in FD |-> IF p = 1 /\ d = 1 THEN 1 ELSE 0]]
  /\ ftable = [f \in File |-> IF f = 1 THEN [ref |-> 1, type |-> "FD_INODE", pipe |-> 0]
                              ELSE [ref |-> 0, type |-> "FD_NONE", pipe |-> 0]]
  /\ ends = [g \in Page |-> {}]
  /\ iref = 1
  /\ loc = [p \in Proc |-> <<>>]
  /\ todo = [p \in Proc |-> <<>>]
  /\ ff = [p \in Proc |-> NoFile]

-----------------------------------------------------------------------------
(* filealloc(), filedup(), fileclose() and fdalloc() *)

FreeFiles == {f \in File : ftable[f].ref = 0}
FreeFds(p) == {d \in FD : ofile[p][d] = 0}
Least(S) == CHOOSE x \in S : \A y \in S : x <= y

\* filealloc() of the first free struct file, kept in a local variable of p
filealloc(p) ==
  /\ FreeFiles # {}
  /\ ftable' = [ftable EXCEPT ![Least(FreeFiles)].ref = 1]
  /\ loc' = [loc EXCEPT ![p] = Append(@, Least(FreeFiles))]

\* The call ends with fileclose() of the files in s.
closing(p, s) == todo' = [todo EXCEPT ![p] = s] /\ goto(p, "fileclose")

\* The critical section of fileclose(): the last reference frees the struct file
\* and leaves a copy.
fileclose(p) ==
  /\ At(p, "fileclose") \/ At(p, "exit")
  /\ todo[p] # <<>> /\ ff[p] = NoFile
  /\ LET f == Head(todo[p]) last == ftable[f].ref = 1 IN
       /\ ftable' = [ftable EXCEPT ![f].ref = @ - 1,
                                   ![f].type = IF last THEN "FD_NONE" ELSE @]
       /\ ff' = [ff EXCEPT ![p] = IF last THEN [type |-> ftable[f].type, pipe |-> ftable[f].pipe]
                                  ELSE NoFile]
  /\ todo' = [todo EXCEPT ![p] = Tail(@)]
  /\ UNCHANGED <<vmVars, ofile, ends, iref, loc>>

\* What follows the critical section: pipeclose() or iput().
fileclose_last(p) ==
  /\ ~panicked
  /\ ff[p] # NoFile
  /\ IF ff[p].type \in {"read end", "write end"}
     THEN /\ ends' = [ends EXCEPT ![ff[p].pipe] = @ \ {ff[p].type}]
          /\ IF ends[ff[p].pipe] = {ff[p].type} THEN kfree({ff[p].pipe})
             ELSE UNCHANGED freelist
          /\ UNCHANGED iref
     ELSE /\ iref' = iref - (IF ff[p].type = "FD_INODE" THEN 1 ELSE 0)
          /\ UNCHANGED <<freelist, ends>>
  /\ ff' = [ff EXCEPT ![p] = NoFile]
  /\ UNCHANGED <<memory, panicked, pc, calls, ofile, ftable, loc, todo>>

\* The files of the call are closed: back to user mode, or to the end of exit().
fileclose_done(p) ==
  /\ At(p, "fileclose") \/ At(p, "exit")
  /\ todo[p] = <<>> /\ ff[p] = NoFile
  /\ state' = [state EXCEPT ![p] = IF pc[p] = "exit" THEN "ZOMBIE" ELSE @]
  /\ goto(p, "user")
  /\ UNCHANGED <<freelist, kstack, vm, sz, np, new, a, goal, history, panicked, calls, files>>

-----------------------------------------------------------------------------
(* sys_open(), sys_dup(), sys_close() *)

\* namei() has found the inode; filealloc(), and iput() if there is none
open(p) ==
  /\ Call(p)
  /\ IF FreeFiles = {} THEN UNCHANGED <<iref, ftable, loc, pc>>
     ELSE filealloc(p) /\ iref' = iref + 1 /\ goto(p, "open")
  /\ UNCHANGED <<freelist, memory, panicked, ofile, ends, todo, ff>>

\* fdalloc(); without a descriptor the struct file is closed, which has no type
\* yet, and the inode put.
open_fd(p) ==
  /\ At(p, "open")
  /\ LET f == loc[p][1] IN
       IF FreeFds(p) = {}
       THEN /\ closing(p, <<f>>)
            /\ iref' = iref - 1
            /\ UNCHANGED <<ofile, ftable>>
       ELSE /\ ofile' = [ofile EXCEPT ![p][Least(FreeFds(p))] = f]
            /\ ftable' = [ftable EXCEPT ![f].type = "FD_INODE"]
            /\ goto(p, "user")
            /\ UNCHANGED <<iref, todo>>
  /\ loc' = [loc EXCEPT ![p] = <<>>]
  /\ UNCHANGED <<freelist, memory, panicked, calls, ends, ff>>

dup(p, d) ==
  /\ Call(p)
  /\ ofile[p][d] # 0 /\ FreeFds(p) # {}
  /\ ofile' = [ofile EXCEPT ![p][Least(FreeFds(p))] = ofile[p][d]]
  /\ ftable' = [ftable EXCEPT ![ofile[p][d]].ref = @ + 1]
  /\ UNCHANGED <<freelist, memory, panicked, pc, ends, iref, loc, todo, ff>>

close(p, d) ==
  /\ Call(p)
  /\ ofile[p][d] # 0
  /\ ofile' = [ofile EXCEPT ![p][d] = 0]
  /\ closing(p, <<ofile[p][d]>>)
  /\ UNCHANGED <<freelist, memory, panicked, ftable, ends, iref, loc, ff>>

-----------------------------------------------------------------------------
(* sys_pipe() and pipealloc() *)

pipe(p) ==
  /\ Call(p)
  /\ IF FreeFiles = {} THEN UNCHANGED <<ftable, loc, pc>>
     ELSE filealloc(p) /\ goto(p, "pipealloc")
  /\ UNCHANGED <<freelist, memory, panicked, ofile, ends, iref, todo, ff>>

pipealloc_second(p) ==
  /\ At(p, "pipealloc")
  /\ IF FreeFiles # {} THEN filealloc(p) /\ goto(p, "pipe_kalloc") /\ UNCHANGED todo
     ELSE closing(p, loc[p]) /\ loc' = [loc EXCEPT ![p] = <<>>] /\ UNCHANGED ftable
  /\ UNCHANGED <<freelist, memory, panicked, calls, ofile, ends, iref, ff>>

\* Fault: without descriptors only the read end is closed.
FaultClosesOne(p) ==
  /\ At(p, "pipe_kalloc")
  /\ LET f0 == loc[p][1] f1 == loc[p][2] IN
       IF ~Room(1)
       THEN closing(p, loc[p]) /\ UNCHANGED <<freelist, ftable, ends, ofile>>
       ELSE /\ kalloc(1)
            /\ ends' = [ends EXCEPT ![Head(freelist)] = {"read end", "write end"}]
            /\ ftable' = [ftable EXCEPT ![f0].type = "read end", ![f0].pipe = Head(freelist),
                                        ![f1].type = "write end", ![f1].pipe = Head(freelist)]
            /\ IF Cardinality(FreeFds(p)) < 2 THEN closing(p, <<f0>>) /\ UNCHANGED ofile
               ELSE LET d == Least(FreeFds(p)) IN
                    /\ ofile' = [ofile EXCEPT ![p][d] = f0, ![p][Least(FreeFds(p) \ {d})] = f1]
                    /\ goto(p, "user") /\ UNCHANGED todo
  /\ loc' = [loc EXCEPT ![p] = <<>>]
  /\ UNCHANGED <<memory, panicked, calls, iref, ff>>

\* The page of the pipe, the two ends, and the two descriptors: when one of them
\* is missing the code takes back the other and closes both files.
pipe_fds(p) ==
  /\ At(p, "pipe_kalloc")
  /\ LET f0 == loc[p][1] f1 == loc[p][2] IN
       IF ~Room(1)
       THEN closing(p, loc[p]) /\ UNCHANGED <<freelist, ftable, ends, ofile>>
       ELSE /\ kalloc(1)
            /\ ends' = [ends EXCEPT ![Head(freelist)] = {"read end", "write end"}]
            /\ ftable' = [ftable EXCEPT ![f0].type = "read end", ![f0].pipe = Head(freelist),
                                        ![f1].type = "write end", ![f1].pipe = Head(freelist)]
            /\ IF Cardinality(FreeFds(p)) < 2 THEN closing(p, loc[p]) /\ UNCHANGED ofile
               ELSE LET d == Least(FreeFds(p)) IN
                    /\ ofile' = [ofile EXCEPT ![p][d] = f0, ![p][Least(FreeFds(p) \ {d})] = f1]
                    /\ goto(p, "user") /\ UNCHANGED todo
  /\ loc' = [loc EXCEPT ![p] = <<>>]
  /\ UNCHANGED <<memory, panicked, calls, iref, ff>>

-----------------------------------------------------------------------------
(* fork() and exit() *)

Handles(p, f) == {d \in FD : ofile[p][d] = f}

\* The end of fork(): filedup() of every open file
fork(p) ==
  /\ fork_run(p)
  /\ ofile' = [ofile EXCEPT ![np[p]] = ofile[p]]
  /\ ftable' = [f \in File |-> [ftable[f] EXCEPT !.ref = @ + Cardinality(Handles(p, f))]]
  /\ UNCHANGED <<ends, iref, loc, todo, ff>>

\* exit() closes every descriptor; init does not exit.
exit(p) ==
  /\ Call(p)
  /\ p # 1
  /\ todo' = [todo EXCEPT ![p] = SelectSeq(ofile[p], LAMBDA f : f # 0)]
  /\ ofile' = [ofile EXCEPT ![p] = [d \in FD |-> 0]]
  /\ goto(p, "exit")
  /\ UNCHANGED <<freelist, memory, panicked, ftable, ends, iref, loc, ff>>

FileStep(p) ==
  \/ fileclose(p) \/ fileclose_last(p) \/ fileclose_done(p)
  \/ open(p) \/ open_fd(p) \/ pipe(p) \/ pipealloc_second(p) \/ pipe_fds(p)
  \/ fork(p) \/ exit(p)
  \/ \E d \in FD : dup(p, d) \/ close(p, d)

Next == \E p \in Proc : (VmStep(p) /\ UNCHANGED files) \/ FileStep(p)

Spec == Init /\ [][Next]_vars

-----------------------------------------------------------------------------
(* Properties *)

\* Everything that holds a page, as pairs of the holder and the page
Uses ==
  {u \in UNION {
     {<<"stack", p, 0, kstack[p]>>, <<"dir", p, 0, vm[p].dir>>, <<"new dir", p, 0, new[p].dir>>}
     \cup {<<"kpt", p, i, vm[p].kpt[i]>> : i \in DOMAIN vm[p].kpt}
     \cup {<<"new kpt", p, i, new[p].kpt[i]>> : i \in DOMAIN new[p].kpt}
     \cup {<<"upt", p, t, vm[p].upt[t]>> : t \in Table}
     \cup {<<"new upt", p, t, new[p].upt[t]>> : t \in Table}
     \cup {<<"pte", p, v, vm[p].pte[v]>> : v \in VPage}
     \cup {<<"new pte", p, v, new[p].pte[v]>> : v \in VPage} : p \in Proc}
     \cup {<<"pipe", 0, g, g>> : g \in {h \in Page : ends[h] # {}}} : u[4] # 0}

\* kalloc.c, vm.c, pipe.c: a page is on the free list or in one place of one
\* process or pipe, never both or two; and a page is lost only when there was no
\* memory for a page table, at most NKPT pages each time.
PagesInv ==
  /\ TypeOK
  /\ IsInjective(freelist)
  /\ Cardinality({u[4] : u \in Uses}) = Cardinality(Uses)
  /\ Range(freelist) \cap {u[4] : u \in Uses} = {}
  /\ NPAGES - Len(freelist) - Cardinality(Uses) <= starved * NKPT

\* growproc(), copyuvm(), exec(): below p->sz every page is mapped, and none
\* above it, so that fork() and exec() do not panic -- except after memory for a page
\* table was missing, or sbrk() was asked for a size of 0.
SpacesWhole ==
  ~emptied /\ starved = 0 =>
    /\ ~panicked
    /\ \A p \in Proc : state[p] = "RUNNING" /\ pc[p] # "grow" =>
         \A v \in VPage : vm[p].pte[v] # 0 <=> v * PGSIZE < sz[p]

\* file.c, sysfile.c: f->ref counts the descriptors and the local variables that
\* point to f on every path, the failing ones included; a free struct file has no
\* type; the inode and the ends of the pipes are counted the same way.
Refs(f) == {<<p, d>> \in Proc \X FD : ofile[p][d] = f}
Locals(f) == {<<p, i>> \in Proc \X FD :
                i \in DOMAIN loc[p] /\ loc[p][i] = f}
Pending(f) == {<<p, i>> \in Proc \X FD : i \in DOMAIN todo[p] /\ todo[p][i] = f}
HandlesCounted ==
  /\ \A f \in File :
       /\ ftable[f].ref = Cardinality(Refs(f)) + Cardinality(Locals(f)) + Cardinality(Pending(f))
       /\ ftable[f].ref = 0 => ftable[f].type = "FD_NONE"
  /\ iref = Cardinality({f \in File : ftable[f].type = "FD_INODE"})
            + Cardinality({p \in Proc : pc[p] = "open"})
            + Cardinality({p \in Proc : ff[p].type = "FD_INODE"})
  /\ \A g \in Page : \A e \in ends[g] :
       \/ \E f \in File : ftable[f].type = e /\ ftable[f].pipe = g
       \/ \E p \in Proc : ff[p] = [type |-> e, pipe |-> g]
=============================================================================
