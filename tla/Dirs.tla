-------------------------------- MODULE Dirs --------------------------------
(***************************************************************************)
(* The directory tree: namex() of fs.c under the calls of sysfile.c that   *)
(* walk and change it: open with and without O_CREATE, mkdir, mknod, chdir *)
(* and unlink, by processes that hold working directories and open files.  *)
(*                                                                         *)
(* A step is what happens under one lock of an inode, so that other calls  *)
(* come between the elements of a path, between nameiparent() and the lock *)
(* of the parent, and between the locks of parent and child.  The inode    *)
(* cache is Icache's subject: here an inode has its reference count and    *)
(* lock, and iput() frees it in one step.  A path is the sequence of       *)
(* elements that skipelem() returns, "." left out; mounts are left out.    *)
(***************************************************************************)
EXTENDS Integers, Sequences, FiniteSets, TLC

CONSTANTS Proc, Names, ninodes,
          Paths,     \* records: abs (a leading slash) and elems
          MaxCalls,  \* bound: system calls in a behaviour
          None

ASSUME DirsConstants ==
  /\ ninodes \in Nat /\ ninodes > 3 /\ MaxCalls \in Nat
  /\ ".." \notin Names /\ None \notin Proc
  /\ Paths \subseteq [abs : BOOLEAN, elems : Seq(Names \cup {".."})]

Inum == 1..(ninodes - 1)
ROOTINO == 1
Elem == Names \cup {".."}

VARIABLES
  ino,       \* per inode: type, nlink, entries; ref and lock of its cache slot
  cwd, fd,   \* per process: working directory, and the one open file or 0
  pc, op,    \* where it is, in which call
  rest,      \* the elements of the path that are left
  ip, dp,    \* its inode pointers, 0 if unused
  stray,     \* history: what was created below a directory that is gone
  stale,     \* history: a ".." of such a directory was followed
  panicked, calls

vars == <<ino, cwd, fd, pc, op, rest, ip, dp, stray, stale, panicked, calls>>

Free == [type |-> "free", nlink |-> 0, ent |-> [e \in Elem |-> 0], ref |-> 0, lock |-> None]
Calls == {"open", "create", "mkdir", "mknod", "chdir", "unlink"}

TypeOK ==
  /\ ino \in [Inum -> [type : {"free", "T_DIR", "T_FILE", "T_DEV"}, nlink : 0..ninodes,
                       ent : [Elem -> 0..(ninodes - 1)],
                       ref : 0..(4 * Cardinality(Proc) + 1), lock : Proc \cup {None}]]
  /\ cwd \in [Proc -> Inum] /\ fd \in [Proc -> Inum \cup {0}]
  /\ pc \in [Proc -> {"user", "namex", "found", "parent", "exists", "created", "unlink"}]
  /\ op \in [Proc -> Calls]
  /\ ip \in [Proc -> Inum \cup {0}] /\ dp \in [Proc -> Inum \cup {0}]
  /\ stray \subseteq Inum /\ stale \in BOOLEAN
  /\ panicked \in {"no", "ilock: no type", "ialloc: no inodes", "unlink: nlink < 1"}

\* The root with every process in it, and up to two directories below each other
Init ==
  /\ \E depth \in 0..2, n \in Names :
       ino = [i \in Inum |-> IF i > depth + 1 THEN Free
              ELSE [Free EXCEPT !.type = "T_DIR",
                                !.nlink = IF i <= depth THEN 2 ELSE 1,
                                !.ref = IF i = ROOTINO THEN Cardinality(Proc) ELSE 0,
                                !.ent[n] = IF i <= depth THEN i + 1 ELSE 0,
                                !.ent[".."] = IF i = ROOTINO THEN i ELSE i - 1]]
  /\ cwd = [p \in Proc |-> ROOTINO]
  /\ fd = [p \in Proc |-> 0]
  /\ pc = [p \in Proc |-> "user"]
  /\ op = [p \in Proc |-> "open"]
  /\ rest = [p \in Proc |-> <<>>]
  /\ ip = [p \in Proc |-> 0]
  /\ dp = [p \in Proc |-> 0]
  /\ stray = {} /\ stale = FALSE
  /\ panicked = "no" /\ calls = 0

\* The inodes that a path from the root leads to.
Reachable ==
  LET within[k \in 0..ninodes] ==
        IF k = 0 THEN {ROOTINO}
        ELSE LET w == within[k - 1] IN w \cup ({ino[d].ent[n] : d \in w, n \in Names} \ {0})
  IN within[ninodes]

-----------------------------------------------------------------------------
(* The inode layer *)

\* Fault: iput() frees an unlinked inode that others still hold.
FaultPut(f, i) == IF f[i].nlink = 0 THEN [f EXCEPT ![i] = Free]
                  ELSE [f EXCEPT ![i].ref = @ - 1]

\* iget(), idup() and iput() of inode i, in the inodes f
got(f, i) == [f EXCEPT ![i].ref = @ + 1]
put(f, i) == IF f[i].ref = 1 /\ f[i].nlink = 0 THEN [f EXCEPT ![i] = Free]
             ELSE [f EXCEPT ![i].ref = @ - 1]
locked(f, i, p) == [f EXCEPT ![i].lock = p]
iunlockput(f, i) == put(locked(f, i, None), i)

At(p, l) == panicked = "no" /\ pc[p] = l
goto(p, l) == pc' = [pc EXCEPT ![p] = l]
CanLock(i) == ino[i].lock = None

\* ilock() of a freed inode panics.
ilock(i) ==
  /\ CanLock(i)
  /\ ino[i].type = "free"
  /\ panicked' = "ilock: no type"
  /\ UNCHANGED <<ino, cwd, fd, pc, op, rest, ip, dp, stray, stale, calls>>

\* The call returns to the user with the inodes f.
return(p, f) ==
  /\ ino' = f
  /\ ip' = [ip EXCEPT ![p] = 0]
  /\ dp' = [dp EXCEPT ![p] = 0]
  /\ rest' = [rest EXCEPT ![p] = <<>>]
  /\ op' = [op EXCEPT ![p] = "open"]
  /\ goto(p, "user")

-----------------------------------------------------------------------------
(* namex() *)

\* skipelem(): the next element of the path
skipelem(p) == Head(rest[p])
Astray(p, d) == skipelem(p) = ".." /\ d \notin Reachable
parent(p) == op[p] \in {"create", "mkdir", "mknod", "unlink"}

\* A system call begins: from the root, or from a new reference to p->cwd.
syscall(p, o, path) ==
  /\ At(p, "user")
  /\ calls < MaxCalls
  /\ LET i == IF path.abs THEN ROOTINO ELSE cwd[p] IN
       /\ ino' = got(ino, i)
       /\ ip' = [ip EXCEPT ![p] = i]
  /\ op' = [op EXCEPT ![p] = o]
  /\ rest' = [rest EXCEPT ![p] = path.elems]
  /\ goto(p, "namex")
  /\ calls' = calls + 1
  /\ UNCHANGED <<cwd, fd, dp, stray, stale, panicked>>

\* No element is left: the inode is found.  There is no parent of "/".
namex_end(p) ==
  /\ At(p, "namex")
  /\ rest[p] = <<>>
  /\ IF parent(p) THEN return(p, put(ino, ip[p]))
     ELSE goto(p, "found") /\ UNCHANGED <<ino, op, rest, ip, dp>>
  /\ UNCHANGED <<cwd, fd, stray, stale, panicked, calls>>

\* One turn of the loop of namex()
namex(p) ==
  /\ At(p, "namex")
  /\ rest[p] # <<>>
  /\ CanLock(ip[p]) /\ ino[ip[p]].type # "free"
  /\ LET i == ip[p]
         next == ino[i].ent[skipelem(p)] IN
       IF ino[i].type # "T_DIR" \/ (~(parent(p) /\ Len(rest[p]) = 1) /\ next = 0)
       THEN return(p, put(ino, i)) /\ UNCHANGED stale
       ELSE IF parent(p) /\ Len(rest[p]) = 1
       THEN /\ dp' = [dp EXCEPT ![p] = i]
            /\ ip' = [ip EXCEPT ![p] = 0]
            /\ goto(p, "parent")
            /\ UNCHANGED <<ino, op, rest, stale>>
       ELSE /\ ino' = put(got(ino, next), i)
            /\ ip' = [ip EXCEPT ![p] = next]
            /\ rest' = [rest EXCEPT ![p] = Tail(@)]
            /\ stale' = (stale \/ Astray(p, i))
            /\ UNCHANGED <<op, pc, dp>>
  /\ UNCHANGED <<cwd, fd, stray, panicked, calls>>

-----------------------------------------------------------------------------
(* sys_open() and sys_chdir() *)

\* The end of sys_open(), with ip locked: a descriptor, or iunlockput()
openfile(p, f, i) ==
  IF fd[p] = 0 THEN fd' = [fd EXCEPT ![p] = i] /\ return(p, f)
  ELSE UNCHANGED fd /\ return(p, put(f, i))

open(p, rdonly) ==
  /\ At(p, "found") /\ op[p] = "open"
  /\ CanLock(ip[p]) /\ ino[ip[p]].type # "free"
  /\ IF ino[ip[p]].type = "T_DIR" /\ ~rdonly
     THEN return(p, put(ino, ip[p])) /\ UNCHANGED fd
     ELSE openfile(p, ino, ip[p])
  /\ UNCHANGED <<cwd, stray, stale, panicked, calls>>

\* fileclose() of the open file
close(p) ==
  /\ At(p, "user")
  /\ fd[p] # 0
  /\ ino' = put(ino, fd[p])
  /\ fd' = [fd EXCEPT ![p] = 0]
  /\ UNCHANGED <<cwd, pc, op, rest, ip, dp, stray, stale, panicked, calls>>

chdir(p) ==
  /\ At(p, "found") /\ op[p] = "chdir"
  /\ CanLock(ip[p]) /\ ino[ip[p]].type # "free"
  /\ IF ino[ip[p]].type # "T_DIR" THEN return(p, put(ino, ip[p])) /\ UNCHANGED cwd
     ELSE return(p, put(ino, cwd[p])) /\ cwd' = [cwd EXCEPT ![p] = ip[p]]
  /\ UNCHANGED <<fd, stray, stale, panicked, calls>>

-----------------------------------------------------------------------------
(* create() *)

Frees == {i \in Inum : ino[i].type = "free"}
kind(p) == CASE op[p] = "mkdir" -> "T_DIR" [] op[p] = "mknod" -> "T_DEV" [] OTHER -> "T_FILE"

\* The parent is locked, not looked at again, and searched for the name; a new
\* inode is allocated under its lock.
create(p) ==
  /\ At(p, "parent") /\ op[p] # "unlink"
  /\ CanLock(dp[p])
  /\ LET d == dp[p]
         old == ino[d].ent[skipelem(p)]
         i == CHOOSE x \in Frees : \A y \in Frees : x <= y
     IN IF old # 0
        THEN /\ ino' = put(got(ino, old), d)
             /\ ip' = [ip EXCEPT ![p] = old]
             /\ dp' = [dp EXCEPT ![p] = 0]
             /\ goto(p, "exists")
             /\ stale' = (stale \/ Astray(p, d))
             /\ UNCHANGED panicked
        ELSE IF Frees = {}
        THEN panicked' = "ialloc: no inodes" /\ UNCHANGED <<ino, ip, dp, pc, stale>>
        ELSE /\ ino' = got(locked([ino EXCEPT ![i].type = kind(p)], d, p), i)
             /\ ip' = [ip EXCEPT ![p] = i]
             /\ goto(p, "created")
             /\ UNCHANGED <<dp, stale, panicked>>
  /\ UNCHANGED <<cwd, fd, op, rest, stray, calls>>

\* The name exists: only a file may be "created" again.
create_exists(p) ==
  /\ At(p, "exists")
  /\ CanLock(ip[p]) /\ ino[ip[p]].type # "free"
  /\ IF op[p] = "create" /\ ino[ip[p]].type = "T_FILE" THEN openfile(p, ino, ip[p])
     ELSE return(p, put(ino, ip[p])) /\ UNCHANGED fd
  /\ UNCHANGED <<cwd, stray, stale, panicked, calls>>

\* Fault: a new directory is not counted in its parent.
FaultNoDotDot(p) ==
  /\ At(p, "created")
  /\ CanLock(ip[p])
  /\ LET d == dp[p] i == ip[p]
         made == [ino EXCEPT ![i].nlink = 1, ![i].ent[".."] = IF op[p] = "mkdir" THEN d ELSE 0,
                             ![d].ent[skipelem(p)] = i]
     IN IF op[p] = "create" THEN openfile(p, iunlockput(made, d), i)
        ELSE return(p, put(iunlockput(made, d), i)) /\ UNCHANGED fd
  /\ stray' = IF dp[p] \in Reachable THEN stray ELSE stray \cup {dp[p], ip[p]}
  /\ UNCHANGED <<cwd, stale, panicked, calls>>

\* The new inode is locked too: its link, "..", and the entry in the parent
create_link(p) ==
  /\ At(p, "created")
  /\ CanLock(ip[p])
  /\ LET d == dp[p] i == ip[p] dir == op[p] = "mkdir"
         made == [ino EXCEPT ![i].nlink = 1, ![i].ent[".."] = IF dir THEN d ELSE 0,
                             ![d].nlink = IF dir THEN @ + 1 ELSE @, ![d].ent[skipelem(p)] = i]
     IN IF op[p] = "create" THEN openfile(p, iunlockput(made, d), i)
        ELSE return(p, put(iunlockput(made, d), i)) /\ UNCHANGED fd
  /\ stray' = IF dp[p] \in Reachable THEN stray ELSE stray \cup {dp[p], ip[p]}
  /\ UNCHANGED <<cwd, stale, panicked, calls>>

-----------------------------------------------------------------------------
(* sys_unlink() *)

\* The parent is locked; "..", and a name that is not there, are refused.
unlink(p) ==
  /\ At(p, "parent") /\ op[p] = "unlink"
  /\ CanLock(dp[p])
  /\ LET i == ino[dp[p]].ent[skipelem(p)] IN
       IF skipelem(p) = ".." \/ i = 0 THEN return(p, put(ino, dp[p]))
       ELSE /\ ino' = got(locked(ino, dp[p], p), i)
            /\ ip' = [ip EXCEPT ![p] = i]
            /\ goto(p, "unlink")
            /\ UNCHANGED <<op, rest, dp>>
  /\ UNCHANGED <<cwd, fd, stray, stale, panicked, calls>>

\* Fault: the entries of a directory are not looked at.
Faultisdirempty(i) == TRUE

isdirempty(i) == \A n \in Names : ino[i].ent[n] = 0

\* The child is locked too: the entry goes, and the link.
unlink_child(p) ==
  /\ At(p, "unlink")
  /\ CanLock(ip[p]) /\ ino[ip[p]].type # "free"
  /\ LET d == dp[p] i == ip[p] dir == ino[i].type = "T_DIR"
         gone == [ino EXCEPT ![d].ent[skipelem(p)] = 0, ![d].nlink = IF dir THEN @ - 1 ELSE @]
         less(f) == [f EXCEPT ![i].nlink = @ - 1]
     IN IF ino[i].nlink < 1
        THEN panicked' = "unlink: nlink < 1" /\ UNCHANGED <<ino, pc, op, rest, ip, dp>>
        ELSE /\ UNCHANGED panicked
             /\ IF dir /\ ~isdirempty(i) THEN return(p, iunlockput(put(ino, i), d))
                ELSE return(p, put(less(iunlockput(gone, d)), i))
  /\ UNCHANGED <<cwd, fd, stray, stale, calls>>

-----------------------------------------------------------------------------
\* Where the call is about to ilock() its inode
locks(p) ==
  \/ pc[p] \in {"found", "exists", "unlink"} \/ (pc[p] = "namex" /\ rest[p] # <<>>)

Step(p) ==
  \/ namex_end(p) \/ namex(p) \/ (\E r \in BOOLEAN : open(p, r)) \/ close(p) \/ chdir(p)
  \/ create(p) \/ create_exists(p) \/ create_link(p) \/ unlink(p) \/ unlink_child(p)
  \/ panicked = "no" /\ locks(p) /\ ilock(ip[p])
  \/ \E o \in Calls, path \in Paths : syscall(p, o, path)

\* The bound is reached, or the machine has stopped.
Rest ==
  /\ panicked # "no" \/ (calls = MaxCalls /\ \A p \in Proc : pc[p] = "user")
  /\ UNCHANGED vars

Next == (\E p \in Proc : Step(p)) \/ Rest

Spec == Init /\ [][Next]_vars

-----------------------------------------------------------------------------
(* Properties *)

Entries(i) == {<<d, n>> \in Inum \X Names : ino[d].ent[n] = i}

\* create(), sys_unlink(): what the root leads to is a tree of allocated inodes.
\* Each has one entry; ".." of a directory is its parent; nlink counts the entry
\* and the subdirectories, or for a file the entry alone.
TreeInv ==
  /\ TypeOK
  /\ \A i \in Reachable :
       /\ ino[i].type # "free"
       /\ i # ROOTINO => Cardinality(Entries(i)) = 1
       /\ \A e \in Entries(i) : ino[i].type = "T_DIR" => ino[i].ent[".."] = e[1]
       /\ ino[i].nlink = 1 + Cardinality({j \in Inum : /\ ino[j].type = "T_DIR"
                                                     /\ \E n \in Names : ino[i].ent[n] = j})

\* iput(), create(), sys_unlink(): an inode is freed once no path leads to it and
\* no process holds it.  What a create() puts into a directory that was removed after
\* nameiparent() found it is lost, and that directory with it.
NothingLost ==
  \A i \in Inum : ino[i].type # "free" => i \in Reachable \cup stray \/ ino[i].ref > 0

\* namex(), ilock(): no interleaving of the calls makes a process lock a freed
\* inode or unlink one without links, unless a process followed ".." out of a
\* directory that no path leads to any more.
OnlyStalePanics == panicked \in {"ilock: no type", "unlink: nlink < 1"} => stale
=============================================================================
