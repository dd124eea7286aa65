\* Four slots, so that a process can die whose parent is not init and that leaves a
\* zombie behind.  One CPU: a process can be preempted between any two of its steps.
\* The pid of a child and of a grandchild are killed, or what a failed fork() left of it.
SPECIFICATION FairSpec
CONSTANTS
  NPROC = 4
  CPU = {c1}
  NoCPU = NoCPU
  MaxPid = 4
  KillPids = {2, 3}
  MayFail = TRUE
INVARIANTS TableInv WaitMissesNoZombie
PROPERTIES KilledDies OrphansReaped
CHECK_DEADLOCK FALSE
