------------------------------ MODULE Programs ------------------------------
(***************************************************************************)
(* The programs outside the kernel whose work is more than a few system    *)
(* calls: the shell, grep, mkfs, the allocator that the user programs are  *)
(* linked with, and the functions on text.  A behaviour runs one of them.  *)
(***************************************************************************)
EXTENDS Umalloc, Shell, Grep, Mkfs, Text

VARIABLE prog  \* the program that is run

programVars == <<prog, heapVars, shVars, grepVars, mkfsVars, textVars>>

\* The others have an empty input.
Input(name, inputs, none) == IF prog = name THEN inputs ELSE {none}
Init ==
  /\ prog \in {"malloc", "sh", "grep", "mkfs", "text"}
  /\ HeapInit
  /\ ShInit(Input("sh", Lines, <<>>))
  /\ GrepInit(Input("grep", Searches, <<<<>>, <<>>>>))
  /\ MkfsInit(Input("mkfs", KernelSizes, 0), Input("mkfs", Arguments, <<>>))
  /\ TextInit(Input("text", Jobs, <<"wc", <<>>>>))

RunMalloc == prog = "malloc" /\ HeapStep /\ UNCHANGED <<prog, shVars, grepVars, mkfsVars, textVars>>
RunShell == prog = "sh" /\ ShStep /\ UNCHANGED <<prog, heapVars, grepVars, mkfsVars, textVars>>
RunGrep == prog = "grep" /\ grep /\ UNCHANGED <<prog, heapVars, shVars, mkfsVars, textVars>>
RunMkfs == prog = "mkfs" /\ MkfsStep /\ UNCHANGED <<prog, heapVars, shVars, grepVars, textVars>>
RunText == prog = "text" /\ wc /\ UNCHANGED <<prog, heapVars, shVars, grepVars, mkfsVars>>

Next == RunMalloc \/ RunShell \/ RunGrep \/ RunMkfs \/ RunText

\* The scheduler runs the processes of a command, and the programs exit.
Spec == Init /\ [][Next]_programVars /\ WF_programVars(RunShell)
=============================================================================
