---------------------------- MODULE BoundedFifo ----------------------------
(***************************************************************************)
(* What a pipe promises: a bounded first-in first-out queue of bytes.  A   *)
(* read returns the oldest bytes; it returns none only when the queue is   *)
(* empty and the write end is closed.                                      *)
(***************************************************************************)
EXTENDS Integers, Sequences

CONSTANTS Reader, Byte, Size, MaxRead

VARIABLES queue,   \* bytes written and not yet read
          wopen,   \* the write end is open
          got      \* <<>> during a read, <<bytes>> once it has returned them

vars == <<queue, wopen, got>>

Init ==
  /\ queue = <<>>
  /\ wopen = TRUE
  /\ got = [r \in Reader |-> <<>>]

\* Bytes go in at the end, only while the write end is open.
Put ==
  /\ wopen
  /\ \E m \in 1..(Size - Len(queue)) : \E bs \in [1..m -> Byte] :
       queue' = queue \o bs
  /\ UNCHANGED <<wopen, got>>

\* A new read.
Ask(r) ==
  /\ got' = [got EXCEPT ![r] = <<>>]
  /\ UNCHANGED <<queue, wopen>>

Get(r, m) ==
  /\ m \in 1..Len(queue)
  /\ got' = [got EXCEPT ![r] = <<SubSeq(queue, 1, m)>>]
  /\ queue' = SubSeq(queue, m + 1, Len(queue))
  /\ UNCHANGED wopen

EndOfFile(r) ==
  /\ queue = <<>> /\ ~wopen
  /\ got' = [got EXCEPT ![r] = << <<>> >>]
  /\ UNCHANGED <<queue, wopen>>

CloseWrite ==
  /\ wopen' = FALSE
  /\ UNCHANGED <<queue, got>>

Next ==
  \/ Put
  \/ CloseWrite
  \/ \E r \in Reader : Ask(r) \/ EndOfFile(r) \/ \E m \in 1..MaxRead : Get(r, m)

Spec == Init /\ [][Next]_vars
=============================================================================
