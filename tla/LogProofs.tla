----------------------------- MODULE LogProofs ------------------------------
(***************************************************************************)
(* Proofs about log.c, for any number of processes, blocks and crashes.    *)
(***************************************************************************)
EXTENDS Log, FiniteSetTheorems, TLAPS

\* Time for the provers, and a second try for the first of them
USE SMTT(10), SMTT(30), ZenonT(30)

-----------------------------------------------------------------------------
(* The sizes *)

\* At least one operation fits in an empty log; the header and the disk have
\* room for Limit blocks, and what runs past them still lands on the disk.
LEMMA Sizes ==
  /\ Limit \in Nat /\ MaxOps \in Nat /\ Share \in Int
  /\ Limit <= LOGSIZE /\ Limit <= NLOG - 1 /\ 1 <= MaxOps
  /\ Share <= MAXOPBLOCKS /\ LOGSIZE - MAXOPBLOCKS + Share <= Limit
  /\ Limit + MaxOps - 1 \in Nat /\ Limit + MaxOps - 1 <= NLOG + NHOME - 1
<1>1. LOGSIZE \in Nat /\ MAXOPBLOCKS \in Nat /\ MAXOPBLOCKS > 0 /\ NLOG \in Nat /\ NLOG > 0
  BY LogConstants
<1>2. MaxOps \in Nat /\ 1 <= MaxOps
  BY <1>1, LogConstants DEF MaxOps
<1>3. MaxOps <= NHOME + 1 /\ NHOME \in Nat
  BY LogConstants DEF MaxOps
<1>4. Limit \in Nat /\ Limit <= LOGSIZE /\ Limit <= NLOG - 1
  BY <1>1 DEF Limit
<1>5. Share \in Int /\ Share <= MAXOPBLOCKS /\ LOGSIZE - MAXOPBLOCKS + Share <= Limit
  BY <1>1 DEF Share, Limit
<1> QED BY <1>1, <1>2, <1>3, <1>4, <1>5

\* The test of log_write() is that of the smaller of the two limits.
LEMMA TooBigIs ==
  ASSUME Len(lh) \in Nat
  PROVE  TooBig <=> Len(lh) >= Limit
BY LogConstants DEF TooBig, Limit

\* begin_op() lets in no more than MaxOps operations.
LEMMA OpsBound ==
  ASSUME NEW n \in Nat, n * MAXOPBLOCKS <= LOGSIZE
  PROVE  n <= MaxOps
BY LogConstants DEF MaxOps

-----------------------------------------------------------------------------
(* Finite sets. *)

\* The reservations are finitely many, at most MAXOPBLOCKS for each operation.
LEMMA ReservedBound ==
  ASSUME NEW A \in SUBSET Proc, NEW w
  PROVE  /\ IsFiniteSet(A) /\ IsFiniteSet(ReservedBy(A, w))
         /\ Cardinality(A) \in Nat /\ Cardinality(ReservedBy(A, w)) \in Nat
         /\ Cardinality(ReservedBy(A, w)) <= Cardinality(A) * MAXOPBLOCKS
<1>1. IsFiniteSet(A) /\ Cardinality(A) \in Nat
  BY LogConstants, FS_Subset, FS_CardinalityType
<1>2. IsFiniteSet(1..MAXOPBLOCKS) /\ Cardinality(1..MAXOPBLOCKS) = MAXOPBLOCKS
  BY LogConstants, FS_Interval
<1>3. /\ IsFiniteSet(A \X (1..MAXOPBLOCKS))
      /\ Cardinality(A \X (1..MAXOPBLOCKS)) = Cardinality(A) * MAXOPBLOCKS
  BY <1>1, <1>2, FS_Product, Zenon
<1>4. ReservedBy(A, w) \in SUBSET (A \X (1..MAXOPBLOCKS))
  BY DEF ReservedBy
<1>5. /\ IsFiniteSet(ReservedBy(A, w))
      /\ Cardinality(ReservedBy(A, w)) <= Cardinality(A) * MAXOPBLOCKS
  BY <1>3, <1>4, FS_Subset
<1> QED BY <1>1, <1>5, FS_CardinalityType

\* Fewer operations, or operations that have logged more, reserve no more.
LEMMA ReservedShrinks ==
  ASSUME NEW B \in SUBSET Proc, NEW A \in SUBSET B, NEW v, NEW w,
         \A p \in A : Cardinality(v[p]) \in Nat /\ Cardinality(w[p]) \in Nat
                    /\ Cardinality(v[p]) <= Cardinality(w[p])
  PROVE  Cardinality(ReservedBy(A, w)) <= Cardinality(ReservedBy(B, v))
<1>1. ReservedBy(A, w) \in SUBSET ReservedBy(B, v)
  <2> SUFFICES ASSUME NEW r \in ReservedBy(A, w) PROVE r \in ReservedBy(B, v)
    OBVIOUS
  <2>1. r \in A \X (1..MAXOPBLOCKS) /\ r[2] > Cardinality(w[r[1]])
    BY DEF ReservedBy
  <2>2. r[1] \in A /\ r[2] \in Int
    BY <2>1
  <2>3. r[2] > Cardinality(v[r[1]])
    BY <2>1, <2>2
  <2> QED BY <2>1, <2>3 DEF ReservedBy
<1>2. IsFiniteSet(ReservedBy(B, v))
  BY ReservedBound, Zenon
<1> QED BY <1>1, <1>2, FS_Subset

\* An operation that logs one more block uses up one reservation.
LEMMA ReservedUsed ==
  ASSUME NEW A \in SUBSET Proc, NEW v, NEW w, NEW p \in A,
         Cardinality(v[p]) \in Nat, Cardinality(v[p]) < MAXOPBLOCKS,
         Cardinality(w[p]) = Cardinality(v[p]) + 1,
         \A q \in A \ {p} : w[q] = v[q]
  PROVE  Cardinality(ReservedBy(A, w)) = Cardinality(ReservedBy(A, v)) - 1
<1> DEFINE x == <<p, Cardinality(v[p]) + 1>>
<1>1. x \in ReservedBy(A, v)
  BY LogConstants DEF ReservedBy
<1>2. ReservedBy(A, w) = ReservedBy(A, v) \ {x}
  <2>1. ASSUME NEW r \in A \X (1..MAXOPBLOCKS)
        PROVE  (r[2] > Cardinality(w[r[1]])) <=> (r[2] > Cardinality(v[r[1]]) /\ r # x)
    <3>1. r[1] \in A /\ r[2] \in Int /\ r = <<r[1], r[2]>>
      OBVIOUS
    <3>2. CASE r[1] = p
      BY <3>1, <3>2
    <3>3. CASE r[1] # p
      BY <3>1, <3>3
    <3> QED BY <3>2, <3>3
  <2> QED BY <2>1 DEF ReservedBy
<1>3. IsFiniteSet(ReservedBy(A, v))
  BY ReservedBound, Zenon
<1>4. Cardinality(ReservedBy(A, v) \ {x}) =
        IF x \in ReservedBy(A, v) THEN Cardinality(ReservedBy(A, v)) - 1
        ELSE Cardinality(ReservedBy(A, v))
  BY <1>3, FS_RemoveElement, Zenon
<1> QED BY <1>1, <1>2, <1>4

\* An open operation has what it has not used up of its reservation.
LEMMA ReservedLeft ==
  ASSUME NEW A \in SUBSET Proc, NEW w, NEW p \in A, NEW n \in Nat, n < MAXOPBLOCKS,
         Cardinality(w[p]) \in Nat, Cardinality(w[p]) <= n
  PROVE  MAXOPBLOCKS - n <= Cardinality(ReservedBy(A, w))
<1> DEFINE I == (n + 1)..MAXOPBLOCKS
<1>0. n + 1 \in Int /\ MAXOPBLOCKS \in Int
  BY LogConstants
<1>1. IsFiniteSet(I) /\ Cardinality(I) = MAXOPBLOCKS - n
  <2>1. /\ IsFiniteSet(I)
        /\ Cardinality(I) = IF n + 1 > MAXOPBLOCKS THEN 0 ELSE MAXOPBLOCKS - (n + 1) + 1
    BY <1>0, FS_Interval, Zenon
  <2> QED BY <1>0, <2>1
<1>2. IsFiniteSet({p}) /\ Cardinality({p}) = 1
  BY FS_Singleton, Zenon
<1>3. Cardinality({p} \X I) = 1 * (MAXOPBLOCKS - n)
  <2> HIDE DEF I
  <2>1. Cardinality({p} \X I) = Cardinality({p}) * Cardinality(I)
    BY <1>1, <1>2, FS_Product
  <2> QED BY <1>1, <1>2, <2>1, Zenon
<1>4. {p} \X I \in SUBSET ReservedBy(A, w)
  BY LogConstants DEF ReservedBy
<1>5. IsFiniteSet(ReservedBy(A, w))
  BY ReservedBound
<1> HIDE DEF I
<1>6. Cardinality({p} \X I) <= Cardinality(ReservedBy(A, w))
  BY <1>4, <1>5, FS_Subset
<1> QED BY <1>3, <1>6, LogConstants

-----------------------------------------------------------------------------
(* The inductive invariant holds initially. *)

\* With no operation open nothing is reserved.
LEMMA NothingReserved ==
  ASSUME NEW w
  PROVE  Cardinality({}) = 0 /\ Cardinality(ReservedBy({}, w)) = 0
<1>1. ReservedBy({}, w) = {}
  BY DEF ReservedBy
<1> QED BY <1>1, FS_EmptySet

\* The freshly made disk of the first boot satisfies the invariant.
LEMMA InitLInv ==
  ASSUME Init
  PROVE  LInv
<1> USE DEF Init
<1>1. Active = {}
  BY DEF Active
<1>2. Cardinality(Proc) \in Nat
  BY LogConstants, FS_CardinalityType
<1>3. TypeOK
  <2>1. disk \in [Addr -> Val] /\ cache \in [Home -> Val \cup {NoBuf}]
    BY LogConstants
  <2>2. pc \in [Proc -> Places] /\ held \in [Proc -> Home \cup {0}]
        /\ wrote \in [Proc -> SUBSET Home]
    BY DEF Places
  <2>3. dhead \in Seq(Home) /\ lh \in Seq(Home)
    OBVIOUS
  <2>4. /\ dirty \in SUBSET Home /\ outstanding \in 0..Cardinality(Proc) /\ tail \in Nat
        /\ crashes \in 0..MaxCrashes
    BY <1>2, LogConstants
  <2>5. /\ committing \in BOOLEAN /\ panicked \in Panics /\ boot \in {"read", "install", "erase", "up"}
        /\ greedy \in BOOLEAN /\ overrun \in BOOLEAN
    BY Zenon DEF Panics
  <2> HIDE DEF Init
  <2> QED BY <2>1, <2>2, <2>3, <2>4, <2>5 DEF TypeOK
<1>4. Control
  BY <1>1, NothingReserved DEF Control, Commit, NoLogPanic
<1>5. Space
  <2>1. Cardinality(ReservedBy(Active, wrote)) = 0 /\ Len(lh) = 0 /\ Len(dhead) = 0
    BY <1>1, NothingReserved
  <2>2. Appending = {} /\ Cardinality(Appending) = 0
    BY FS_EmptySet, Zenon DEF Appending
  <2>3. \A q \in Proc : pc[q] # "append"
    OBVIOUS
  <2>4. Bounded
    BY <1>1, <2>1, <2>2, <2>3, Sizes DEF Bounded
  <2>5. Thrifty
    BY <1>1, <2>1, <2>3, Sizes, LogConstants DEF Thrifty
  <2> QED BY <2>4, <2>5 DEF Space
<1> QED BY <1>3, <1>4, <1>5 DEF LInv, SpaceAccounting

-----------------------------------------------------------------------------
(* Every step preserves it: begin_op(). *)

\* begin_op() takes its reservation out of the free space it has tested.
LEMMA BeginOp ==
  ASSUME LInv, NEW p \in Proc, begin_op(p)
  PROVE  LInv'
<1> USE DEF LInv, SpaceAccounting
<1>1. /\ Active' = Active \cup {p} /\ p \notin Active
      /\ Active \in SUBSET Proc /\ Active' \in SUBSET Proc
  BY DEF begin_op, Active, TypeOK
<1>2. /\ IsFiniteSet(Active) /\ Cardinality(Active) \in Nat
      /\ Cardinality(Active') = Cardinality(Active) + 1
  BY <1>1, ReservedBound, FS_AddElement, Zenon
<1>3. Cardinality(Active') <= Cardinality(Proc) /\ Cardinality(Proc) \in Nat
  BY <1>1, LogConstants, FS_Subset, FS_CardinalityType
<1>4. outstanding' = Cardinality(Active')
  BY <1>2 DEF begin_op, Control
<1>5. TypeOK'
  BY <1>2, <1>3, <1>4 DEF begin_op, TypeOK, Places, diskVars, bufVars, sysVars, history
<1>6. Control'
  BY <1>1, <1>4 DEF begin_op, Control, Commit, TypeOK, Running, MustWait, sysVars, NoLogPanic
<1>8. /\ wrote[p] = {} /\ Logged' = Logged /\ lh' = lh /\ dhead' = dhead
      /\ UNCHANGED <<panicked, overrun, greedy, wrote>>
  BY <1>1 DEF begin_op, Logged, Space, Bounded, diskVars, sysVars, history
<1>9. IsFiniteSet({}) /\ Cardinality({}) = 0
  BY FS_EmptySet
<1>10. /\ \A q \in Proc : pc'[q] = "append" => q \in Active /\ held'[q] = held[q] /\ pc[q] = "append"
       /\ Appending' = Appending
  BY DEF begin_op, Active, Appending, TypeOK, bufVars
<1>11. Len(lh) \in Nat /\ Len(lh') + Cardinality(Active') * MAXOPBLOCKS <= LOGSIZE
  <2>1. /\ Len(lh) \in Nat /\ lh' = lh /\ outstanding = Cardinality(Active)
        /\ ~(Len(lh) + (outstanding + 1) * MAXOPBLOCKS > LOGSIZE)
    BY DEF begin_op, MustWait, TypeOK, Control
  <2>2. (outstanding + 1) * MAXOPBLOCKS \in Int
    BY <1>2, <2>1, LogConstants
  <2> QED BY <1>2, <2>1, <2>2, LogConstants
<1>12. Bounded'
  <2>1. Cardinality(Active') \in Nat /\ Cardinality(Active') * MAXOPBLOCKS \in Nat
    BY <1>2, LogConstants
  <2>2. Cardinality(Active') * MAXOPBLOCKS <= LOGSIZE
    BY <1>8, <1>11, <2>1, LogConstants
  <2>3. outstanding' <= MaxOps
    BY <1>4, <2>1, <2>2, OpsBound
  <2>4. \A q \in Proc : IF q \in Active' THEN wrote'[q] \subseteq Logged' /\ IsFiniteSet(wrote'[q])
                                         ELSE wrote'[q] = {}
    BY <1>1, <1>8, <1>9, Zenon DEF Space, Bounded
  <2>5. \A q \in Proc : pc'[q] = "append" => held'[q] \in Home
    BY <1>10 DEF Space, Bounded
  <2> QED BY <1>8, <1>10, <2>3, <2>4, <2>5, Zenon DEF Space, Bounded, Home, Limit, MaxOps
<1>13. ASSUME ~greedy PROVE Thrifty'
  <2>0. Thrifty
    BY <1>13 DEF Space
  <2>1. /\ Cardinality(ReservedBy(Active', wrote')) \in Nat
        /\ Cardinality(ReservedBy(Active', wrote')) <= Cardinality(Active') * MAXOPBLOCKS
    BY <1>1, ReservedBound
  <2>2. Len(lh') + Cardinality(ReservedBy(Active', wrote')) <= LOGSIZE
    <3>1. Cardinality(Active') * MAXOPBLOCKS \in Nat /\ LOGSIZE \in Nat
      BY <1>2, LogConstants
    <3> QED BY <1>8, <1>11, <2>1, <3>1
  <2>3. \A q \in Proc : pc'[q] = "append" => Cardinality(wrote'[q]) < Share
    BY <1>8, <1>10, <2>0 DEF Thrifty
  <2> QED BY <1>8, <2>0, <2>2, <2>3 DEF Thrifty
<1>14. Space'
  BY <1>8, <1>12, <1>13 DEF Space
<1> QED BY <1>5, <1>6, <1>14

\* A step that leaves the log and the open operations alone keeps Space.
LEMMA SpaceFrame ==
  ASSUME LInv, Active' = Active, Appending' = Appending,
         UNCHANGED <<lh, dhead, wrote, held, outstanding, panicked, greedy, overrun>>
  PROVE  Space'
<1>0. Logged' = Logged /\ \A q \in Proc : pc'[q] = "append" <=> pc[q] = "append"
  BY DEF Logged, Appending
<1>1. Bounded'
  <2>1. Bounded
    BY DEF LInv, SpaceAccounting, Space
  <2> QED BY <1>0, <2>1 DEF Bounded, Home, Limit, MaxOps
<1>2. ASSUME ~greedy PROVE Thrifty'
  <2>1. Thrifty
    BY <1>2 DEF LInv, SpaceAccounting, Space
  <2>2. ReservedBy(Active', wrote') = ReservedBy(Active, wrote)
    BY DEF ReservedBy
  <2> QED BY <1>0, <2>1, <2>2 DEF Thrifty, Limit, Share
<1> QED BY <1>1, <1>2 DEF Space

\* begin_op() going to sleep changes nothing of the log.
LEMMA BeginOpSleep ==
  ASSUME LInv, NEW p \in Proc, begin_op_sleep(p)
  PROVE  LInv'
<1> USE DEF LInv, SpaceAccounting
<1>1. Active' = Active /\ Appending' = Appending
  BY DEF begin_op_sleep, Active, Appending, TypeOK
<1>2. TypeOK'
  BY DEF begin_op_sleep, TypeOK, Places, diskVars, bufVars, logVars, sysVars, history
<1>3. Control'
  BY <1>1 DEF begin_op_sleep, Control, Commit, TypeOK, Running, logVars, sysVars, history, NoLogPanic
<1>4. Space'
  BY <1>1, SpaceFrame DEF begin_op_sleep, diskVars, bufVars, logVars, sysVars, history
<1> QED BY <1>2, <1>3, <1>4

-----------------------------------------------------------------------------
(* log_write() *)

\* The tests of log_write() panic only when an operation takes more than its
\* share: what the others have left of their reservations keeps the log below
\* both limits.
LEMMA LogWriteTest ==
  ASSUME LInv, NEW p \in Proc, NEW b \in Home, NEW v \in Val, log_write_test(p, b, v)
  PROVE  LInv'
<1> USE DEF LInv, SpaceAccounting
<1>1. Active' = Active /\ p \in Active /\ Active \in SUBSET Proc /\ pc'[p] = "append"
  BY Zenon DEF log_write_test, Active, TypeOK
<1>2. /\ UNCHANGED <<lh, dhead, wrote, outstanding, overrun, committing, boot>>
      /\ Logged' = Logged /\ panicked = "no" /\ Len(lh) \in Nat
  <2>1. Len(lh) \in Nat
    BY DEF TypeOK
  <2> QED BY <2>1, Zenon DEF log_write_test, diskVars, logVars, Running, Logged
<1>3. /\ Appending' = Appending \cup {p} /\ p \notin Appending /\ Appending' \subseteq Active
      /\ IsFiniteSet(Appending) /\ Cardinality(Appending) \in Nat
      /\ Cardinality(Appending') = Cardinality(Appending) + 1
      /\ Cardinality(Appending') <= Cardinality(Active)
  <2>1. Appending' = Appending \cup {p} /\ p \notin Appending
    BY Zenon DEF log_write_test, Appending, TypeOK
  <2>2. Appending \in SUBSET Proc /\ Appending' \subseteq Active
    BY <1>1, <2>1 DEF Appending, Active
  <2>3. IsFiniteSet(Appending) /\ Cardinality(Appending) \in Nat /\ IsFiniteSet(Active)
    BY <1>1, <2>2, ReservedBound, Zenon
  <2>4. Cardinality(Appending') = Cardinality(Appending) + 1
    BY <2>1, <2>3, FS_AddElement, Zenon
  <2>5. Cardinality(Appending') <= Cardinality(Active)
    BY <2>2, <2>3, FS_Subset
  <2> QED BY <2>1, <2>2, <2>3, <2>4, <2>5
<1>4. ~(outstanding < 1)
  <2>1. IsFiniteSet(Active) /\ Cardinality(Active) \in Nat /\ Active # {}
    BY <1>1, ReservedBound
  <2>2. Cardinality(Active) # 0
    BY <2>1, FS_EmptySet
  <2> QED BY <2>1, <2>2 DEF Control
<1>5. panicked' = IF Len(lh) >= Limit THEN "too big a transaction" ELSE "no"
  BY <1>2, <1>4, TooBigIs, Zenon DEF log_write_test
<1>6. ASSUME ~greedy' PROVE Thrifty /\ Cardinality(wrote[p]) < Share /\ Len(lh) < Limit
  <2>1. ~greedy /\ ~(Cardinality(wrote[p]) >= Share)
    BY <1>6, Zenon DEF log_write_test
  <2>2. Thrifty /\ IsFiniteSet(wrote[p])
    BY <1>1, <2>1 DEF Space, Bounded
  <2>3. Cardinality(wrote[p]) \in Nat
    BY <2>2, FS_CardinalityType
  <2>4. Cardinality(wrote[p]) < Share /\ Cardinality(wrote[p]) < MAXOPBLOCKS
    BY <2>1, <2>3, Sizes, LogConstants
  <2>5. /\ MAXOPBLOCKS - Cardinality(wrote[p]) <= Cardinality(ReservedBy(Active, wrote))
        /\ Cardinality(ReservedBy(Active, wrote)) \in Nat
    BY <1>1, <2>3, <2>4, ReservedLeft, ReservedBound
  <2>6. Len(lh) + Cardinality(ReservedBy(Active, wrote)) <= LOGSIZE
    BY <2>2 DEF Thrifty
  <2> QED BY <1>2, <2>2, <2>3, <2>4, <2>5, <2>6, Sizes, LogConstants
<1>7. TypeOK'
  <2>1. panicked' \in Panics /\ greedy' \in BOOLEAN
    BY <1>5, Zenon DEF Panics, log_write_test
  <2> QED BY <1>2, <2>1, Zenon DEF log_write_test, TypeOK, Places, diskVars, logVars
<1>8. Control'
  <2>1. NoLogPanic'
    <3>1. CASE Len(lh) >= Limit
      <4>1. greedy' = TRUE
        BY <1>2, <1>6, <1>7, <3>1, Sizes DEF TypeOK
      <4> QED BY <1>5, <3>1, <4>1, Zenon DEF NoLogPanic
    <3>2. CASE ~(Len(lh) >= Limit)
      BY <1>5, <3>2 DEF NoLogPanic
    <3> QED BY <3>1, <3>2
  <2> QED BY <1>1, <1>2, <2>1, Zenon DEF log_write_test, Control, Commit, TypeOK, Running
<1>9. \A q \in Proc : pc'[q] = "append" => held'[q] \in Home
  BY Zenon DEF log_write_test, TypeOK, Space, Bounded
<1>10. Bounded'
  <2>1. panicked' = "no" => Len(lh) + Cardinality(Appending') <= Limit + MaxOps - 1
    <3>1. panicked' = "no" => Len(lh) < Limit
      BY <1>2, <1>5, Sizes
    <3>2. Cardinality(Active) <= MaxOps
      BY DEF Control, Space, Bounded
    <3>3. Cardinality(Active) \in Nat
      BY <1>1, ReservedBound
    <3> QED BY <1>2, <1>3, <3>1, <3>2, <3>3, Sizes
  <2>2. Bounded
    BY DEF Space
  <2> QED BY <1>1, <1>2, <1>9, <2>1, <2>2 DEF Bounded, Home, Limit, MaxOps
<1>11. ASSUME ~greedy' PROVE Thrifty'
  <2>1. \A q \in Proc : pc'[q] = "append" => Cardinality(wrote[q]) < Share
    BY <1>6, <1>11, Zenon DEF log_write_test, TypeOK, Thrifty
  <2>2. ReservedBy(Active', wrote') = ReservedBy(Active, wrote)
    BY <1>1, <1>2 DEF ReservedBy
  <2> QED BY <1>2, <1>6, <1>11, <2>1, <2>2 DEF Thrifty, Limit, Share
<1> QED BY <1>7, <1>8, <1>10, <1>11 DEF Space

\* A block that log_write() appends uses up one reservation; an absorbed one
\* needs none.
LEMMA LogWriteAppend ==
  ASSUME LInv, NEW p \in Proc, log_write_append(p)
  PROVE  LInv'
<1> USE DEF LInv, SpaceAccounting
<1> DEFINE b == held[p]
<1>1. Active' = Active /\ p \in Active /\ Active \in SUBSET Proc
  BY DEF log_write_append, Active, TypeOK
<1>2. b \in Home /\ wrote[p] \subseteq Logged /\ IsFiniteSet(wrote[p])
  BY <1>1 DEF log_write_append, Space, Bounded
<1>3. /\ wrote' = [wrote EXCEPT ![p] = @ \cup {b}]
      /\ wrote'[p] = wrote[p] \cup {b}
      /\ \A q \in Proc \ {p} : wrote'[q] = wrote[q]
  BY <1>1 DEF log_write_append, TypeOK
<1>4. /\ IsFiniteSet(wrote'[p]) /\ Cardinality(wrote[p]) \in Nat
      /\ Cardinality(wrote'[p]) = IF b \in wrote[p] THEN Cardinality(wrote[p])
                                 ELSE Cardinality(wrote[p]) + 1
  <2>1. Cardinality(wrote[p]) \in Nat
    BY <1>2, FS_CardinalityType, Zenon
  <2>2. /\ IsFiniteSet(wrote[p] \cup {b})
        /\ Cardinality(wrote[p] \cup {b}) = IF b \in wrote[p] THEN Cardinality(wrote[p])
                                            ELSE Cardinality(wrote[p]) + 1
    BY <1>2, FS_AddElement
  <2> QED BY <1>3, <2>1, <2>2, Zenon
<1> HIDE DEF b
<1>5. /\ lh' \in Seq(Home) /\ Len(lh') = IF b \in Logged THEN Len(lh) ELSE Len(lh) + 1
      /\ Len(lh) \in Nat /\ Logged' = Logged \cup {b}
  <2>1. lh \in Seq(Home)
    BY DEF TypeOK
  <2>2. CASE b \in Logged
    BY <1>2, <2>1, <2>2 DEF log_write_append, Logged, b
  <2>3. CASE b \notin Logged
    <3>1. lh' = Append(lh, b)
      BY <2>3 DEF log_write_append, b
    <3>2. Logged' = Logged \cup {b}
      BY <1>2, <2>1, <3>1 DEF Logged
    <3> QED BY <1>2, <2>1, <2>3, <3>1, <3>2
  <2> QED BY <2>2, <2>3
<1>6. /\ UNCHANGED <<dhead, outstanding, panicked, greedy, boot, committing>> /\ panicked = "no"
      /\ overrun' = (overrun \/ Len(lh') > Limit)
  BY DEF log_write_append, diskVars, sysVars, Running
<1>7. \A q \in Proc : pc'[q] = "append" =>
        q # p /\ held'[q] = held[q] /\ wrote'[q] = wrote[q] /\ pc[q] = "append"
  BY <1>3 DEF log_write_append, TypeOK
<1>8. Bounded'
  <2>1. \A q \in Proc : IF q \in Active' THEN wrote'[q] \subseteq Logged' /\ IsFiniteSet(wrote'[q])
                                         ELSE wrote'[q] = {}
    BY <1>1, <1>2, <1>3, <1>4, <1>5, Zenon DEF Space, Bounded
  <2>2. \A q \in Proc : pc'[q] = "append" => held'[q] \in Home
    BY <1>7 DEF Space, Bounded
  <2>3. /\ Cardinality(Appending) \in Nat /\ Cardinality(Appending') \in Nat
        /\ Cardinality(Appending') = Cardinality(Appending) - 1
    <3>1. Appending' = Appending \ {p} /\ p \in Appending
      BY DEF log_write_append, Appending, TypeOK
    <3>2. Appending \in SUBSET Proc /\ Appending' \in SUBSET Proc
      BY DEF Appending
    <3>3. /\ IsFiniteSet(Appending) /\ Cardinality(Appending) \in Nat
          /\ Cardinality(Appending') \in Nat
      BY <3>2, ReservedBound, Zenon
    <3> QED BY <3>1, <3>3, FS_RemoveElement
  <2>4. Len(lh) + Cardinality(Appending) <= Limit + MaxOps - 1
    BY <1>6 DEF Space, Bounded
  <2>5. /\ Len(lh') \in Nat /\ Len(lh') <= Len(lh) + 1
        /\ Len(lh') + Cardinality(Appending') <= Limit + MaxOps - 1
        /\ Len(lh') <= Limit + MaxOps - 1
    BY <1>5, <2>3, <2>4, Sizes
  <2>6. overrun' \/ (Len(lh') <= Limit /\ Len(dhead') <= Limit)
    <3>1. CASE overrun \/ Len(lh') > Limit
      BY <1>6, <3>1, Zenon
    <3>2. CASE ~overrun /\ ~(Len(lh') > Limit)
      <4>1. Len(dhead) <= Limit
        BY <3>2, Zenon DEF Space, Bounded
      <4>2. Len(lh') <= Limit
        BY <2>5, <3>2, Sizes
      <4> QED BY <1>6, <4>1, <4>2
    <3> QED BY <3>1, <3>2
  <2>7. outstanding' <= MaxOps /\ Len(dhead') <= Limit + MaxOps - 1
    BY <1>6 DEF Space, Bounded
  <2> QED BY <2>1, <2>2, <2>5, <2>6, <2>7 DEF Bounded, Home, Limit, MaxOps
<1>9. ASSUME ~greedy PROVE Thrifty'
  <2>0. Thrifty /\ Cardinality(wrote[p]) < Share /\ Cardinality(wrote[p]) < MAXOPBLOCKS
    <3>1. Thrifty
      BY <1>9 DEF Space
    <3>2. Cardinality(wrote[p]) < Share
      BY <3>1 DEF Thrifty, log_write_append
    <3> QED BY <1>4, <3>1, <3>2, Sizes, LogConstants
  <2>1. /\ Cardinality(ReservedBy(Active, wrote)) \in Nat
        /\ Cardinality(ReservedBy(Active', wrote')) \in Nat
    BY <1>1, ReservedBound, Zenon
  <2>2. /\ Len(lh) + Cardinality(ReservedBy(Active, wrote)) <= LOGSIZE
        /\ Len(lh) <= Limit /\ Len(dhead) <= Limit
    BY <2>0 DEF Thrifty
  <2>3. /\ Len(lh') + Cardinality(ReservedBy(Active', wrote')) <= LOGSIZE
        /\ Len(lh') <= Limit
    <3>1. CASE b \in Logged
      <4>1. \A q \in Active : /\ Cardinality(wrote[q]) \in Nat
                              /\ Cardinality(wrote'[q]) \in Nat
                              /\ Cardinality(wrote[q]) <= Cardinality(wrote'[q])
        <5>1. \A q \in Active : Cardinality(wrote[q]) \in Nat
          BY <1>1, FS_CardinalityType DEF Space, Bounded
        <5>2. ASSUME NEW q \in Active, q # p PROVE wrote'[q] = wrote[q]
          BY <1>1, <1>3, <5>2
        <5>3. Cardinality(wrote'[p]) \in Nat /\ Cardinality(wrote[p]) <= Cardinality(wrote'[p])
          BY <1>4
        <5> QED BY <5>1, <5>2, <5>3
      <4>2. Cardinality(ReservedBy(Active, wrote')) <= Cardinality(ReservedBy(Active, wrote))
        BY <1>1, <4>1, ReservedShrinks
      <4> QED BY <1>1, <1>5, <2>1, <2>2, <3>1, <4>2, LogConstants
    <3>2. CASE b \notin Logged
      <4>1. Cardinality(wrote'[p]) = Cardinality(wrote[p]) + 1
        BY <1>2, <1>4, <3>2
      <4>2. Cardinality(ReservedBy(Active, wrote')) = Cardinality(ReservedBy(Active, wrote)) - 1
        BY <1>1, <1>3, <1>4, <2>0, <4>1, ReservedUsed, ZenonT(60)
      <4>3. MAXOPBLOCKS - Cardinality(wrote[p]) <= Cardinality(ReservedBy(Active, wrote))
        BY <1>1, <1>4, <2>0, ReservedLeft
      <4>4. Len(lh') = Len(lh) + 1 /\ Len(lh) \in Nat /\ Cardinality(wrote[p]) \in Nat
        BY <1>4, <1>5, <3>2
      <4>5. Len(lh') <= Limit
        <5> HIDE DEF LInv
        <5>1. Len(lh) + (MAXOPBLOCKS - Cardinality(wrote[p])) <= LOGSIZE
          BY <2>1, <2>2, <4>3, <4>4, LogConstants
        <5> QED BY <2>0, <4>4, <5>1, Sizes, LogConstants
      <4>6. Len(lh') + Cardinality(ReservedBy(Active', wrote')) <= LOGSIZE
        BY <1>1, <2>1, <2>2, <4>2, <4>4, LogConstants
      <4> QED BY <4>5, <4>6
    <3> QED BY <3>1, <3>2
  <2>4. \A q \in Proc : pc'[q] = "append" => Cardinality(wrote'[q]) < Share
    BY <1>7, <2>0 DEF Thrifty
  <2> QED BY <1>6, <2>2, <2>3, <2>4 DEF Thrifty, Limit, Share
<1>10. TypeOK'
  <2>1. wrote' \in [Proc -> SUBSET Home]
    BY <1>2, <1>3 DEF TypeOK
  <2>2. overrun' \in BOOLEAN /\ greedy' \in BOOLEAN /\ panicked' \in Panics
    BY <1>6, Zenon DEF TypeOK
  <2> QED BY <1>2, <1>5, <2>1, <2>2 DEF log_write_append, TypeOK, Places, diskVars, sysVars
<1>11. Control'
  <2>1. /\ pc[p] = "append" /\ pc'[p] = "op" /\ tail' = tail /\ boot = "up"
        /\ \A q \in Proc \ {p} : pc'[q] = pc[q]
    BY DEF log_write_append, TypeOK, Running
  <2>2. Active # {} /\ ~committing
    BY <1>1 DEF Control
  <2>3. \A q \in Proc : ~Commit(q) /\ ~Commit(q)'
    BY <2>1, <2>2 DEF Control, Commit
  <2>4. \A q \in Proc : pc'[q] \notin {"write_log", "install", "write_head", "done"}
    BY <2>3 DEF Commit
  <2> QED BY <1>1, <1>6, <2>1, <2>2, <2>3, <2>4, Zenon DEF Control, NoLogPanic
<1> QED BY <1>6, <1>8, <1>9, <1>10, <1>11 DEF Space

-----------------------------------------------------------------------------
(* end_op() *)

\* end_op() with other operations open gives its reservation back.
LEMMA EndOp ==
  ASSUME LInv, NEW p \in Proc, end_op(p)
  PROVE  LInv'
<1> USE DEF LInv, SpaceAccounting
<1>1. /\ Active' = Active \ {p} /\ p \in Active
      /\ Active \in SUBSET Proc /\ Active' \in SUBSET Proc
  BY DEF end_op, Active, TypeOK, wakeup
<1>2. /\ IsFiniteSet(Active) /\ Cardinality(Active) \in Nat
      /\ Cardinality(Active') = Cardinality(Active) - 1
  <2>1. IsFiniteSet(Active) /\ Cardinality(Active) \in Nat
    BY <1>1, ReservedBound, Zenon
  <2> QED BY <1>1, <2>1, FS_RemoveElement
<1>3. /\ outstanding' = Cardinality(Active') /\ Active' # {}
      /\ outstanding' \in 0..Cardinality(Proc) /\ ~committing
  <2>1. Cardinality(Active') \in Nat /\ Cardinality(Active') <= Cardinality(Proc)
        /\ Cardinality(Proc) \in Nat
    BY <1>1, LogConstants, FS_Subset, FS_CardinalityType
  <2>2. outstanding' = Cardinality(Active') /\ Cardinality(Active') # 0
    BY <1>2 DEF end_op, Control
  <2>3. Active' # {}
    BY <2>2, FS_EmptySet
  <2> QED BY <1>1, <2>1, <2>2, <2>3 DEF Control
<1>4. /\ UNCHANGED <<lh, dhead, held, boot, committing, greedy, overrun>> /\ Logged' = Logged
      /\ panicked = "no" /\ panicked' = "no"
      /\ \A q \in Proc : pc'[q] = "append" => pc[q] = "append" /\ q # p
      /\ wrote'[p] = {} /\ \A q \in Proc \ {p} : wrote'[q] = wrote[q]
  BY <1>3 DEF end_op, bufVars, diskVars, history, Logged, Running, TypeOK, wakeup
<1>5. TypeOK'
  <2>1. pc' \in [Proc -> Places] /\ wrote' \in [Proc -> SUBSET Home]
    BY DEF end_op, TypeOK, Places, wakeup
  <2>2. panicked' \in Panics
    BY <1>4 DEF Panics
  <2> QED BY <1>3, <1>4, <2>1, <2>2, Zenon DEF end_op, TypeOK, diskVars, bufVars
<1>6. Control'
  BY <1>1, <1>3, <1>4 DEF end_op, Control, Commit, TypeOK, Running, wakeup, NoLogPanic
<1>7. Bounded'
  <2>1. Appending' = Appending
    BY DEF end_op, Appending, TypeOK, wakeup
  <2>2. outstanding' <= MaxOps
    BY <1>2, <1>3, Sizes DEF Control, Space, Bounded
  <2>3. \A q \in Proc : IF q \in Active' THEN wrote'[q] \subseteq Logged' /\ IsFiniteSet(wrote'[q])
                                         ELSE wrote'[q] = {}
    BY <1>1, <1>4 DEF Space, Bounded
  <2>4. Bounded
    BY DEF Space
  <2>5. \A q \in Proc : pc'[q] = "append" => held'[q] \in Home
    BY <1>4, <2>4, Zenon DEF Bounded
  <2> QED BY <1>4, <2>1, <2>2, <2>3, <2>4, <2>5, Zenon DEF Bounded, Home, Limit, MaxOps
<1>8. ASSUME ~greedy PROVE Thrifty'
  <2>0. Thrifty /\ Bounded
    BY <1>8 DEF Space
  <2>1. \A q \in Active' : Cardinality(wrote[q]) \in Nat /\ wrote'[q] = wrote[q]
    BY <1>1, <1>4, <2>0, FS_CardinalityType DEF Bounded
  <2>2. Cardinality(ReservedBy(Active', wrote')) <= Cardinality(ReservedBy(Active, wrote))
    <3>1. \A q \in Active' : /\ Cardinality(wrote[q]) \in Nat /\ Cardinality(wrote'[q]) \in Nat
                             /\ Cardinality(wrote[q]) <= Cardinality(wrote'[q])
      BY <2>1
    <3> QED BY <1>1, <3>1, ReservedShrinks
  <2>3. /\ Cardinality(ReservedBy(Active', wrote')) \in Nat
        /\ Cardinality(ReservedBy(Active, wrote)) \in Nat
    BY <1>1, ReservedBound
  <2>4. Len(lh) \in Nat /\ Len(lh) + Cardinality(ReservedBy(Active, wrote)) <= LOGSIZE
    BY <2>0 DEF TypeOK, Thrifty
  <2>5. Len(lh') + Cardinality(ReservedBy(Active', wrote')) <= LOGSIZE
    BY <1>4, <2>2, <2>3, <2>4, LogConstants
  <2>6. \A q \in Proc : pc'[q] = "append" => Cardinality(wrote'[q]) < Share
    BY <1>4, <2>0 DEF Thrifty
  <2> QED BY <1>4, <2>0, <2>5, <2>6 DEF Thrifty, Limit, Share
<1> QED BY <1>4, <1>5, <1>6, <1>7, <1>8 DEF Space

\* A step after which no operation is open, with a log that fits.
LEMMA SpaceWhenIdle ==
  ASSUME LInv, Active' = {}, outstanding' = 0, \A q \in Proc : wrote'[q] = {},
         UNCHANGED <<greedy, overrun>>, lh' \in Seq(Home), dhead' \in Seq(Home),
         Len(lh') <= Len(lh) \/ Len(lh') <= Len(dhead),
         Len(dhead') <= Len(dhead) \/ Len(dhead') <= Len(lh)
  PROVE  Space'
<1> USE DEF LInv, SpaceAccounting
<1>1. Cardinality(ReservedBy(Active', wrote')) = 0
  BY NothingReserved
<1>2. \A q \in Proc : pc'[q] # "append"
  BY DEF Active
<1>3. Appending' = {} /\ Cardinality(Appending') = 0
  BY <1>2, FS_EmptySet, Zenon DEF Appending
<1>4. /\ Len(lh) \in Nat /\ Len(dhead) \in Nat
      /\ Len(lh') \in Nat /\ Len(dhead') \in Nat
  BY DEF TypeOK
<1>5. Bounded'
  <2>1. Bounded
    BY DEF Space
  <2>2. Len(lh') <= Limit + MaxOps - 1 /\ Len(dhead') <= Limit + MaxOps - 1
    BY <1>4, <2>1, Sizes DEF Bounded
  <2>3. overrun' \/ (Len(lh') <= Limit /\ Len(dhead') <= Limit)
    <3>1. CASE overrun
      BY <3>1
    <3>2. CASE ~overrun
      <4>1. Len(lh) <= Limit /\ Len(dhead) <= Limit
        BY <2>1, <3>2, Zenon DEF Bounded
      <4> QED BY <1>4, <4>1, Sizes
    <3> QED BY <3>1, <3>2
  <2>4. 0 <= MaxOps /\ Len(lh') + 0 <= Limit + MaxOps - 1
    BY <1>4, <2>2, Sizes
  <2> QED BY <1>2, <1>3, <2>2, <2>3, <2>4 DEF Bounded, Limit, MaxOps
<1>6. ASSUME ~greedy PROVE Thrifty'
  <2>1. Len(lh) <= Limit /\ Len(dhead) <= Limit
    BY <1>6 DEF Space, Thrifty
  <2>2. Len(lh') <= Limit /\ Len(dhead') <= Limit /\ Len(lh') + 0 <= LOGSIZE
    BY <1>4, <2>1, Sizes, LogConstants
  <2> QED BY <1>1, <1>2, <2>2 DEF Thrifty, Limit
<1> QED BY <1>5, <1>6 DEF Space

\* Erasing the header, in memory and on disk, with no operation open.
LEMMA SpaceEmptied ==
  ASSUME LInv, Active' = {}, outstanding' = 0, \A q \in Proc : wrote'[q] = {},
         lh' = <<>>, dhead' = <<>>
  PROVE  Space'
<1>1. Cardinality(ReservedBy(Active', wrote')) = 0 /\ Len(lh') = 0 /\ Len(dhead') = 0
  BY NothingReserved
<1>2. \A q \in Proc : pc'[q] # "append"
  BY DEF Active
<1>3. Appending' = {} /\ Cardinality(Appending') = 0
  BY <1>2, FS_EmptySet, Zenon DEF Appending
<1>4. Bounded'
  <2>1. 0 <= Limit /\ 0 <= Limit + MaxOps - 1 /\ 0 + 0 <= Limit + MaxOps - 1 /\ 0 <= MaxOps
    BY Sizes
  <2> QED BY <1>1, <1>2, <1>3, <2>1 DEF Bounded, Limit, MaxOps
<1>5. Thrifty'
  <2>1. 0 + 0 <= LOGSIZE /\ 0 <= Limit
    BY Sizes, LogConstants
  <2> QED BY <1>1, <1>2, <2>1 DEF Thrifty, Limit
<1> QED BY <1>4, <1>5 DEF Space

\* With no operation open the counters are back to nothing.
LEMMA IdleCounters ==
  ASSUME LInv, Active = {}
  PROVE  outstanding = 0 /\ Appending = {} /\ \A q \in Proc : wrote[q] = {}
<1>1. outstanding = 0
  BY FS_EmptySet DEF LInv, SpaceAccounting, Control
<1> QED BY <1>1 DEF LInv, SpaceAccounting, Space, Bounded, Active, Appending

\* The last end_op() makes its caller the only committer.
LEMMA EndOpLast ==
  ASSUME LInv, NEW p \in Proc, end_op_last(p)
  PROVE  LInv'
<1> USE DEF LInv, SpaceAccounting
<1>1. p \in Active /\ Active \in SUBSET Proc /\ IsFiniteSet(Active) /\ Cardinality(Active) = 1
  <2>1. p \in Active /\ Active \in SUBSET Proc /\ Cardinality(Active) = 1
    BY DEF end_op_last, Active, Control
  <2> QED BY <2>1, ReservedBound
<1>2. Active = {p}
  BY <1>1, FS_Singleton
<1>3. Active' = {} /\ ~committing /\ \A q \in Proc : ~Commit(q)
  BY <1>2 DEF end_op_last, Active, TypeOK, Control, Commit
<1>4. /\ UNCHANGED <<lh, dhead, held, boot, greedy, overrun>> /\ outstanding' = 0
      /\ panicked = "no" /\ panicked' = "no" /\ \A q \in Proc : wrote'[q] = {}
      /\ lh \in Seq(Home) /\ dhead \in Seq(Home)
  <2>1. wrote'[p] = {} /\ \A q \in Proc \ {p} : wrote'[q] = wrote[q] /\ wrote[q] = {}
    BY <1>2 DEF end_op_last, TypeOK, Space, Bounded
  <2> QED BY <1>3, <2>1 DEF end_op_last, bufVars, diskVars, history, Running, TypeOK
<1>5. TypeOK'
  <2>1. pc' \in [Proc -> Places] /\ wrote' \in [Proc -> SUBSET Home]
    BY DEF end_op_last, TypeOK, Places
  <2>2. outstanding' \in 0..Cardinality(Proc) /\ panicked' \in Panics
    <3>1. Cardinality(Proc) \in Nat
      BY LogConstants, FS_CardinalityType
    <3> QED BY <1>4, <3>1 DEF Panics
  <2> QED BY <1>3, <1>4, <2>1, <2>2 DEF end_op_last, TypeOK, diskVars, bufVars
<1>6. Control'
  <2>1. outstanding' = Cardinality(Active')
    BY <1>3, FS_EmptySet DEF end_op_last
  <2>2. lh # <<>> => 1 \in 1..Len(lh)
    BY DEF TypeOK
  <2> QED BY <1>3, <1>4, <2>1, <2>2 DEF end_op_last, Control, Commit, TypeOK, Running, NoLogPanic
<1>7. Space'
  <2>1. Len(lh) <= Len(lh) /\ Len(dhead) <= Len(dhead)
    BY <1>4
  <2> QED BY <1>3, <1>4, <2>1, SpaceWhenIdle DEF Home
<1> QED BY <1>5, <1>6, <1>7

-----------------------------------------------------------------------------
(* commit() and what it shares with recovery *)

\* During a commit no operation is open and there is no other committer.
LEMMA CommitAlone ==
  ASSUME LInv, NEW p \in Proc, Commit(p)
  PROVE  /\ Active = {} /\ committing /\ boot = "up"
         /\ \A q \in Proc \ {p} : ~Commit(q)
BY DEF LInv, SpaceAccounting, Control, Commit

\* Log blocks and blocks listed in the header are blocks of the disk, and what
\* bread() returns of them is a block's contents.
LEMMA ReadTyped ==
  ASSUME LInv, tail \in 1..Len(lh)
  PROVE  /\ lh[tail] \in Home /\ tail \in Addr
         /\ bread(lh[tail]) \in Val /\ bread(tail) \in Val
<1> USE DEF LInv, SpaceAccounting
<1>1. lh[tail] \in Home /\ lh[tail] \in Addr
  BY LogConstants DEF TypeOK, Home, Addr
<1>2. tail \in Addr
  BY LogConstants, Sizes DEF TypeOK, Space, Bounded, Addr
<1>3. \A x \in Addr : disk[x] \in Val
  BY DEF TypeOK
<1>4. \A x \in Home : cache[x] # NoBuf => cache[x] \in Val
  BY DEF TypeOK
<1> QED BY <1>1, <1>2, <1>3, <1>4, Zenon DEF bread

\* bwrite() keeps the types.
LEMMA WriteTyped ==
  ASSUME TypeOK, NEW x \in Addr, NEW v \in Val, bwrite(x, v)
  PROVE  /\ disk' \in [Addr -> Val] /\ cache' \in [Home -> Val \cup {NoBuf}]
         /\ dirty' \in SUBSET Home
BY DEF TypeOK, bwrite

\* A step of a commit that moves no process into or out of an operation.
LEMMA StaysIdle ==
  ASSUME TypeOK, NEW p \in Proc, Active = {}, NEW l \in Places \ {"op", "append"},
         pc' = [pc EXCEPT ![p] = l] \/ pc' = wakeup([pc EXCEPT ![p] = l])
  PROVE  Active' = {} /\ pc' \in [Proc -> Places]
BY Zenon DEF TypeOK, Active, Places, wakeup

\* write_log() writes inside the log area and stops at the last entry.
LEMMA WriteLog ==
  ASSUME LInv, NEW p \in Proc, write_log(p)
  PROVE  LInv'
<1> USE DEF LInv, SpaceAccounting
<1>1. /\ Active = {} /\ committing /\ boot = "up" /\ panicked = "no"
      /\ \A q \in Proc \ {p} : ~Commit(q)
  BY CommitAlone DEF write_log, Commit, Control, Running
<1>2. tail \in 1..Len(lh) /\ Len(lh) \in Nat
  BY DEF write_log, Control, TypeOK
<1>3. Active' = {} /\ pc' \in [Proc -> Places]
  <2>1. pc[p] = "write_log" /\ pc \in [Proc -> Places]
    BY DEF write_log, TypeOK
  <2>2. pc' = [pc EXCEPT ![p] = IF tail = Len(lh) THEN "write_head" ELSE "write_log"]
    BY <2>1 DEF write_log
  <2>3. (IF tail = Len(lh) THEN "write_head" ELSE "write_log") \in Places \ {"op", "append"}
    BY DEF Places
  <2> QED BY <1>1, <2>2, <2>3, StaysIdle, Zenon
<1>4. TypeOK'
  <2>1. tail \in Addr /\ bread(lh[tail]) \in Val
    BY <1>2, ReadTyped
  <2>2. /\ disk' \in [Addr -> Val] /\ cache' \in [Home -> Val \cup {NoBuf}]
        /\ dirty' \in SUBSET Home
    BY <2>1, WriteTyped DEF write_log
  <2> QED BY <1>3, <2>2 DEF write_log, TypeOK, logVars, sysVars, history
<1>5. Control'
  <2>1. /\ UNCHANGED <<lh, outstanding, committing, boot, panicked, greedy>>
        /\ \A q \in Proc \ {p} : pc'[q] = pc[q]
    BY DEF write_log, logVars, sysVars, history, TypeOK
  <2>2. /\ pc[p] = "write_log" /\ pc'[p] \in {"write_log", "write_head"}
        /\ pc'[p] = "write_log" => tail' \in 1..Len(lh)
    BY <1>2 DEF write_log, install_block, TypeOK
  <2>3. \A q \in Proc : Commit(q)' <=> Commit(q)
    BY <2>1, <2>2, Zenon DEF Commit
  <2>4. \A q \in Proc \ {p} : pc'[q] \notin {"write_log", "install", "write_head", "done"}
    BY <1>1, <2>1 DEF Commit
  <2>5. lh # <<>>
    BY <1>2
  <2> QED BY <1>1, <1>3, <2>1, <2>2, <2>3, <2>4, <2>5, Zenon DEF Control, NoLogPanic
<1>6. Space'
  BY <1>1, <1>3, SpaceFrame DEF write_log, logVars, sysVars, history, Active, Appending
<1> QED BY <1>4, <1>5, <1>6

\* write_head() puts a header on disk that recovery can read back.
LEMMA WriteHead ==
  ASSUME LInv, NEW p \in Proc, write_head(p)
  PROVE  LInv'
<1> USE DEF LInv, SpaceAccounting
<1>1. /\ Active = {} /\ committing /\ boot = "up" /\ panicked = "no"
      /\ \A q \in Proc \ {p} : ~Commit(q)
  BY CommitAlone DEF write_head, Commit, Control, Running
<1>2. Active' = {} /\ pc' \in [Proc -> Places]
  BY <1>1, StaysIdle, Zenon DEF write_head, Places
<1>3. 1 \in 1..Len(lh) /\ lh \in Seq(Home) /\ Len(lh) \in Nat
  BY DEF write_head, Control, TypeOK
<1>4. TypeOK'
  BY <1>2, <1>3, Zenon DEF write_head, TypeOK, bufVars, logVars, sysVars, history
<1>5. Control'
  BY <1>1, <1>2, <1>3 DEF write_head, Control, Commit, TypeOK, logVars, sysVars, history, NoLogPanic
<1>6. Space'
  <2>1. lh' = lh /\ dhead' = lh /\ UNCHANGED <<wrote, outstanding, greedy, overrun>>
    BY DEF write_head, logVars, history
  <2>2. outstanding = 0 /\ \A q \in Proc : wrote[q] = {}
    BY <1>1, IdleCounters
  <2> QED BY <1>2, <1>3, <2>1, <2>2, SpaceWhenIdle DEF Home
<1> QED BY <1>4, <1>5, <1>6

\* install_trans() writes a block of the header.
LEMMA InstallTyped ==
  ASSUME LInv, tail \in 1..Len(lh), install_block
  PROVE  /\ disk' \in [Addr -> Val] /\ cache' \in [Home -> Val \cup {NoBuf}]
         /\ dirty' \in SUBSET Home /\ tail' \in Nat
<1>1. lh[tail] \in Addr /\ bread(tail) \in Val /\ tail \in Nat
  BY ReadTyped, LogConstants DEF Home, Addr
<1> QED BY <1>1, WriteTyped DEF install_block, LInv

\* install_trans() in commit() stops at the last entry.
LEMMA InstallTrans ==
  ASSUME LInv, NEW p \in Proc, install_trans(p)
  PROVE  LInv'
<1> USE DEF LInv, SpaceAccounting
<1>1. /\ Active = {} /\ committing /\ boot = "up" /\ panicked = "no"
      /\ \A q \in Proc \ {p} : ~Commit(q)
  BY CommitAlone DEF install_trans, Commit, Control, Running
<1>2. tail \in 1..Len(lh) /\ Len(lh) \in Nat /\ tail' = tail + 1
  BY DEF install_trans, install_block, Control, TypeOK
<1>3. Active' = {} /\ pc' \in [Proc -> Places]
  <2>1. pc' = [pc EXCEPT ![p] = IF tail = Len(lh) THEN "erase" ELSE "install"]
    BY DEF install_trans, TypeOK
  <2>2. (IF tail = Len(lh) THEN "erase" ELSE "install") \in Places \ {"op", "append"}
    BY DEF Places
  <2> QED BY <1>1, <2>1, <2>2, StaysIdle, Zenon
<1>4. TypeOK'
  <2>1. /\ disk' \in [Addr -> Val] /\ cache' \in [Home -> Val \cup {NoBuf}]
        /\ dirty' \in SUBSET Home /\ tail' \in Nat
    BY <1>2, InstallTyped DEF install_trans
  <2> QED BY <1>3, <2>1, Zenon DEF install_trans, TypeOK, logVars, sysVars, history
<1>5. Control'
  <2>1. /\ UNCHANGED <<lh, outstanding, committing, boot, panicked, greedy>>
        /\ \A q \in Proc \ {p} : pc'[q] = pc[q]
    BY DEF install_trans, logVars, sysVars, history, TypeOK
  <2>2. /\ pc[p] = "install" /\ pc'[p] \in {"install", "erase"}
        /\ pc'[p] = "install" => tail' \in 1..Len(lh)
    BY <1>2 DEF install_trans, install_block, TypeOK
  <2>3. \A q \in Proc : Commit(q)' <=> Commit(q)
    BY <2>1, <2>2, Zenon DEF Commit
  <2>4. \A q \in Proc \ {p} : pc'[q] \notin {"write_log", "install", "write_head", "done"}
    BY <1>1, <2>1 DEF Commit
  <2>5. lh # <<>>
    BY <1>2
  <2> QED BY <1>1, <1>3, <2>1, <2>2, <2>3, <2>4, <2>5, Zenon DEF Control, NoLogPanic
<1>6. Space'
  BY <1>1, <1>3, SpaceFrame DEF install_trans, logVars, sysVars, history, Active, Appending
<1> QED BY <1>4, <1>5, <1>6

\* Erasing the header at the end of commit().
LEMMA CommitErase ==
  ASSUME LInv, NEW p \in Proc, commit_erase(p)
  PROVE  LInv'
<1> USE DEF LInv, SpaceAccounting
<1>1. /\ Active = {} /\ committing /\ boot = "up" /\ panicked = "no"
      /\ \A q \in Proc \ {p} : ~Commit(q)
  BY CommitAlone DEF commit_erase, Commit, Control, Running
<1>2. Active' = {} /\ pc' \in [Proc -> Places]
  BY <1>1, StaysIdle, Zenon DEF commit_erase, Places
<1>3. lh' = <<>> /\ dhead' = <<>>
  BY DEF commit_erase, erase_head
<1>4. TypeOK'
  <2>1. UNCHANGED <<disk, cache, dirty, held, outstanding, committing, wrote, boot,
                    panicked, crashes, overrun>> /\ greedy' \in BOOLEAN
    BY Zenon DEF commit_erase, erase_head, bufVars, sysVars
  <2>2. lh' \in Seq(Home) /\ dhead' \in Seq(Home) /\ tail' \in Nat
    BY <1>3 DEF commit_erase
  <2> QED BY <1>2, <2>1, <2>2, Zenon DEF TypeOK
<1>5. Control'
  BY <1>1, <1>2, <1>3, Zenon DEF commit_erase, Control, Commit, TypeOK, sysVars, NoLogPanic
<1>6. Space'
  <2>1. outstanding = 0 /\ \A q \in Proc : wrote[q] = {}
    BY <1>1, IdleCounters
  <2> QED BY <1>2, <1>3, <2>1, SpaceEmptied DEF commit_erase
<1> QED BY <1>4, <1>5, <1>6

\* The end of end_op() lets new operations in again.
LEMMA EndOpFinish ==
  ASSUME LInv, NEW p \in Proc, end_op_finish(p)
  PROVE  LInv'
<1> USE DEF LInv, SpaceAccounting
<1>1. /\ Active = {} /\ committing /\ boot = "up" /\ panicked = "no" /\ lh = <<>>
      /\ \A q \in Proc \ {p} : ~Commit(q)
  BY CommitAlone DEF end_op_finish, Commit, Control, Running
<1>2. Active' = {} /\ pc' \in [Proc -> Places]
  BY <1>1, StaysIdle, Zenon DEF end_op_finish, Places
<1>3. \A q \in Proc : ~Commit(q)'
  BY <1>1 DEF end_op_finish, Commit, TypeOK, wakeup
<1>4. TypeOK'
  BY <1>2, Zenon DEF end_op_finish, TypeOK, bufVars, diskVars, sysVars, history
<1>5. Control'
  <2>1. \A q \in Proc : pc'[q] \notin {"write_log", "install", "write_head", "done"}
    BY <1>3 DEF Commit
  <2> QED BY <1>1, <1>2, <1>3, <2>1, Zenon DEF end_op_finish, Control, sysVars, NoLogPanic
<1>6. Space'
  <2>1. Appending' = Appending
    BY <1>1, <1>2 DEF Active, Appending
  <2> QED BY <1>1, <1>2, <2>1, SpaceFrame, Zenon DEF end_op_finish, bufVars, diskVars, sysVars, history
<1> QED BY <1>4, <1>5, <1>6

-----------------------------------------------------------------------------
(* The buffer cache, crashes and recovery *)

\* bget() recycling a buffer changes nothing of the log.
LEMMA RecycleStep ==
  ASSUME LInv, NEW b \in Home, Recycle(b)
  PROVE  LInv'
<1> USE DEF LInv, SpaceAccounting
<1>1. /\ UNCHANGED <<diskVars, dirty, held, logVars, pc, wrote, tail, sysVars, history>>
      /\ Active' = Active /\ Appending' = Appending
  BY DEF Recycle, Active, Appending
<1>2. TypeOK'
  BY <1>1 DEF Recycle, TypeOK, diskVars, logVars, sysVars, history
<1>3. Control'
  BY <1>1, Zenon DEF Control, Commit, logVars, sysVars, history, NoLogPanic
<1>4. Space'
  BY <1>1, SpaceFrame DEF logVars, diskVars, sysVars, history
<1> QED BY <1>2, <1>3, <1>4

\* A crash loses the memory and keeps a header that fits.
LEMMA CrashStep ==
  ASSUME LInv, Crash
  PROVE  LInv'
<1> USE DEF LInv, SpaceAccounting
<1>1. Active' = {}
  BY DEF Crash, Active
<1>2. lh' = <<>> /\ dhead' = dhead /\ lh' \in Seq(Home) /\ dhead \in Seq(Home)
  BY DEF Crash, diskVars, TypeOK
<1>3. TypeOK'
  <2>1. 0 \in 0..Cardinality(Proc)
    BY LogConstants, FS_CardinalityType
  <2>2. crashes' \in 0..MaxCrashes
    BY LogConstants DEF Crash, TypeOK
  <2>3. /\ pc' \in [Proc -> Places] /\ held' \in [Proc -> Home \cup {0}]
        /\ wrote' \in [Proc -> SUBSET Home] /\ cache' \in [Home -> Val \cup {NoBuf}]
        /\ dirty' \in SUBSET Home
    BY DEF Crash, Places
  <2>4. panicked' \in Panics /\ UNCHANGED <<greedy, overrun>>
    BY DEF Crash, Panics, history
  <2> QED BY <1>2, <2>1, <2>2, <2>3, <2>4, Zenon DEF Crash, TypeOK, diskVars
<1>4. Control'
  BY <1>1, FS_EmptySet, Zenon DEF Crash, Control, Commit, NoLogPanic
<1>5. Space'
  <2>1. Len(lh') = 0 /\ Len(dhead) \in Nat
    BY <1>2
  <2>2. outstanding' = 0 /\ UNCHANGED <<greedy, overrun>> /\ \A q \in Proc : wrote'[q] = {}
    BY DEF Crash, history
  <2> QED BY <1>1, <1>2, <2>1, <2>2, SpaceWhenIdle DEF Home
<1> QED BY <1>3, <1>4, <1>5

\* read_head() at boot reads a header that fits in struct logheader.
LEMMA ReadHead ==
  ASSUME LInv, read_head
  PROVE  LInv'
<1> USE DEF LInv, SpaceAccounting
<1>1. Active' = {} /\ Active = {} /\ \A q \in Proc : pc[q] = "idle" /\ pc'[q] = "idle"
  BY DEF read_head, Active, Control
<1>2. lh' = dhead /\ dhead' = dhead /\ dhead \in Seq(Home) /\ Len(dhead) \in Nat
  BY DEF read_head, diskVars, TypeOK
<1>3. TypeOK'
  BY <1>2 DEF read_head, TypeOK, diskVars, bufVars, history
<1>4. Control'
  <2>1. dhead # <<>> => 1 \in 1..Len(dhead)
    BY <1>2
  <2> QED BY <1>1, <1>2, <2>1 DEF read_head, Control, Commit, NoLogPanic, history
<1>5. Space'
  <2>1. Len(lh') <= Len(dhead) /\ Len(dhead') <= Len(dhead)
    BY <1>2
  <2>2. outstanding = 0 /\ \A q \in Proc : wrote[q] = {}
    BY <1>1, IdleCounters
  <2> QED BY <1>1, <1>2, <2>1, <2>2, SpaceWhenIdle DEF Home, read_head, history
<1> QED BY <1>3, <1>4, <1>5

\* install_trans() in recovery stops at the last entry.
LEMMA RecoverInstall ==
  ASSUME LInv, recover_install
  PROVE  LInv'
<1> USE DEF LInv, SpaceAccounting
<1>1. Active' = {} /\ Active = {} /\ \A q \in Proc : pc[q] = "idle" /\ pc'[q] = "idle"
  BY DEF recover_install, Active, Control
<1>2. tail \in 1..Len(lh) /\ Len(lh) \in Nat /\ tail' = tail + 1
  BY DEF recover_install, install_block, Control, TypeOK
<1>3. TypeOK'
  <2>1. /\ disk' \in [Addr -> Val] /\ cache' \in [Home -> Val \cup {NoBuf}]
        /\ dirty' \in SUBSET Home /\ tail' \in Nat
    BY <1>2, InstallTyped DEF recover_install
  <2> QED BY <2>1 DEF recover_install, TypeOK, logVars, history
<1>4. Control'
  BY <1>1, <1>2 DEF recover_install, Control, Commit, logVars, NoLogPanic, history
<1>5. Space'
  BY <1>1, SpaceFrame DEF recover_install, logVars, history, Appending
<1> QED BY <1>3, <1>4, <1>5

\* Recovery ends with an empty log.
LEMMA RecoverErase ==
  ASSUME LInv, recover_erase
  PROVE  LInv'
<1> USE DEF LInv, SpaceAccounting
<1>1. Active' = {} /\ Active = {} /\ \A q \in Proc : pc[q] = "idle" /\ pc'[q] = "idle"
  BY DEF recover_erase, Active, Control
<1>2. lh' = <<>> /\ dhead' = <<>>
  BY DEF recover_erase, erase_head
<1>3. TypeOK'
  <2>1. greedy' \in BOOLEAN /\ tail' \in Nat
    BY Zenon DEF recover_erase, erase_head
  <2> QED BY <1>2, <2>1 DEF recover_erase, TypeOK, bufVars
<1>4. Control'
  BY <1>1, <1>2 DEF recover_erase, Control, Commit, NoLogPanic
<1>5. Space'
  <2>1. outstanding = 0 /\ \A q \in Proc : wrote[q] = {}
    BY <1>1, IdleCounters
  <2> QED BY <1>1, <1>2, <2>1, SpaceEmptied DEF recover_erase
<1> QED BY <1>3, <1>4, <1>5

\* A step of something else.
LEMMA StutterStep ==
  ASSUME LInv, UNCHANGED vars
  PROVE  LInv'
<1> USE DEF LInv, SpaceAccounting
<1>1. /\ UNCHANGED <<disk, dhead, cache, dirty, held, lh, outstanding, committing>>
      /\ UNCHANGED <<pc, wrote, tail, boot, panicked, crashes, greedy, overrun>>
  BY DEF vars, diskVars, bufVars, logVars, sysVars, history
<1>2. TypeOK' /\ Active' = Active /\ Appending' = Appending
  BY <1>1 DEF TypeOK, Active, Appending
<1>3. Control'
  BY <1>1, <1>2, Zenon DEF Control, Commit, NoLogPanic
<1>4. Space'
  BY <1>1, <1>2, SpaceFrame
<1> QED BY <1>2, <1>3, <1>4

-----------------------------------------------------------------------------
(* The theorems.  They hold whatever the number of processes, of blocks and  *)
(* of crashes, and whatever a block contains.                                *)

\* The invariant is inductive.
LEMMA NextLInv ==
  ASSUME LInv, [Next]_vars
  PROVE  LInv'
<1>1. CASE UNCHANGED vars
  BY <1>1, StutterStep
<1>2. ASSUME NEW p \in Proc, op_step(p) PROVE LInv'
  <2>1. ASSUME NEW w \in Writes, log_write_test(p, w[1], w[2]) PROVE LInv'
    BY <2>1, LogWriteTest, WritesAssumption
  <2> QED BY <1>2, <2>1, BeginOp, BeginOpSleep, LogWriteAppend, EndOp, EndOpLast DEF op_step
<1>3. ASSUME NEW p \in Proc, commit_step(p) PROVE LInv'
  BY <1>3, WriteLog, WriteHead, InstallTrans, CommitErase, EndOpFinish DEF commit_step
<1>4. CASE recovery
  BY <1>4, ReadHead, RecoverInstall, RecoverErase DEF recovery
<1> QED BY <1>1, <1>2, <1>3, <1>4, RecycleStep, CrashStep DEF Next

\* Log space is accounted for at every step of every execution, whatever the
\* operations write.
THEOREM LogSpaceTheorem == Spec => []LInv
<1>1. Init => LInv
  BY InitLInv
<1>2. LInv /\ [Next]_vars => LInv'
  BY NextLInv
<1> QED BY <1>1, <1>2, PTL DEF Spec

\* No panic of log.c is reached, by any interleaving of operations, commits,
\* crashes and recoveries, but that of a transaction in which an operation has
\* taken more than its share.
THEOREM NoLogPanicTheorem == Spec => []NoLogPanic
<1>1. LInv => NoLogPanic
  BY DEF LInv, SpaceAccounting, Control
<1> QED BY <1>1, LogSpaceTheorem, PTL

\* The log fits in struct logheader and on the disk while the operations keep to
\* their share, and never runs past either by more than the blocks of the other
\* open operations, although log_write() tests the size without log.lock.
THEOREM LogFitsOnDiskTheorem == Spec => []LogFitsOnDisk
<1>1. ASSUME LInv PROVE LogFitsOnDisk
  <2>1. Len(lh) \in Nat /\ Bounded /\ (greedy \/ Thrifty)
    BY <1>1 DEF LInv, TypeOK, SpaceAccounting, Space
  <2>2. ASSUME ~greedy PROVE Len(lh) <= LOGSIZE /\ Len(lh) <= NLOG - 1
    <3>1. Len(lh) <= Limit
      BY <2>1, <2>2 DEF Thrifty
    <3> QED BY <2>1, <3>1, Sizes, LogConstants
  <2> QED BY <2>1, <2>2 DEF LogFitsOnDisk, Bounded
<1> QED BY <1>1, LogSpaceTheorem, PTL

-----------------------------------------------------------------------------
(* No lost wakeup in begin_op() *)

\* A process goes to sleep only behind a committer or an open operation, and
\* whoever ends the last of those wakes it.
LEMMA NextSleeper ==
  ASSUME LInv, LInv', SleeperHasWaker, [Next]_vars
  PROVE  SleeperHasWaker'
<1> USE DEF LInv
<1> SUFFICES ASSUME NEW s \in Proc, pc'[s] = "sleep", ~committing', Active' = {}
             PROVE  FALSE
  BY DEF SleeperHasWaker
<1>0. pc \in [Proc -> Places]
  BY DEF TypeOK
<1>1. CASE UNCHANGED vars
  BY <1>1 DEF vars, logVars, Active, SleeperHasWaker
<1>2. ASSUME NEW p \in Proc, op_step(p) PROVE FALSE
  <2>1. CASE begin_op(p)
    BY <1>0, <2>1 DEF begin_op, Active
  <2>2. CASE begin_op_sleep(p)
    <3>1. Active = {} /\ ~committing /\ boot = "up" /\ MustWait
      BY <1>0, <2>2 DEF begin_op_sleep, Active, logVars, Running
    <3>2. Len(lh) = 0 /\ outstanding = 0
      BY <3>1, NothingReserved, Zenon DEF SpaceAccounting, Control
    <3> QED BY <3>1, <3>2, LogConstants DEF MustWait
  <2>3. ASSUME NEW w \in Writes, log_write_test(p, w[1], w[2]) PROVE FALSE
    BY <1>0, <2>3, Zenon DEF log_write_test, Active
  <2>4. CASE log_write_append(p)
    BY <1>0, <2>4 DEF log_write_append, Active
  <2>5. CASE end_op(p)
    BY <1>0, <2>5 DEF end_op, wakeup
  <2>6. CASE end_op_last(p)
    BY <2>6 DEF end_op_last
  <2> QED BY <1>2, <2>1, <2>2, <2>3, <2>4, <2>5, <2>6 DEF op_step
<1>3. ASSUME NEW p \in Proc, commit_step(p) PROVE FALSE
  <2>1. committing
    BY <1>3, CommitAlone
    DEF commit_step, Commit, write_log, write_head, install_trans, commit_erase, end_op_finish
  <2>2. end_op_finish(p)
    BY <1>3, <2>1, Zenon DEF commit_step, write_log, write_head, install_trans, commit_erase, logVars
  <2> QED BY <1>0, <2>2 DEF end_op_finish, wakeup
<1>4. CASE recovery
  <2>1. boot # "up" /\ pc' = pc
    BY <1>4 DEF recovery, read_head, recover_install, recover_erase
  <2> QED BY <2>1 DEF SpaceAccounting, Control
<1>5. ASSUME NEW b \in Home, Recycle(b) PROVE FALSE
  BY <1>5, Zenon DEF Recycle, logVars, Active, SleeperHasWaker
<1>6. CASE Crash
  BY <1>6 DEF Crash
<1> QED BY <1>1, <1>2, <1>3, <1>4, <1>5, <1>6 DEF Next

\* No wakeup is lost: a process asleep in begin_op() always has a committer or
\* an open operation to wake it.
THEOREM SleeperHasWakerTheorem == Spec => []SleeperHasWaker
<1>1. Init => LInv /\ SleeperHasWaker
  BY InitLInv, Zenon DEF Init, SleeperHasWaker
<1>2. LInv /\ SleeperHasWaker /\ [Next]_vars => (LInv /\ SleeperHasWaker)'
  BY NextLInv, NextSleeper
<1> QED BY <1>1, <1>2, PTL DEF Spec
=============================================================================
