----------------------------- MODULE PipeProofs -----------------------------
(***************************************************************************)
(* Proofs about pipe.c, for any number of writers and readers, any sizes   *)
(* of the buffer, the counters and the calls, and any bytes.               *)
(***************************************************************************)
EXTENDS Pipe, SequenceTheorems, TLAPS

\* Time for the provers, and a second try for the first of them
USE SMTT(10), SMTT(30), ZenonT(30)

-----------------------------------------------------------------------------
(* Remainders. *)

\* Division with remainder.
LEMMA DivMod ==
  ASSUME NEW x \in Nat, NEW n \in Nat \ {0}
  PROVE  /\ x \div n \in Nat /\ x % n \in 0..(n - 1)
         /\ x = n * (x \div n) + (x % n)
  BY Z3

\* The remainder is unique.
LEMMA ModUnique ==
  ASSUME NEW n \in Nat \ {0}, NEW a \in Int, NEW b \in Int,
         NEW r \in 0..(n - 1), NEW s \in 0..(n - 1), n * a + r = n * b + s
  PROVE  r = s /\ a = b
<1>1. a = b
  <2>1. ASSUME a < b PROVE FALSE
    <3>1. b - a \in Nat /\ b - a >= 1 BY <2>1
    <3>2. n * (b - a) = r - s BY Z3
    <3>3. n * (b - a) >= n BY <3>1, Z3
    <3> QED BY <3>2, <3>3
  <2>2. ASSUME b < a PROVE FALSE
    <3>1. a - b \in Nat /\ a - b >= 1 BY <2>2
    <3>2. n * (a - b) = s - r BY Z3
    <3>3. n * (a - b) >= n BY <3>1, Z3
    <3> QED BY <3>2, <3>3
  <2> QED BY <2>1, <2>2
<1> QED BY <1>1

\* Multiples of n do not change it: of a remainder ...
LEMMA ModPlus ==
  ASSUME NEW n \in Nat \ {0}, NEW q \in Nat, NEW r \in 0..(n - 1)
  PROVE  (n * q + r) % n = r
<1> DEFINE x == n * q + r
<1>1. x \in Nat BY Z3
<1>2. /\ x \div n \in Nat /\ x % n \in 0..(n - 1)
      /\ x = n * (x \div n) + (x % n)
  BY <1>1, DivMod, Zenon
<1>3. n * (x \div n) + (x % n) = n * q + r
  BY <1>2
<1> DEFINE d == x \div n  e == x % n
<1>4. d \in Int /\ e \in 0..(n - 1) /\ n * d + e = n * q + r
  BY <1>2, <1>3
<1> HIDE DEF x, d, e
<1>5. e = r
  BY <1>4, ModUnique
<1> QED BY <1>5 DEF x, e

\* ... or of any number.
LEMMA ModShift ==
  ASSUME NEW n \in Nat \ {0}, NEW q \in Nat, NEW y \in Nat
  PROVE  (n * q + y) % n = y % n
<1> DEFINE d == y \div n  e == y % n
<1>1. d \in Nat /\ e \in 0..(n - 1) /\ y = n * d + e
  BY DivMod, Zenon
<1> HIDE DEF d, e
<1>2. n * (q + d) = n * q + n * d /\ n * q \in Int /\ n * d \in Int
  BY <1>1, Z3
<1>3. n * q + y = n * (q + d) + e
  BY <1>1, <1>2
<1>4. (n * (q + d) + e) % n = e
  BY <1>1, ModPlus
<1> QED BY <1>3, <1>4 DEF e

\* A remainder by a multiple of n may be taken first.
LEMMA ModMod ==
  ASSUME NEW n \in Nat \ {0}, NEW W \in Nat \ {0}, W % n = 0, NEW a \in Nat, NEW x \in Nat
  PROVE  ((a % W) + x) % n = (a + x) % n
<1> DEFINE m == W \div n  q == a \div W  r == a % W
<1>1. m \in Nat /\ W = n * m
  BY DivMod
<1>2. q \in Nat /\ r \in Nat /\ a = W * q + r
  BY DivMod
<1> HIDE DEF m, q
<1>3. W * q = (n * m) * q
  BY <1>1
<1>4. (n * m) * q = n * (m * q) /\ m * q \in Nat /\ n * (m * q) \in Int
  BY <1>1, <1>2, Z3
<1> HIDE DEF r
<1>5. a + x = n * (m * q) + (r + x)
  BY <1>2, <1>3, <1>4
<1>6. r + x \in Nat
  BY <1>2
<1>7. (n * (m * q) + (r + x)) % n = (r + x) % n
  BY <1>4, <1>6, ModShift, Zenon
<1> QED BY <1>5, <1>7 DEF r

\* The remainder of what is less than 2n
LEMMA ModOnce ==
  ASSUME NEW n \in Nat \ {0}, NEW x \in 0..(2 * n - 1)
  PROVE  x % n = IF x < n THEN x ELSE x - n
<1>1. CASE x < n
  <2>1. (n * 0 + x) % n = x
    BY <1>1, ModPlus
  <2> QED BY <1>1, <2>1
<1>2. CASE x >= n
  <2>1. (n * 1 + (x - n)) % n = x - n
    BY <1>2, ModPlus
  <2> QED BY <1>2, <2>1
<1> QED BY <1>1, <1>2

\* Within n positions no remainder occurs twice ...
LEMMA ModOneToOne ==
  ASSUME NEW n \in Nat \ {0}, NEW a \in Nat, NEW i \in 0..(n - 1), NEW j \in 0..(n - 1),
         (a + i) % n = (a + j) % n
  PROVE  i = j
<1> DEFINE x == a + i  y == a + j  b == x \div n  c == y \div n  r == x % n
<1>0. x \in Nat /\ y \in Nat /\ y % n = r
  OBVIOUS
<1> HIDE DEF x, y
<1>1. b \in Nat /\ r \in 0..(n - 1) /\ a + i = n * b + r
  BY <1>0, DivMod, Zenon DEF x
<1>2. c \in Nat /\ a + j = n * c + r
  BY <1>0, DivMod, Zenon DEF y
<1> HIDE DEF b, c, r
<1>3. n * (b - c) = n * b - n * c /\ n * b \in Int /\ n * c \in Int
  BY <1>1, <1>2, Z3
<1>4. n * (b - c) = i - j /\ n * (c - b) = j - i
  BY <1>1, <1>2, <1>3, Z3
<1>5. CASE i <= j
  <2>1. n * (c - b) + 0 = n * 0 + (j - i)
    BY <1>4
  <2>2. c - b \in Int /\ 0 \in 0..(n - 1) /\ j - i \in 0..(n - 1)
    BY <1>1, <1>2, <1>5
  <2>3. 0 = j - i
    BY <2>1, <2>2, ModUnique
  <2> QED BY <2>3
<1>6. CASE j <= i
  <2>1. n * (b - c) + 0 = n * 0 + (i - j)
    BY <1>4
  <2>2. b - c \in Int /\ 0 \in 0..(n - 1) /\ i - j \in 0..(n - 1)
    BY <1>1, <1>2, <1>6
  <2>3. 0 = i - j
    BY <2>1, <2>2, ModUnique
  <2> QED BY <2>3
<1> QED BY <1>5, <1>6

\* ... and every one does.
LEMMA ModOnto ==
  ASSUME NEW n \in Nat \ {0}, NEW a \in Nat, NEW k \in 0..(n - 1)
  PROVE  \E i \in 0..(n - 1) : (a + i) % n = k
<1> DEFINE q == a \div n  t == a % n
<1>1. q \in Nat /\ t \in 0..(n - 1) /\ a = n * q + t
  BY DivMod, Zenon
<1> HIDE DEF q, t
<1>2. n * (q + 1) = n * q + n /\ n * q \in Int
  BY <1>1, Z3
<1>3. CASE t <= k
  <2>1. a + (k - t) = n * q + k
    BY <1>1, <1>2
  <2>2. (a + (k - t)) % n = k
    BY <1>1, <2>1, ModPlus
  <2>3. k - t \in 0..(n - 1)
    BY <1>1, <1>3
  <2> QED BY <2>2, <2>3
<1>4. CASE t > k
  <2>1. a + (k - t + n) = n * (q + 1) + k
    BY <1>1, <1>2
  <2>2. (a + (k - t + n)) % n = k
    BY <1>1, <2>1, ModPlus
  <2>3. k - t + n \in 0..(n - 1)
    BY <1>1, <1>4
  <2> QED BY <2>2, <2>3, Zenon
<1> QED BY <1>1, <1>3, <1>4

-----------------------------------------------------------------------------
(* The counters and the buffer. *)

\* How far counter w is ahead of counter r, and the place of byte i after counter n
Dist(w, r) == (w + WRAP - r) % WRAP
At(n, i) == Add(n, i) % PIPESIZE

Counter == 0..(WRAP - 1)

\* Unsigned addition wraps at most once.
LEMMA AddIs ==
  ASSUME NEW n \in Counter, NEW k \in 0..PIPESIZE
  PROVE  Add(n, k) \in Counter /\ Add(n, k) = IF n + k < WRAP THEN n + k ELSE n + k - WRAP
<1> DEFINE x == n + k
<1>1. WRAP \in Nat \ {0} /\ x \in 0..(2 * WRAP - 1)
  BY PipeConstants DEF Counter
<1> HIDE DEF x
<1>2. x % WRAP = IF x < WRAP THEN x ELSE x - WRAP
  BY <1>1, ModOnce, Zenon
<1>3. Add(n, k) = x % WRAP
  BY DEF Add, x
<1> QED BY <1>1, <1>2, <1>3 DEF x, Counter

\* The distance of two counters, the wrap taken into account
LEMMA DistIs ==
  ASSUME NEW w \in Counter, NEW r \in Counter
  PROVE  Dist(w, r) \in Counter /\ Dist(w, r) = IF w >= r THEN w - r ELSE w + WRAP - r
<1> DEFINE x == w + WRAP - r
<1>1. WRAP \in Nat \ {0} /\ x \in 0..(2 * WRAP - 1)
  BY PipeConstants DEF Counter
<1> HIDE DEF x
<1>2. x % WRAP = IF x < WRAP THEN x ELSE x - WRAP
  BY <1>1, ModOnce, Zenon
<1>3. Dist(w, r) = x % WRAP
  BY DEF Dist, x
<1> QED BY <1>1, <1>2, <1>3 DEF x, Counter

\* Writing k bytes takes the counters k further apart, reading k bytes closer together.
LEMMA DistPut ==
  ASSUME NEW w \in Counter, NEW r \in Counter, NEW k \in 0..PIPESIZE, Dist(w, r) + k <= PIPESIZE
  PROVE  Dist(Add(w, k), r) = Dist(w, r) + k
<1>1. Add(w, k) \in Counter /\ Add(w, k) = IF w + k < WRAP THEN w + k ELSE w + k - WRAP
  BY AddIs
<1>2. /\ Dist(w, r) = IF w >= r THEN w - r ELSE w + WRAP - r
      /\ Dist(Add(w, k), r) = IF Add(w, k) >= r THEN Add(w, k) - r ELSE Add(w, k) + WRAP - r
  BY <1>1, DistIs
<1> QED BY <1>1, <1>2, PipeConstants DEF Counter

\* Reading k of the bytes there are
LEMMA DistGet ==
  ASSUME NEW w \in Counter, NEW r \in Counter, NEW k \in 0..PIPESIZE, k <= Dist(w, r)
  PROVE  Dist(w, Add(r, k)) = Dist(w, r) - k
<1>1. Add(r, k) \in Counter /\ Add(r, k) = IF r + k < WRAP THEN r + k ELSE r + k - WRAP
  BY AddIs
<1>2. /\ Dist(w, r) = IF w >= r THEN w - r ELSE w + WRAP - r
      /\ Dist(w, Add(r, k)) = IF w >= Add(r, k) THEN w - Add(r, k) ELSE w + WRAP - Add(r, k)
  BY <1>1, DistIs
<1> QED BY <1>1, <1>2, PipeConstants DEF Counter

\* The tests for an empty and a full pipe are tests of the distance.
LEMMA DistEnds ==
  ASSUME NEW w \in Counter, NEW r \in Counter
  PROVE  /\ r = w <=> Dist(w, r) = 0
         /\ w = Add(r, PIPESIZE) <=> Dist(w, r) = PIPESIZE
         /\ Dist(w, r) <= PIPESIZE => w = Add(r, Dist(w, r))
<1>1. Dist(w, r) \in Counter /\ Dist(w, r) = IF w >= r THEN w - r ELSE w + WRAP - r
  BY DistIs
<1>2. PIPESIZE \in 0..PIPESIZE
  BY PipeConstants
<1>3. Add(r, PIPESIZE) = IF r + PIPESIZE < WRAP THEN r + PIPESIZE ELSE r + PIPESIZE - WRAP
  BY <1>2, AddIs
<1>4. Dist(w, r) <= PIPESIZE =>
        Add(r, Dist(w, r)) = IF r + Dist(w, r) < WRAP THEN r + Dist(w, r) ELSE r + Dist(w, r) - WRAP
  BY <1>1, AddIs, PipeConstants DEF Counter
<1> QED BY <1>1, <1>3, <1>4, PipeConstants DEF Counter

\* The wrap of the counters does not show in the places ...
LEMMA AtIs ==
  ASSUME NEW n \in Nat, NEW i \in Nat
  PROVE  At(n, i) \in Index /\ At(n, i) = (n + i) % PIPESIZE
<1> DEFINE a == n + i  x == a % WRAP
<1>1. a \in Nat /\ PIPESIZE \in Nat \ {0} /\ WRAP \in Nat \ {0} /\ WRAP % PIPESIZE = 0
  BY PipeConstants
<1> HIDE DEF a
<1>2. x \in Nat
  BY <1>1, DivMod
<1>3. \A y \in Nat : (x + y) % PIPESIZE = (a + y) % PIPESIZE
  BY <1>1, ModMod, ZenonT(60)
<1> HIDE DEF x
<1>4. x + 0 = x /\ a + 0 = a
  BY <1>1, <1>2
<1>5. x % PIPESIZE = a % PIPESIZE
  BY <1>3, <1>4
<1>6. x % PIPESIZE \in 0..(PIPESIZE - 1)
  BY <1>1, <1>2, DivMod
<1> QED BY <1>5, <1>6 DEF a, x, At, Add, Index

\* ... the places after a counter that was advanced go on from those before, ...
LEMMA AtAdd ==
  ASSUME NEW n \in Counter, NEW m \in 0..PIPESIZE, NEW i \in Nat
  PROVE  At(Add(n, m), i) = At(n, m + i)
<1> DEFINE e == n + m  w == Add(n, m)
<1>1. n \in Nat /\ m \in Nat /\ e \in Nat /\ m + i \in Nat
  BY PipeConstants DEF Counter
<1>2. w \in Nat /\ w = e % WRAP
  BY AddIs, PipeConstants DEF Add, Counter
<1>3. PIPESIZE \in Nat \ {0} /\ WRAP \in Nat \ {0} /\ WRAP % PIPESIZE = 0
  BY PipeConstants
<1> HIDE DEF e, w
<1>4. e \in Nat
  BY <1>1
<1>5. \A y \in Nat : ((e % WRAP) + y) % PIPESIZE = (e + y) % PIPESIZE
  BY <1>3, <1>4, ModMod, Zenon
<1>6. At(w, i) = (w + i) % PIPESIZE /\ At(n, m + i) = (n + (m + i)) % PIPESIZE
  BY <1>1, <1>2, AtIs, Zenon
<1>7. e + i = n + (m + i)
  BY <1>1 DEF e
<1> QED BY <1>2, <1>5, <1>6, <1>7 DEF w

\* ... and after PIPESIZE bytes they are the same again.
LEMMA AtRound ==
  ASSUME NEW n \in Nat, NEW i \in Nat
  PROVE  At(n, PIPESIZE + i) = At(n, i)
<1>1. PIPESIZE \in Nat \ {0} /\ n + i \in Nat /\ PIPESIZE + i \in Nat
  BY PipeConstants
<1>2. (PIPESIZE * 1 + (n + i)) % PIPESIZE = (n + i) % PIPESIZE
  BY <1>1, ModShift, Zenon
<1>3. PIPESIZE * 1 + (n + i) = n + (PIPESIZE + i)
  BY <1>1
<1> QED BY <1>1, <1>2, <1>3, AtIs

\* Two of PIPESIZE bytes in a row have different places.
LEMMA AtOneToOne ==
  ASSUME NEW n \in Nat, NEW i \in 1..PIPESIZE, NEW j \in 1..PIPESIZE, At(n, i - 1) = At(n, j - 1)
  PROVE  i = j
<1>1. PIPESIZE \in Nat \ {0} /\ i - 1 \in 0..(PIPESIZE - 1) /\ j - 1 \in 0..(PIPESIZE - 1)
  BY PipeConstants
<1>2. (n + (i - 1)) % PIPESIZE = (n + (j - 1)) % PIPESIZE
  BY <1>1, AtIs
<1>3. i - 1 = j - 1
  BY <1>1, <1>2, ModOneToOne, Zenon
<1> QED BY <1>3

-----------------------------------------------------------------------------
(* One critical section of pipewrite() and of piperead(). *)

\* Byte j of bs goes to its place, and the places of other bytes keep what they have.
LEMMA StoredIs ==
  ASSUME nwrite \in Nat, NEW bs, NEW j \in 1..PIPESIZE
  PROVE  Stored(bs)[At(nwrite, j - 1)] = IF j <= Len(bs) THEN bs[j] ELSE data[At(nwrite, j - 1)]
<1> DEFINE k == At(nwrite, j - 1)
           c == CHOOSE i \in 1..PIPESIZE : Add(nwrite, i - 1) % PIPESIZE = k
<1>1. k \in Index
  BY AtIs
<1>2. c \in 1..PIPESIZE /\ At(nwrite, c - 1) = k
  BY DEF At
<1>3. Stored(bs)[k] = IF c <= Len(bs) THEN bs[c] ELSE data[k]
  BY <1>1, Zenon DEF Stored
<1> HIDE DEF c
<1>4. c = j
  BY <1>2, AtOneToOne
<1> QED BY <1>3, <1>4

\* The buffer still holds bytes after a write.
LEMMA StoredType ==
  ASSUME nwrite \in Nat, data \in [Index -> Byte],
         NEW m \in 0..PIPESIZE, NEW bs \in [1..m -> Byte]
  PROVE  Stored(bs) \in [Index -> Byte]
<1>1. Len(bs) = m
  BY PipeConstants
<1> SUFFICES ASSUME NEW k \in Index PROVE Stored(bs)[k] \in Byte
  BY DEF Stored
<1>2. PIPESIZE \in Nat \ {0} /\ k \in 0..(PIPESIZE - 1)
  BY PipeConstants DEF Index
<1>3. PICK i \in 0..(PIPESIZE - 1) : (nwrite + i) % PIPESIZE = k
  BY <1>2, ModOnto, Zenon
<1>4. i \in Nat /\ i + 1 \in 1..PIPESIZE /\ (i + 1) - 1 = i
  BY <1>2
<1>5. At(nwrite, i) = k
  BY <1>3, <1>4, AtIs
<1>6. Stored(bs)[k] = IF i + 1 <= m THEN bs[i + 1] ELSE data[k]
  BY <1>1, <1>4, <1>5, StoredIs
<1> QED BY <1>4, <1>6

\* The c bytes after counter r in the buffer d
Bytes(d, r, c) == [k \in 1..c |-> d[At(r, k - 1)]]

\* The c bytes from counter r on are a sequence of c bytes.
LEMMA BytesSeq ==
  ASSUME NEW d \in [Index -> Byte], NEW r \in Nat, NEW c \in Nat
  PROVE  /\ Bytes(d, r, c) \in Seq(Byte) /\ Len(Bytes(d, r, c)) = c
         /\ \A k \in 1..c : Bytes(d, r, c)[k] = d[At(r, k - 1)] /\ Bytes(d, r, c)[k] \in Byte
<1>1. ASSUME NEW k \in 1..c PROVE d[At(r, k - 1)] \in Byte
  BY AtIs
<1> QED BY <1>1 DEF Bytes

\* What the invariant says of the counters
LEMMA CountIs ==
  ASSUME TypeOK, NeverOverfull
  PROVE  /\ nwrite \in Counter /\ nread \in Counter /\ nwrite \in Nat /\ nread \in Nat
         /\ data \in [Index -> Byte]
         /\ Count \in Nat /\ Count = Dist(nwrite, nread) /\ Count <= PIPESIZE
         /\ Empty <=> Count = 0
         /\ Full <=> Count = PIPESIZE
         /\ nwrite = Add(nread, Count)
         /\ Contents = Bytes(data, nread, Count)
<1>1. /\ nwrite \in Counter /\ nread \in Counter /\ nwrite \in Nat /\ nread \in Nat
      /\ data \in [Index -> Byte]
  BY PipeConstants DEF TypeOK, Counter
<1>2. Count \in Nat /\ Count = Dist(nwrite, nread) /\ Count <= PIPESIZE
  BY <1>1, DistIs, PipeConstants DEF NeverOverfull, Count, Dist, Counter
<1>3. /\ Empty <=> Count = 0
      /\ Full <=> Count = PIPESIZE
      /\ nwrite = Add(nread, Count)
  BY <1>1, <1>2, DistEnds DEF Empty, Full
<1>4. Contents = Bytes(data, nread, Count)
  BY DEF Contents, Bytes, At
<1> QED BY <1>1, <1>2, <1>3, <1>4, Zenon

\* The bytes in the pipe, in order, are those that could be read before and then those
\* that have been stored.
LEMMA ContentsPut ==
  ASSUME TypeOK, NeverOverfull, NEW m \in 0..(PIPESIZE - Count), NEW bs \in [1..m -> Byte],
         data' = Stored(bs), nwrite' = Add(nwrite, m), nread' = nread
  PROVE  /\ data' \in [Index -> Byte] /\ nwrite' \in Counter
         /\ Count' = Count + m
         /\ Contents' = Contents \o bs
<1>1. /\ nwrite \in Counter /\ nread \in Counter /\ nwrite \in Nat /\ nread \in Nat
      /\ data \in [Index -> Byte] /\ nwrite = Add(nread, Count)
  BY CountIs
<1>2. Count \in Nat /\ Count = Dist(nwrite, nread) /\ Count <= PIPESIZE
  BY CountIs
<1>3. /\ m \in 0..PIPESIZE /\ m \in Nat /\ Count + m <= PIPESIZE /\ Count \in 0..PIPESIZE
      /\ PIPESIZE \in Nat
  BY <1>2, PipeConstants
<1>4. data' \in [Index -> Byte] /\ nwrite' \in Counter
  BY <1>1, <1>3, StoredType, AddIs
<1>5. Count' = Dist(nwrite', nread')
  BY DEF Count, Dist
<1>6. Count' = Count + m
  BY <1>1, <1>2, <1>3, <1>5, DistPut
<1>7. Contents' = Bytes(data', nread, Count + m)
  BY <1>6 DEF Contents, Bytes, At, Add
<1>8. Len(bs) = m /\ bs \in Seq(Byte)
  BY <1>3
<1>9. ASSUME NEW k \in 1..Count PROVE data'[At(nread, k - 1)] = data[At(nread, k - 1)]
  <2> DEFINE j == PIPESIZE - Count + k
  <2>1. j \in 1..PIPESIZE /\ ~(j <= m) /\ j - 1 \in Nat /\ k - 1 \in Nat
    BY <1>2, <1>3
  <2>2. Count + (j - 1) = PIPESIZE + (k - 1)
    BY <1>2, PipeConstants
  <2>3. At(nwrite, j - 1) = At(nread, Count + (j - 1))
    BY <1>1, <1>3, <2>1, AtAdd
  <2>4. At(nread, PIPESIZE + (k - 1)) = At(nread, k - 1)
    BY <1>1, <2>1, AtRound
  <2>5. At(nwrite, j - 1) = At(nread, k - 1)
    BY <2>2, <2>3, <2>4
  <2> HIDE DEF j
  <2>6. Stored(bs)[At(nwrite, j - 1)] = data[At(nwrite, j - 1)]
    BY <1>1, <1>8, <2>1, StoredIs
  <2> QED BY <2>5, <2>6
<1>10. ASSUME NEW k \in (Count + 1)..(Count + m) PROVE data'[At(nread, k - 1)] = bs[k - Count]
  <2> DEFINE j == k - Count
  <2>1. j \in 1..PIPESIZE /\ j <= m /\ j - 1 \in Nat /\ Count + (j - 1) = k - 1
    BY <1>2, <1>3, PipeConstants
  <2>2. At(nwrite, j - 1) = At(nread, Count + (j - 1))
    BY <1>1, <1>3, <2>1, AtAdd
  <2> HIDE DEF j
  <2>3. Stored(bs)[At(nwrite, j - 1)] = bs[j]
    BY <1>1, <1>8, <2>1, StoredIs
  <2> QED BY <2>1, <2>2, <2>3 DEF j
<1>11. Contents' = Contents \o bs
  <2> DEFINE s == Bytes(data, nread, Count)  t == Bytes(data', nread, Count + m)
  <2>1. s \in Seq(Byte) /\ Len(s) = Count /\ \A k \in 1..Count : s[k] = data[At(nread, k - 1)]
    BY <1>1, <1>2, BytesSeq, Zenon
  <2>2. /\ t \in Seq(Byte) /\ Len(t) = Count + m
        /\ \A k \in 1..(Count + m) : t[k] = data'[At(nread, k - 1)]
    <3> DEFINE c == Count + m
    <3>1. c \in Nat
      BY <1>2, <1>3
    <3> HIDE DEF c
    <3>2. /\ Bytes(data', nread, c) \in Seq(Byte) /\ Len(Bytes(data', nread, c)) = c
          /\ \A k \in 1..c : Bytes(data', nread, c)[k] = data'[At(nread, k - 1)]
      BY <1>1, <1>4, <3>1, BytesSeq, Zenon
    <3> QED BY <3>2 DEF c
  <2> HIDE DEF s, t
  <2>3. /\ s \o bs \in Seq(Byte) /\ Len(s \o bs) = Count + m
        /\ \A k \in 1..(Count + m) : (s \o bs)[k] = IF k <= Count THEN s[k] ELSE bs[k - Count]
    BY <1>8, <2>1, ConcatProperties
  <2>4. ASSUME NEW k \in 1..(Count + m) PROVE t[k] = (s \o bs)[k]
    <3>0. t[k] = data'[At(nread, k - 1)]
      BY <2>2
    <3>1. CASE k <= Count
      <4>1. k \in 1..Count
        BY <1>2, <1>3, <3>1
      <4>2. t[k] = s[k]
        BY <1>9, <2>1, <3>0, <4>1
      <4> QED BY <2>3, <3>1, <4>2
    <3>2. CASE k > Count
      <4>1. k \in (Count + 1)..(Count + m) /\ ~(k <= Count)
        BY <1>2, <1>3, <3>2
      <4>2. t[k] = bs[k - Count]
        BY <1>10, <3>0, <4>1
      <4> QED BY <2>3, <4>1, <4>2
    <3>3. k <= Count \/ k > Count
      BY <1>2, <1>3
    <3> QED BY <3>1, <3>2, <3>3, Zenon
  <2>5. t = s \o bs
    BY <2>2, <2>3, <2>4, SeqEqual, Zenon
  <2>6. Contents = s /\ Contents' = t
    BY <1>7, CountIs, Zenon DEF s, t
  <2> QED BY <2>5, <2>6
<1> QED BY <1>4, <1>6, <1>11

\* A read takes the first bytes and leaves the others.
LEMMA ContentsGet ==
  ASSUME TypeOK, NeverOverfull, NEW m \in 0..Count,
         data' = data, nwrite' = nwrite, nread' = Add(nread, m)
  PROVE  /\ nread' \in Counter /\ Len(Contents) = Count
         /\ Count' = Count - m
         /\ [i \in 1..m |-> data[Add(nread, i - 1) % PIPESIZE]] = SubSeq(Contents, 1, m)
         /\ Contents' = SubSeq(Contents, m + 1, Len(Contents))
<1>1. nwrite \in Counter /\ nread \in Counter /\ nread \in Nat /\ data \in [Index -> Byte]
  BY CountIs
<1>2. Count \in Nat /\ Count = Dist(nwrite, nread) /\ Count <= PIPESIZE
  BY CountIs
<1>3. m \in 0..PIPESIZE /\ m \in Nat /\ m <= Count /\ PIPESIZE \in Nat /\ Count - m \in Nat
  BY <1>2, PipeConstants
<1>4. nread' \in Counter /\ nread' \in Nat
  BY <1>1, <1>3, AddIs, PipeConstants DEF Counter
<1>5. Count' = Dist(nwrite', nread')
  BY DEF Count, Dist
<1>6. Count' = Count - m
  BY <1>1, <1>2, <1>3, <1>5, DistGet
<1> DEFINE s == Bytes(data, nread, Count)  t == Bytes(data, nread', Count - m)
<1>7. /\ s \in Seq(Byte) /\ Len(s) = Count
      /\ \A k \in 1..Count : s[k] = data[At(nread, k - 1)] /\ s[k] \in Byte
  BY <1>1, <1>2, BytesSeq, Zenon
<1>8. /\ t \in Seq(Byte) /\ Len(t) = Count - m
      /\ \A k \in 1..(Count - m) : t[k] = data[At(nread', k - 1)]
  <2> DEFINE c == Count - m
  <2>1. c \in Nat
    BY <1>3
  <2> HIDE DEF c
  <2>2. /\ Bytes(data, nread', c) \in Seq(Byte) /\ Len(Bytes(data, nread', c)) = c
        /\ \A k \in 1..c : Bytes(data, nread', c)[k] = data[At(nread', k - 1)]
    BY <1>1, <1>4, <2>1, BytesSeq, Zenon
  <2> QED BY <2>2 DEF c
<1>9. Contents = s /\ Contents' = t
  BY <1>6, CountIs DEF Contents, Bytes, At, Add
<1>10. [i \in 1..m |-> data[Add(nread, i - 1) % PIPESIZE]] = SubSeq(s, 1, m)
  <2> DEFINE u == Bytes(data, nread, m)
  <2>1. u \in Seq(Byte) /\ Len(u) = m /\ \A k \in 1..m : u[k] = data[At(nread, k - 1)]
    BY <1>1, <1>3, BytesSeq, Zenon
  <2> HIDE DEF s, u
  <2>2. \A i \in 1..m : s[i] \in Byte /\ s[i] = data[At(nread, i - 1)]
    BY <1>2, <1>3, <1>7
  <2>3. /\ SubSeq(s, 1, m) \in Seq(Byte) /\ Len(SubSeq(s, 1, m)) = m
        /\ \A k \in 1..m : SubSeq(s, 1, m)[k] = s[k]
    BY <1>3, <2>2, SubSeqProperties
  <2>4. u = SubSeq(s, 1, m)
    BY <2>1, <2>2, <2>3, SeqEqual
  <2> QED BY <2>4 DEF u, Bytes, At
<1>11. t = SubSeq(s, m + 1, Count)
  <2> DEFINE u == SubSeq(s, m + 1, Count)
  <2> HIDE DEF s, t
  <2>1. \A i \in (m + 1)..Count : s[i] \in Byte
    BY <1>2, <1>3, <1>7
  <2>2. /\ u \in Seq(Byte) /\ Len(u) = Count - m
        /\ \A k \in 1..(Count - m) : u[k] = s[m + k]
    <3>1. m + 1 \in Int /\ Count \in Int
      BY <1>2, <1>3
    <3>2. /\ u \in Seq(Byte)
          /\ Len(u) = IF m + 1 <= Count THEN Count - (m + 1) + 1 ELSE 0
          /\ \A k \in 1..(Count - (m + 1) + 1) : u[k] = s[(m + 1) + k - 1]
      BY <2>1, <3>1, SubSeqProperties
    <3>3. Count - (m + 1) + 1 = Count - m /\ \A k \in 1..(Count - m) : (m + 1) + k - 1 = m + k
      BY <1>2, <1>3
    <3> HIDE DEF u
    <3> QED BY <1>2, <1>3, <3>2, <3>3
  <2> HIDE DEF u
  <2>3. ASSUME NEW k \in 1..(Count - m) PROVE t[k] = u[k]
    <3>1. m + k \in 1..Count /\ k - 1 \in Nat /\ (m + k) - 1 = m + (k - 1)
      BY <1>2, <1>3
    <3>2. At(nread', k - 1) = At(nread, m + (k - 1))
      BY <1>1, <1>3, <3>1, AtAdd
    <3>3. t[k] = data[At(nread', k - 1)]
      BY <1>8
    <3>4. u[k] = s[m + k]
      BY <2>2
    <3>5. s[m + k] = data[At(nread, m + k - 1)]
      BY <1>7, <3>1
    <3> QED BY <3>1, <3>2, <3>3, <3>4, <3>5
  <2>4. t = u
    BY <1>8, <2>2, <2>3, SeqEqual
  <2> QED BY <2>4 DEF u
<1> QED BY <1>4, <1>6, <1>7, <1>9, <1>10, <1>11

-----------------------------------------------------------------------------
(* PipeInv is an invariant. *)

\* There is a longest call.
LEMMA MaxNIs == MaxN \in Nat \ {0} /\ \A n \in Sizes : n \in Nat /\ n <= MaxN
  BY PipeConstants, Zenon DEF MaxN

\* pipealloc() establishes PipeInv.
LEMMA InitInv == Init => PipeInv
<1> SUFFICES ASSUME Init PROVE PipeInv
  OBVIOUS
<1>1. 0 \in Counter /\ nwrite \in Counter /\ nread \in Counter
  BY PipeConstants DEF Init, Counter
<1>2. TypeOK
  <2>1. left \in [Proc -> 0..MaxN]
    BY MaxNIs DEF Init
  <2>2. /\ got \in [Reader -> {<<>>} \cup {<<c>> : c \in Chunk}]
        /\ pc \in [Proc -> {"idle", "call", "sleep", "closed"}]
        /\ killed \in [Proc -> BOOLEAN]
    BY DEF Init
  <2>3. readopen \in BOOLEAN /\ writeopen \in BOOLEAN /\ freed \in BOOLEAN
    BY Zenon DEF Init
  <2> QED BY <1>1, <2>1, <2>2, <2>3 DEF Init, TypeOK, Counter
<1>3. NeverOverfull
  BY <1>1, DistIs, PipeConstants DEF Init, NeverOverfull, Count, Dist
<1>4. EndsOpen /\ FreedByLastClose
  BY PipeConstants DEF Init, EndsOpen, FreedByLastClose, Proc
<1>5. ReaderSleepsOnEmpty /\ WriterSleepsOnFull /\ SomethingLeft
  BY DEF Init, ReaderSleepsOnEmpty, WriterSleepsOnFull, SomethingLeft, Proc
<1> QED BY <1>2, <1>3, <1>4, <1>5 DEF PipeInv

\* A call that returns leaves nothing to transfer.
LEMMA LeftReset ==
  ASSUME TypeOK, NEW p \in Proc, left' = [left EXCEPT ![p] = 0]
  PROVE  left' \in [Proc -> 0..MaxN]
<1>1. 0 \in 0..MaxN
  BY MaxNIs
<1> QED BY <1>1 DEF TypeOK

\* Steps that leave the pipe alone
LEMMA QuietCount ==
  ASSUME UNCHANGED <<nread, nwrite>>
  PROVE  Count' = Count /\ (Empty' <=> Empty) /\ (Full' <=> Full)
  BY DEF Count, Empty, Full, Add

\* Every step preserves it: a process that enters read() or write(), ...
LEMMA CallInv ==
  ASSUME PipeInv, NEW p \in Proc, NEW n \in Sizes, call(p, n)
  PROVE  PipeInv'
<1> USE DEF PipeInv
<1>1. TypeOK'
  BY MaxNIs DEF TypeOK, call, pipeVars
<1>2. NeverOverfull' /\ ReaderSleepsOnEmpty' /\ WriterSleepsOnFull'
  BY QuietCount DEF call, pipeVars, TypeOK, NeverOverfull, ReaderSleepsOnEmpty, WriterSleepsOnFull
<1>3. EndsOpen' /\ FreedByLastClose'
  BY DEF call, pipeVars, TypeOK, EndsOpen, FreedByLastClose, Proc
<1>4. SomethingLeft'
  BY PipeConstants DEF call, TypeOK, SomethingLeft
<1> QED BY <1>1, <1>2, <1>3, <1>4

\* ... kill(), ...
LEMMA KillInv ==
  ASSUME PipeInv, NEW p \in Proc, kill(p)
  PROVE  PipeInv'
<1> USE DEF PipeInv
<1>1. TypeOK'
  BY DEF TypeOK, kill, pipeVars
<1>2. NeverOverfull' /\ ReaderSleepsOnEmpty' /\ WriterSleepsOnFull'
  BY QuietCount
  DEF kill, pipeVars, TypeOK, NeverOverfull, ReaderSleepsOnEmpty, WriterSleepsOnFull, Proc
<1>3. EndsOpen' /\ FreedByLastClose'
  BY DEF kill, pipeVars, TypeOK, EndsOpen, FreedByLastClose, Proc
<1>4. SomethingLeft'
  BY DEF kill, TypeOK, SomethingLeft
<1> QED BY <1>1, <1>2, <1>3, <1>4

\* How much of a write fits
LEMMA FitsIs ==
  ASSUME TypeOK, NeverOverfull, NEW w \in Writer
  PROVE  /\ Fits(w) \in Nat /\ Fits(w) <= left[w] /\ Fits(w) \in 0..(PIPESIZE - Count)
         /\ left[w] \in 0..MaxN /\ left[w] - Fits(w) \in 0..MaxN
         /\ Fits(w) < left[w] => Count + Fits(w) = PIPESIZE
<1>1. Count \in Nat /\ Count <= PIPESIZE /\ PIPESIZE \in Nat
  BY CountIs, PipeConstants
<1>2. left[w] \in 0..MaxN /\ MaxN \in Nat
  BY MaxNIs DEF TypeOK, Proc
<1> QED BY <1>1, <1>2 DEF Fits, Min

\* The bytes pipewrite() stores before it returns or sleeps
LEMMA WriteCount ==
  ASSUME TypeOK, NeverOverfull, NEW w \in Writer,
         \E bs \in [1..Fits(w) -> Byte] : data' = Stored(bs),
         nwrite' = Add(nwrite, Fits(w)), nread' = nread
  PROVE  /\ data' \in [Index -> Byte] /\ nwrite' \in Counter /\ nread' \in Counter
         /\ Count' = Count + Fits(w) /\ NeverOverfull'
         /\ Full' <=> Count' = PIPESIZE
         /\ Full => Full'
<1>1. PICK bs \in [1..Fits(w) -> Byte] : data' = Stored(bs)
  OBVIOUS
<1>2. /\ Fits(w) \in Nat /\ Fits(w) \in 0..(PIPESIZE - Count)
      /\ Count \in Nat /\ PIPESIZE \in Nat /\ Count <= PIPESIZE
  BY FitsIs, CountIs, PipeConstants
<1>3. data' \in [Index -> Byte] /\ nwrite' \in Counter /\ Count' = Count + Fits(w)
  BY <1>1, <1>2, ContentsPut
<1>4. nread' \in Counter
  BY CountIs
<1>5. Full' <=> Count' = PIPESIZE
  BY <1>3, <1>4, DistEnds DEF Full, Count, Dist, Add
<1>6. Full => Count = PIPESIZE
  BY CountIs
<1> QED BY <1>2, <1>3, <1>4, <1>5, <1>6 DEF NeverOverfull

\* pipewrite() stores its last bytes: readers are woken, a full pipe stays full for the
\* writers that sleep.
LEMMA DoneInv ==
  ASSUME PipeInv, NEW w \in Writer, pipewrite_done(w)
  PROVE  PipeInv'
<1> USE DEF PipeInv
<1>1. /\ data' \in [Index -> Byte] /\ nwrite' \in Counter /\ nread' \in Counter
      /\ NeverOverfull' /\ (Full => Full')
  BY WriteCount DEF pipewrite_done
<1>2. pc' \in [Proc -> {"idle", "call", "sleep", "closed"}]
  BY DEF pipewrite_done, TypeOK, WakeReaders
<1>3. TypeOK'
  BY <1>1, <1>2, LeftReset, Zenon DEF pipewrite_done, TypeOK, Counter, Proc
<1>4. EndsOpen' /\ FreedByLastClose'
  BY Zenon DEF pipewrite_done, WakeReaders, TypeOK, EndsOpen, FreedByLastClose, Proc
<1>5. ReaderSleepsOnEmpty'
  BY DEF pipewrite_done, WakeReaders, TypeOK, ReaderSleepsOnEmpty, Proc
<1>6. WriterSleepsOnFull'
  BY <1>1, PipeConstants DEF pipewrite_done, WakeReaders, TypeOK, WriterSleepsOnFull, Proc
<1>7. SomethingLeft'
  BY DEF pipewrite_done, WakeReaders, TypeOK, SomethingLeft, Proc
<1> QED BY <1>1, <1>3, <1>4, <1>5, <1>6, <1>7

\* pipewrite() sleeps: the pipe is full, and no reader is asleep any more.
LEMMA WriteSleepInv ==
  ASSUME PipeInv, NEW w \in Writer, pipewrite_sleep(w)
  PROVE  PipeInv'
<1> USE DEF PipeInv
<1>1. /\ data' \in [Index -> Byte] /\ nwrite' \in Counter /\ nread' \in Counter
      /\ NeverOverfull'
      /\ Count' = Count + Fits(w) /\ (Full' <=> Count' = PIPESIZE)
  BY WriteCount DEF pipewrite_sleep
<1>2. /\ pc' \in [Proc -> {"idle", "call", "sleep", "closed"}]
      /\ killed' \in [Proc -> BOOLEAN] /\ \A p \in Proc : killed[p] => killed'[p]
  BY Zenon DEF pipewrite_sleep, late_kill, TypeOK, WakeReaders
<1>3. left' \in [Proc -> 0..MaxN]
  BY FitsIs DEF pipewrite_sleep, TypeOK, Proc
<1>4. TypeOK'
  BY <1>1, <1>2, <1>3, Zenon DEF pipewrite_sleep, TypeOK, Counter
<1>5. EndsOpen' /\ FreedByLastClose'
  BY Zenon DEF pipewrite_sleep, WakeReaders, TypeOK, EndsOpen, FreedByLastClose, Proc
<1>6. ReaderSleepsOnEmpty'
  BY PipeConstants DEF pipewrite_sleep, WakeReaders, TypeOK, ReaderSleepsOnEmpty, Proc
<1>7. Full'
  BY <1>1, FitsIs DEF pipewrite_sleep
<1>8. WriterSleepsOnFull'
  BY <1>7 DEF pipewrite_sleep, WriterSleepsOnFull
<1>9. SomethingLeft'
  BY FitsIs DEF pipewrite_sleep, WakeReaders, TypeOK, SomethingLeft, Proc
<1> QED BY <1>1, <1>4, <1>5, <1>6, <1>8, <1>9

\* pipewrite() returns -1 without a wakeup: it was killed, or there is no reader.
LEMMA WriteFailInv ==
  ASSUME PipeInv, NEW w \in Writer, pipewrite_fail(w)
  PROVE  PipeInv'
<1> USE DEF PipeInv
<1>1. /\ data' \in [Index -> Byte] /\ nwrite' \in Counter /\ nread' \in Counter
      /\ NeverOverfull' /\ (Full => Full')
  BY WriteCount DEF pipewrite_fail
<1>2. TypeOK'
  BY <1>1, LeftReset, Zenon DEF pipewrite_fail, TypeOK, Counter, Proc
<1>3. EndsOpen' /\ FreedByLastClose'
  BY DEF pipewrite_fail, TypeOK, EndsOpen, FreedByLastClose, Proc
<1>4. ReaderSleepsOnEmpty'
  <2>1. CASE killed[w]
    BY <2>1, PipeConstants DEF pipewrite_fail, TypeOK, ReaderSleepsOnEmpty, Proc
  <2>2. CASE ~readopen
    BY <2>2, PipeConstants DEF pipewrite_fail, TypeOK, EndsOpen, ReaderSleepsOnEmpty, Proc
  <2> QED BY <2>1, <2>2 DEF pipewrite_fail
<1>5. WriterSleepsOnFull'
  BY <1>1 DEF pipewrite_fail, TypeOK, WriterSleepsOnFull, Proc
<1>6. SomethingLeft'
  BY DEF pipewrite_fail, TypeOK, SomethingLeft, Proc
<1> QED BY <1>1, <1>2, <1>3, <1>4, <1>5, <1>6

\* piperead() sleeps on an empty pipe.
LEMMA ReadSleepInv ==
  ASSUME PipeInv, NEW r \in Reader, piperead_sleep(r)
  PROVE  PipeInv'
<1> USE DEF PipeInv
<1>1. killed' \in [Proc -> BOOLEAN] /\ \A p \in Proc : killed[p] => killed'[p]
  BY Zenon DEF piperead_sleep, late_kill, TypeOK
<1>2. TypeOK'
  BY <1>1, Zenon DEF piperead_sleep, pipeVars, TypeOK
<1>3. EndsOpen' /\ FreedByLastClose'
  BY DEF piperead_sleep, pipeVars, TypeOK, EndsOpen, FreedByLastClose, Proc
<1>4. NeverOverfull' /\ ReaderSleepsOnEmpty' /\ WriterSleepsOnFull'
  BY <1>1, QuietCount, PipeConstants
  DEF piperead_sleep, pipeVars, TypeOK, NeverOverfull, ReaderSleepsOnEmpty, WriterSleepsOnFull, Proc
<1>5. SomethingLeft'
  BY DEF piperead_sleep, TypeOK, SomethingLeft, Proc
<1> QED BY <1>2, <1>3, <1>4, <1>5

\* piperead() returns -1 because it was killed.
LEMMA ReadFailInv ==
  ASSUME PipeInv, NEW r \in Reader, piperead_fail(r)
  PROVE  PipeInv'
<1> USE DEF PipeInv
<1>1. TypeOK'
  BY LeftReset, Zenon DEF piperead_fail, pipeVars, TypeOK, Proc
<1>2. EndsOpen' /\ FreedByLastClose'
  BY DEF piperead_fail, pipeVars, TypeOK, EndsOpen, FreedByLastClose, Proc
<1>3. NeverOverfull' /\ ReaderSleepsOnEmpty' /\ WriterSleepsOnFull'
  BY QuietCount
  DEF piperead_fail, pipeVars, TypeOK, NeverOverfull, ReaderSleepsOnEmpty, WriterSleepsOnFull, Proc
<1>4. SomethingLeft'
  BY DEF piperead_fail, TypeOK, SomethingLeft, Proc
<1> QED BY <1>1, <1>2, <1>3, <1>4

\* What a read that returns bytes takes out
LEMMA ReadCount ==
  ASSUME TypeOK, NeverOverfull, NEW r \in Reader, piperead(r)
  PROVE  \E m \in 0..Count :
           /\ m <= MaxN /\ m = Min(left[r], Count)
           /\ nread' = Add(nread, m) /\ nread' \in Counter
           /\ Count' = Count - m
           /\ got' = [got EXCEPT ![r] = <<SubSeq(Contents, 1, m)>>]
           /\ SubSeq(Contents, 1, m) \in [1..m -> Byte]
           /\ Contents' = SubSeq(Contents, m + 1, Len(Contents))
<1> DEFINE m == Min(left[r], Count)
<1>1. Count \in Nat /\ left[r] \in 0..MaxN /\ MaxN \in Nat
  BY CountIs, MaxNIs DEF TypeOK, Proc
<1>2. m \in 0..Count /\ m <= MaxN /\ m \in Nat /\ m = Min(left[r], Count)
  BY <1>1 DEF Min
<1>3. /\ got' = [got EXCEPT ![r] = <<[i \in 1..m |-> data[Add(nread, i - 1) % PIPESIZE]]>>]
      /\ nread' = Add(nread, m) /\ data' = data /\ nwrite' = nwrite
  BY DEF piperead
<1> HIDE DEF m
<1>4. /\ nread' \in Counter /\ Len(Contents) = Count
      /\ Count' = Count - m
      /\ [i \in 1..m |-> data[Add(nread, i - 1) % PIPESIZE]] = SubSeq(Contents, 1, m)
      /\ Contents' = SubSeq(Contents, m + 1, Len(Contents))
  BY <1>2, <1>3, ContentsGet
<1>5. [i \in 1..m |-> data[Add(nread, i - 1) % PIPESIZE]] \in [1..m -> Byte]
  <2> SUFFICES ASSUME NEW i \in 1..m PROVE data[Add(nread, i - 1) % PIPESIZE] \in Byte
    OBVIOUS
  <2>1. i - 1 \in Nat /\ nread \in Nat /\ data \in [Index -> Byte]
    BY <1>2, CountIs
  <2>2. Add(nread, i - 1) \in Nat
    BY <2>1, PipeConstants DEF Add
  <2>3. Add(nread, i - 1) % PIPESIZE \in Index
    BY <2>2, PipeConstants DEF Index
  <2> QED BY <2>1, <2>3
<1> QED BY <1>2, <1>3, <1>4, <1>5, Zenon

\* piperead() returns bytes or end-of-file and wakes every writer.
LEMMA ReadInv ==
  ASSUME PipeInv, NEW r \in Reader, piperead(r)
  PROVE  PipeInv'
<1> USE DEF PipeInv
<1>1. PICK m \in 0..Count :
        /\ m <= MaxN /\ m = Min(left[r], Count)
        /\ nread' = Add(nread, m) /\ nread' \in Counter
        /\ Count' = Count - m
        /\ got' = [got EXCEPT ![r] = <<SubSeq(Contents, 1, m)>>]
        /\ SubSeq(Contents, 1, m) \in [1..m -> Byte]
        /\ Contents' = SubSeq(Contents, m + 1, Len(Contents))
  BY ReadCount
<1>2. /\ Count \in Nat /\ Count <= PIPESIZE /\ m \in Nat /\ PIPESIZE \in Nat /\ MaxN \in Nat
      /\ Empty <=> Count = 0
      /\ nread' \in Counter /\ nwrite' \in Counter /\ nwrite' = nwrite
  BY <1>1, CountIs, MaxNIs, PipeConstants DEF piperead
<1>3. /\ pc' \in [Proc -> {"idle", "call", "sleep", "closed"}]
      /\ \A p \in Proc : pc'[p] = "closed" <=> pc[p] = "closed"
      /\ \A w \in Writer : pc'[w] # "sleep"
      /\ \A q \in Reader : pc'[q] = "sleep" => pc[q] = "sleep"
  BY PipeConstants DEF piperead, WakeWriters, TypeOK, Proc
<1>4. got' \in [Reader -> {<<>>} \cup {<<c>> : c \in Chunk}]
  <2> DEFINE c == SubSeq(Contents, 1, m)
  <2>1. m \in 0..MaxN /\ c \in [1..m -> Byte]
    BY <1>1, <1>2
  <2> HIDE DEF c
  <2>2. c \in Chunk
    BY <2>1 DEF Chunk
  <2> QED BY <1>1, <2>2, Zenon DEF TypeOK, c
<1>5. TypeOK'
  BY <1>2, <1>3, <1>4, LeftReset, Zenon DEF piperead, TypeOK, Counter, Proc
<1>6. NeverOverfull'
  BY <1>1, <1>2 DEF NeverOverfull
<1>7. EndsOpen' /\ FreedByLastClose'
  BY <1>3, Zenon DEF piperead, EndsOpen, FreedByLastClose, Proc
<1>8. ReaderSleepsOnEmpty'
  <2> SUFFICES ASSUME NEW q \in Reader, pc'[q] = "sleep"
               PROVE  writeopen' /\ (Empty' \/ \E w \in Writer : killed'[w])
    BY DEF ReaderSleepsOnEmpty
  <2>1. writeopen /\ (Empty \/ \E w \in Writer : killed[w])
    BY <1>3 DEF ReaderSleepsOnEmpty
  <2> QED BY <2>1 DEF piperead
<1>9. WriterSleepsOnFull'
  BY <1>3 DEF WriterSleepsOnFull
<1>10. SomethingLeft'
  BY DEF piperead, WakeWriters, TypeOK, SomethingLeft, Proc
<1> QED BY <1>5, <1>6, <1>7, <1>8, <1>9, <1>10

\* pipeclose() of the write end wakes the readers with the last reference.
LEMMA CloseWriteInv ==
  ASSUME PipeInv, NEW w \in Writer, close_write(w)
  PROVE  PipeInv'
<1> USE DEF PipeInv
<1>1. /\ pc' \in [Proc -> {"idle", "call", "sleep", "closed"}]
      /\ pc'[w] = "closed" /\ pc[w] = "idle"
      /\ \A p \in Proc \ {w} : pc'[p] = "closed" <=> pc[p] = "closed"
      /\ \A p \in Proc : pc'[p] = "sleep" => pc[p] = "sleep"
      /\ \A p \in Proc : pc'[p] \in {"call", "sleep"} => pc[p] \in {"call", "sleep"}
  BY DEF close_write, WakeReaders, TypeOK, Proc
<1>2. TypeOK'
  BY <1>1, Zenon DEF close_write, TypeOK
<1>3. SomethingLeft'
  BY <1>1 DEF close_write, SomethingLeft
<1>4. NeverOverfull' /\ WriterSleepsOnFull'
  BY <1>1, QuietCount DEF close_write, NeverOverfull, WriterSleepsOnFull, Proc
<1>5. writeopen
  BY <1>1 DEF EndsOpen
<1>6. CASE Sharers(w, Writer) # {}
  <2>1. /\ writeopen' = writeopen /\ freed' = freed /\ readopen' = readopen
        /\ UNCHANGED <<nread, nwrite, killed>>
    BY <1>6 DEF close_write
  <2>2. PICK v \in Writer \ {w} : pc[v] # "closed"
    BY <1>6 DEF Sharers
  <2>3. v \in Proc \ {w} /\ pc'[v] # "closed" /\ Reader \subseteq Proc \ {w}
    BY <1>1, <2>2, PipeConstants DEF Proc
  <2>4. EndsOpen'
    BY <1>1, <1>5, <2>1, <2>3, <2>2 DEF EndsOpen
  <2>5. FreedByLastClose'
    BY <1>5, <2>1, <2>3 DEF EndsOpen, FreedByLastClose
  <2>6. ReaderSleepsOnEmpty'
    BY <1>1, <2>1, QuietCount DEF ReaderSleepsOnEmpty, Proc
  <2> QED BY <1>2, <1>3, <1>4, <2>4, <2>5, <2>6
<1>7. CASE Sharers(w, Writer) = {}
  <2>1. /\ writeopen' = FALSE /\ readopen' = readopen /\ freed' = ~readopen
        /\ pc' = WakeReaders([pc EXCEPT ![w] = "closed"])
    BY <1>7 DEF close_write
  <2>2. \A v \in Writer : pc'[v] = "closed"
    BY <1>1, <1>7 DEF Sharers, Proc
  <2>3. Reader \subseteq Proc \ {w} /\ Proc = Writer \cup Reader
    BY PipeConstants DEF Proc
  <2>4. readopen' <=> \E r \in Reader : pc'[r] # "closed"
    BY <1>1, <2>1, <2>3, Zenon DEF EndsOpen
  <2>5. EndsOpen'
    BY <2>1, <2>2, <2>4, Zenon DEF EndsOpen, TypeOK
  <2>6. FreedByLastClose'
    BY <2>1, <2>2, <2>3, <2>4, Zenon DEF FreedByLastClose, TypeOK
  <2>7. ReaderSleepsOnEmpty'
    BY <2>1 DEF WakeReaders, TypeOK, ReaderSleepsOnEmpty, Proc
  <2> QED BY <1>2, <1>3, <1>4, <2>5, <2>6, <2>7
<1> QED BY <1>6, <1>7

\* pipeclose() of the read end wakes the writers with the last reference.
LEMMA CloseReadInv ==
  ASSUME PipeInv, NEW r \in Reader, close_read(r)
  PROVE  PipeInv'
<1> USE DEF PipeInv
<1>1. /\ pc' \in [Proc -> {"idle", "call", "sleep", "closed"}]
      /\ pc'[r] = "closed" /\ pc[r] = "idle"
      /\ \A p \in Proc \ {r} : pc'[p] = "closed" <=> pc[p] = "closed"
      /\ \A p \in Proc : pc'[p] = "sleep" => pc[p] = "sleep"
      /\ \A p \in Proc : pc'[p] \in {"call", "sleep"} => pc[p] \in {"call", "sleep"}
  BY DEF close_read, WakeWriters, TypeOK, Proc
<1>2. TypeOK'
  BY <1>1, Zenon DEF close_read, TypeOK
<1>3. SomethingLeft'
  BY <1>1 DEF close_read, SomethingLeft
<1>4. NeverOverfull' /\ ReaderSleepsOnEmpty'
  BY <1>1, QuietCount DEF close_read, NeverOverfull, ReaderSleepsOnEmpty, Proc
<1>5. readopen
  BY <1>1 DEF EndsOpen
<1>6. CASE Sharers(r, Reader) # {}
  <2>1. /\ writeopen' = writeopen /\ freed' = freed /\ readopen' = readopen
        /\ UNCHANGED <<nread, nwrite, killed>>
    BY <1>6 DEF close_read
  <2>2. PICK v \in Reader \ {r} : pc[v] # "closed"
    BY <1>6 DEF Sharers
  <2>3. v \in Proc \ {r} /\ pc'[v] # "closed" /\ Writer \subseteq Proc \ {r}
    BY <1>1, <2>2, PipeConstants DEF Proc
  <2>4. EndsOpen'
    BY <1>1, <1>5, <2>1, <2>3, <2>2 DEF EndsOpen
  <2>5. FreedByLastClose'
    BY <1>5, <2>1, <2>3 DEF EndsOpen, FreedByLastClose
  <2>6. WriterSleepsOnFull'
    BY <1>1, <2>1, QuietCount DEF WriterSleepsOnFull, Proc
  <2> QED BY <1>2, <1>3, <1>4, <2>4, <2>5, <2>6
<1>7. CASE Sharers(r, Reader) = {}
  <2>1. /\ readopen' = FALSE /\ writeopen' = writeopen /\ freed' = ~writeopen
        /\ pc' = WakeWriters([pc EXCEPT ![r] = "closed"])
    BY <1>7 DEF close_read
  <2>2. \A v \in Reader : pc'[v] = "closed"
    BY <1>1, <1>7 DEF Sharers, Proc
  <2>3. Writer \subseteq Proc \ {r} /\ Proc = Writer \cup Reader
    BY PipeConstants DEF Proc
  <2>4. writeopen' <=> \E w \in Writer : pc'[w] # "closed"
    BY <1>1, <2>1, <2>3, Zenon DEF EndsOpen
  <2>5. EndsOpen'
    BY <2>1, <2>2, <2>4, Zenon DEF EndsOpen, TypeOK
  <2>6. FreedByLastClose'
    BY <2>1, <2>2, <2>3, <2>4, Zenon DEF FreedByLastClose, TypeOK
  <2>7. WriterSleepsOnFull'
    BY <2>1 DEF WakeWriters, TypeOK, WriterSleepsOnFull, Proc
  <2> QED BY <1>2, <1>3, <1>4, <2>5, <2>6, <2>7
<1> QED BY <1>6, <1>7

\* A step of somebody else changes nothing.
LEMMA StutterInv == PipeInv /\ UNCHANGED vars => PipeInv'
<1> SUFFICES ASSUME PipeInv, UNCHANGED vars PROVE PipeInv'
  OBVIOUS
<1> USE DEF PipeInv, vars, pipeVars
<1>1. TypeOK'
  BY DEF TypeOK
<1>2. NeverOverfull' /\ ReaderSleepsOnEmpty' /\ WriterSleepsOnFull'
  BY QuietCount DEF NeverOverfull, ReaderSleepsOnEmpty, WriterSleepsOnFull
<1>3. EndsOpen' /\ FreedByLastClose' /\ SomethingLeft'
  BY DEF EndsOpen, FreedByLastClose, SomethingLeft
<1> QED BY <1>1, <1>2, <1>3

\* PipeInv is inductive.
LEMMA NextInv == PipeInv /\ [Next]_vars => PipeInv'
<1> SUFFICES ASSUME PipeInv, Next PROVE PipeInv'
  BY StutterInv
<1>1. PICK p \in Proc : step(p) \/ kill(p)
  BY DEF Next
<1>2. CASE kill(p)
  BY <1>2, KillInv
<1>3. CASE \E n \in Sizes : call(p, n)
  BY <1>3, CallInv
<1>4. CASE p \in Writer /\ (write_step(p) \/ close_write(p))
  BY <1>4, DoneInv, WriteSleepInv, WriteFailInv, CloseWriteInv DEF write_step
<1>5. CASE p \in Reader /\ (read_step(p) \/ close_read(p))
  BY <1>5, ReadSleepInv, ReadFailInv, ReadInv, CloseReadInv DEF read_step
<1> QED BY <1>1, <1>2, <1>3, <1>4, <1>5 DEF step

\* pipewrite(), piperead() and pipeclose() keep PipeInv: the buffer is never overfull, the
\* page is freed with the last reference and not before, and nobody sleeps without a
\* reason, for any number of processes, size of the buffer and width of the counters.
THEOREM PipeInvTheorem == Spec => []PipeInv
  BY InitInv, NextInv, PTL DEF Spec

-----------------------------------------------------------------------------
(* The ring buffer implements the bounded queue. *)

\* A new pipe is an empty queue.
LEMMA InitRefines == Init => Fifo!Init
<1> SUFFICES ASSUME Init PROVE Fifo!Init
  OBVIOUS
<1>1. Count = 0
  BY InitInv, CountIs DEF PipeInv, Init, Empty
<1>2. Contents = <<>>
  BY <1>1 DEF Contents
<1> QED BY <1>2 DEF Init, Fifo!Init

\* The bytes in the pipe are a sequence of bytes.
LEMMA ContentsSeq ==
  ASSUME TypeOK, NeverOverfull
  PROVE  Contents \in Seq(Byte) /\ Len(Contents) = Count
<1>1. /\ nread \in Nat /\ nread \in Counter /\ data \in [Index -> Byte]
      /\ Count \in Nat /\ Count <= PIPESIZE /\ Contents = Bytes(data, nread, Count)
  BY CountIs, Zenon
<1> QED BY <1>1, BytesSeq

\* Steps that leave the pipe alone leave the queue alone.
LEMMA QuietContents ==
  ASSUME UNCHANGED <<data, nread, nwrite>>
  PROVE  Contents' = Contents
  BY DEF Contents, Count, Add

\* A write is one addition to the queue, or none when the pipe was full.
LEMMA WriteRefines ==
  ASSUME PipeInv, NEW w \in Writer, write_step(w)
  PROVE  [Fifo!Next]_(Fifo!vars)
<1> USE DEF PipeInv
<1>1. /\ \E bs \in [1..Fits(w) -> Byte] : data' = Stored(bs)
      /\ nwrite' = Add(nwrite, Fits(w)) /\ nread' = nread
      /\ writeopen' = writeopen /\ got' = got /\ pc[w] = "call"
  BY DEF write_step, pipewrite_done, pipewrite_sleep, pipewrite_fail
<1>2. PICK bs \in [1..Fits(w) -> Byte] : data' = Stored(bs)
  BY <1>1
<1> DEFINE m == Fits(w)
<1>3. m \in 0..(PIPESIZE - Count) /\ m \in Nat /\ Count \in Nat /\ PIPESIZE \in Nat
  BY FitsIs, CountIs, PipeConstants
<1>4. bs \in [1..m -> Byte] /\ nwrite' = Add(nwrite, m)
  BY <1>1, <1>2
<1> HIDE DEF m
<1>5. Contents' = Contents \o bs
  BY <1>1, <1>2, <1>3, <1>4, ContentsPut, Zenon
<1>6. Contents \in Seq(Byte) /\ Len(Contents) = Count
  BY ContentsSeq
<1>7. writeopen
  BY <1>1 DEF EndsOpen
<1>8. CASE m = 0
  <2>1. bs = <<>>
    BY <1>4, <1>8
  <2>2. Contents' = Contents
    BY <1>5, <1>6, <2>1, ConcatEmptySeq
  <2> QED BY <1>1, <2>2 DEF Fifo!vars
<1>9. CASE m # 0
  <2>1. m \in 1..(PIPESIZE - Len(Contents))
    BY <1>3, <1>6, <1>9
  <2>2. Fifo!Put
    BY <1>1, <1>4, <1>5, <1>7, <2>1, Zenon DEF Fifo!Put
  <2> QED BY <2>2 DEF Fifo!Next
<1> QED BY <1>8, <1>9

\* A read takes the oldest bytes; it takes none only at end-of-file.
LEMMA ReadRefines ==
  ASSUME PipeInv, NEW r \in Reader, piperead(r)
  PROVE  [Fifo!Next]_(Fifo!vars)
<1> USE DEF PipeInv
<1>1. PICK m \in 0..Count :
        /\ m <= MaxN /\ m = Min(left[r], Count)
        /\ nread' = Add(nread, m) /\ nread' \in Counter
        /\ Count' = Count - m
        /\ got' = [got EXCEPT ![r] = <<SubSeq(Contents, 1, m)>>]
        /\ SubSeq(Contents, 1, m) \in [1..m -> Byte]
        /\ Contents' = SubSeq(Contents, m + 1, Len(Contents))
  BY ReadCount
<1>2. /\ Count \in Nat /\ m \in Nat /\ MaxN \in Nat /\ left[r] \in 0..MaxN
      /\ Empty <=> Count = 0
      /\ left[r] # 0 /\ (~Empty \/ ~writeopen) /\ writeopen' = writeopen
  <2>1. Count \in Nat /\ (Empty <=> Count = 0)
    BY CountIs
  <2>2. m \in Nat
    BY <2>1, <1>1
  <2>3. MaxN \in Nat /\ left[r] \in 0..MaxN
    BY MaxNIs DEF TypeOK, Proc
  <2>4. left[r] # 0 /\ (~Empty \/ ~writeopen) /\ writeopen' = writeopen
    BY DEF piperead, SomethingLeft, Proc
  <2> QED BY <2>1, <2>2, <2>3, <2>4
<1>3. Contents \in Seq(Byte) /\ Len(Contents) = Count
  BY ContentsSeq
<1>4. CASE m = 0
  <2>1. Count = 0
    BY <1>1, <1>2, <1>4 DEF Min
  <2>2. Contents = <<>> /\ ~writeopen
    BY <1>2, <1>3, <2>1
  <2>3. SubSeq(Contents, 1, m) = <<>>
    BY <1>1, <1>4
  <2>4. Contents' = Contents
    <3>1. Count' = 0
      BY <1>1, <1>4, <2>1
    <3>2. Contents' = <<>>
      BY <3>1 DEF Contents
    <3> QED BY <2>2, <3>2
  <2>5. Fifo!EndOfFile(r)
    BY <1>1, <1>2, <2>2, <2>3, <2>4, Zenon DEF Fifo!EndOfFile
  <2> QED BY <2>5 DEF Fifo!Next
<1>5. CASE m # 0
  <2>1. m \in 1..MaxN /\ m \in 1..Len(Contents)
    BY <1>1, <1>2, <1>3, <1>5
  <2>2. Fifo!Get(r, m)
    BY <1>1, <1>2, <2>1 DEF Fifo!Get
  <2> QED BY <2>1, <2>2 DEF Fifo!Next
<1> QED BY <1>4, <1>5

\* A call by a reader is a new read; by a writer it is invisible.
LEMMA CallRefines ==
  ASSUME PipeInv, NEW p \in Proc, NEW n \in Sizes, call(p, n)
  PROVE  [Fifo!Next]_(Fifo!vars)
<1>1. Contents' = Contents /\ writeopen' = writeopen
  BY QuietContents DEF call, pipeVars
<1>2. got \in [Reader -> {<<>>} \cup {<<c>> : c \in Chunk}]
  BY DEF PipeInv, TypeOK
<1>3. got' = [r \in Reader |-> IF r = p THEN <<>> ELSE got[r]]
  BY DEF call
<1>4. CASE p \in Reader
  <2>1. got' = [got EXCEPT ![p] = <<>>]
    BY <1>2, <1>3, <1>4, Zenon
  <2>2. Fifo!Ask(p)
    BY <1>1, <2>1 DEF Fifo!Ask
  <2> QED BY <1>4, <2>2 DEF Fifo!Next
<1>5. CASE p \notin Reader
  <2>1. got' = got
    BY <1>2, <1>3, <1>5
  <2> QED BY <1>1, <2>1 DEF Fifo!vars
<1> QED BY <1>4, <1>5

\* The last close of the write end closes the queue; the others are invisible.
LEMMA CloseRefines ==
  ASSUME PipeInv, NEW p \in Proc,
         (p \in Writer /\ close_write(p)) \/ (p \in Reader /\ close_read(p))
  PROVE  [Fifo!Next]_(Fifo!vars)
<1>1. Contents' = Contents /\ got' = got
  BY QuietContents DEF close_write, close_read
<1>2. writeopen' = writeopen \/ writeopen' = FALSE
  BY DEF close_write, close_read
<1>3. CASE writeopen' = writeopen
  BY <1>1, <1>3 DEF Fifo!vars
<1>4. CASE writeopen' = FALSE
  BY <1>1, <1>4 DEF Fifo!CloseWrite, Fifo!Next
<1> QED BY <1>2, <1>3, <1>4, Zenon

\* Every step of the pipe is a step of the queue or leaves it alone.
LEMMA NextRefines == PipeInv /\ [Next]_vars => [Fifo!Next]_(Fifo!vars)
<1> SUFFICES ASSUME PipeInv, [Next]_vars PROVE [Fifo!Next]_(Fifo!vars)
  OBVIOUS
<1>1. CASE UNCHANGED vars
  BY <1>1, QuietContents DEF vars, pipeVars, Fifo!vars
<1>2. CASE Next
  <2>1. PICK p \in Proc : step(p) \/ kill(p)
    BY <1>2 DEF Next
  <2>2. CASE kill(p)
    BY <2>2, QuietContents DEF kill, pipeVars, Fifo!vars
  <2>3. CASE \E n \in Sizes : call(p, n)
    BY <2>3, CallRefines
  <2>4. CASE p \in Writer /\ write_step(p)
    BY <2>4, WriteRefines
  <2>5. CASE p \in Reader /\ (piperead_sleep(p) \/ piperead_fail(p))
    BY <2>5, QuietContents DEF piperead_sleep, piperead_fail, pipeVars, Fifo!vars
  <2>6. CASE p \in Reader /\ piperead(p)
    BY <2>6, ReadRefines
  <2>7. CASE (p \in Writer /\ close_write(p)) \/ (p \in Reader /\ close_read(p))
    BY <2>7, CloseRefines
  <2> QED BY <2>1, <2>2, <2>3, <2>4, <2>5, <2>6, <2>7 DEF step, read_step
<1> QED BY <1>1, <1>2

\* The ring buffer of pipe.c with its wrapping counters is a bounded queue: no byte is lost,
\* duplicated or reordered, and end-of-file comes only after the last byte.
THEOREM FifoTheorem == Spec => FifoRefinement
<1>1. Init => Fifo!Init
  BY InitRefines
<1>2. PipeInv /\ [Next]_vars => [Fifo!Next]_(Fifo!vars)
  BY NextRefines
<1> QED BY <1>1, <1>2, PipeInvTheorem, PTL DEF Spec, FifoRefinement, Fifo!Spec
=============================================================================
