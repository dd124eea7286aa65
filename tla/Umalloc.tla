------------------------------ MODULE Umalloc -------------------------------
(***************************************************************************)
(* umalloc.c: malloc() and free() of the user library, with a circular     *)
(* list of the free blocks in the order of their addresses.  Addresses and *)
(* requests are in bytes, sizes in units of a Header.  base, in the data   *)
(* segment below the heap, is at 0 and the heap behind it.  Requests are   *)
(* far below 2^31 bytes, so that the arithmetic on uints does not wrap and *)
(* sbrk() is not asked for a negative number.                              *)
(***************************************************************************)
EXTENDS Integers, FiniteSets, FiniteSetsExt

CONSTANTS HDR,         \* sizeof(Header)
          NALLOC,      \* the least that morecore() asks for: 4096 units in the code
          HeapLimit,   \* where sbrk() fails
          Requests,    \* the bytes that programs ask for
          MaxBlocks    \* bound: blocks in use at a time

ASSUME HeapConstants ==
  /\ {HDR, NALLOC, HeapLimit, MaxBlocks} \subseteq Nat \ {0} /\ Requests \subseteq Nat

base == 0
NULL == -1

VARIABLES
  heap,     \* freep, and of every header: size and ptr
  brk,      \* the end of the heap
  used,     \* blocks in use, with the bytes asked for
  others,   \* bytes that the program got from sbrk() itself
  refused   \* malloc() returned 0 although a free block was large enough

heapVars == <<heap, brk, used, others, refused>>

HeapInit ==
  /\ heap = [freep |-> NULL, size |-> [a \in 0..HeapLimit |-> 0],
             ptr |-> [a \in 0..HeapLimit |-> NULL]]
  /\ brk = HDR
  /\ used = [a \in {} |-> 0]
  /\ others = {}
  /\ refused = FALSE

\* The address behind the block at a
behind(h, a) == a + h.size[a] * HDR

\* The loop of free(): bp goes between p and p->ptr, which may be the two ends.
RECURSIVE place(_, _, _)
place(h, bp, p) ==
  IF (bp > p /\ bp < h.ptr[p]) \/ (p >= h.ptr[p] /\ (bp > p \/ bp < h.ptr[p])) THEN p
  ELSE place(h, bp, h.ptr[p])

\* Fault: a block is not joined with the one below it.
Faultfree(h, bp) ==
  LET p == place(h, bp, h.freep)
      next == h.ptr[p]
      up == behind(h, bp) = next
      g == [h EXCEPT !.size[bp] = IF up THEN @ + h.size[next] ELSE @,
                     !.ptr[bp] = IF up THEN h.ptr[next] ELSE next]
  IN [g EXCEPT !.ptr[p] = bp, !.freep = p]

\* free(): join with the block above, and with the block below.
free(h, bp) ==
  LET p == place(h, bp, h.freep)
      next == h.ptr[p]
      up == behind(h, bp) = next
      g == [h EXCEPT !.size[bp] = IF up THEN @ + h.size[next] ELSE @,
                     !.ptr[bp] = IF up THEN h.ptr[next] ELSE next]
  IN IF behind(g, p) = bp
     THEN [g EXCEPT !.size[p] = @ + g.size[bp], !.ptr[p] = g.ptr[bp], !.freep = p]
     ELSE [g EXCEPT !.ptr[p] = bp, !.freep = p]

\* morecore(): how much it asks for, and the heap after sbrk() gave it at top.
units(nu) == IF nu < NALLOC THEN NALLOC ELSE nu
morecore(h, nu, top) == free([h EXCEPT !.size[top] = units(nu)], top)

\* The loop of malloc(): the block that is found, the heap, and the end of the heap
RECURSIVE search(_, _, _, _, _)
search(h, top, prevp, p, nunits) ==
  IF h.size[p] >= nunits
  THEN IF h.size[p] = nunits
       THEN [block |-> p, top |-> top,
             heap |-> [h EXCEPT !.ptr[prevp] = h.ptr[p], !.freep = prevp]]
       ELSE LET b == behind(h, p) - nunits * HDR IN
            [block |-> b, top |-> top,
             heap |-> [h EXCEPT !.size = [@ EXCEPT ![p] = @ - nunits, ![b] = nunits],
                                !.freep = prevp]]
  ELSE IF p # h.freep THEN search(h, top, p, h.ptr[p], nunits)
  ELSE IF top + units(nunits) * HDR > HeapLimit THEN [block |-> NULL, top |-> top, heap |-> h]
  ELSE LET g == morecore(h, nunits, top)
       IN search(g, top + units(nunits) * HDR, g.freep, g.ptr[g.freep], nunits)

\* malloc(): the bytes and a header in units, rounded up.  The first call makes the
\* list of base alone.
nunits_of(nbytes) == (nbytes + HDR - 1) \div HDR + 1
malloc(nbytes) ==
  LET h == IF heap.freep = NULL
           THEN [heap EXCEPT !.freep = base, !.ptr[base] = base, !.size[base] = 0] ELSE heap
  IN search(h, brk, h.freep, h.ptr[h.freep], nunits_of(nbytes))

\* The free list: the blocks that freep leads to
FreeList(h) ==
  LET from[k \in 0..(MaxBlocks + 3)] ==
        IF k = 0 THEN {h.freep} ELSE LET S == from[k - 1] IN S \cup {h.ptr[a] : a \in S}
  IN IF h.freep = NULL THEN {} ELSE from[MaxBlocks + 3]

\* What is no header of a block, and the ptr of a block in use, belongs to the
\* program: the allocator does not read it.
headers(h, U) ==
  LET F == FreeList(h)
  IN [h EXCEPT !.size = [a \in DOMAIN @ |-> IF a \in F \cup U THEN @[a] ELSE 0],
               !.ptr = [a \in DOMAIN @ |-> IF a \in F THEN @[a] ELSE NULL]]

call_malloc(n) ==
  /\ Cardinality(DOMAIN used) < MaxBlocks
  /\ LET m == malloc(n) IN
       /\ brk' = m.top
       /\ IF m.block = NULL
          THEN /\ refused' = \E a \in FreeList(heap) : heap.size[a] >= nunits_of(n)
               /\ UNCHANGED used
          ELSE /\ used' = [a \in DOMAIN used \cup {m.block} |-> IF a = m.block THEN n ELSE used[a]]
               /\ UNCHANGED refused
       /\ heap' = headers(m.heap, DOMAIN used')
  /\ UNCHANGED others

call_free(a) ==
  /\ used' = [b \in DOMAIN used \ {a} |-> used[b]]
  /\ heap' = headers(free(heap, a), DOMAIN used')
  /\ UNCHANGED <<brk, others, refused>>

\* The program takes a byte from sbrk() for itself.
call_sbrk ==
  /\ brk < HeapLimit
  /\ others = {}
  /\ brk' = brk + 1
  /\ others' = others \cup {brk}
  /\ UNCHANGED <<heap, used, refused>>

HeapStep ==
  \/ \E n \in Requests : call_malloc(n)
  \/ \E a \in DOMAIN used : call_free(a)
  \/ call_sbrk

-----------------------------------------------------------------------------
Bytes(a) == a..(behind(heap, a) - 1)
Free == FreeList(heap)
Blocks == (Free \cup DOMAIN used) \ {base}

\* malloc(), free(): the free list is in the order of addresses and closes at its
\* end; no two free blocks touch; the free blocks, the blocks in use and what the
\* program has from sbrk() make up the heap without overlap; a block in use has as
\* many units as the bytes asked for and a header need, no more; and no request is
\* refused that a free block can meet.
HeapInv ==
  /\ heap.freep # NULL =>
       \A a \in Free :
         LET above == {b \in Free : b > a}
         IN heap.ptr[a] = IF above = {} THEN base ELSE Min(above)
  /\ \A a, b \in Free : a # base => behind(heap, a) # b
  /\ \A a, b \in Blocks : a # b => Bytes(a) \cap Bytes(b) = {}
  /\ UNION {Bytes(a) : a \in Blocks} = (HDR..(brk - 1)) \ others
  /\ Free \cap DOMAIN used = {}
  /\ \A a \in DOMAIN used : (heap.size[a] - 1) * HDR \in used[a]..(used[a] + HDR - 1)
  /\ ~refused
=============================================================================
