\* Three blocks share two buffers, one of which log.c may pin; the disk may fail
\* on one block; bget() may find no buffer, and the machine stops there.
SPECIFICATION Spec
CONSTANTS
  Proc = {p1, p2}
  NBUF = 2
  Block = {b1, b2, b3}
  Val = {0, 1}
  Zero = 0
  NoProc = NoProc
  NoBuf = NoBuf
  NoBlock = NoBlock
  MaxPinned = 1
  BadBlock = {b3}
SYMMETRY Symmetry
INVARIANTS CacheInv
PROPERTIES StoreRefinement
CHECK_DEADLOCK FALSE
