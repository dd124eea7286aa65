\* Two processes and two files of up to three blocks of two bytes, of which all
\* but the first are indirect; balloc() can run out of blocks, and the machine
\* stops there.
SPECIFICATION Spec
CONSTANTS
  Proc = {1, 2}
  Inode = {i1, i2}
  NFILE = 2
  BSIZE = 2
  NDIRECT = 1
  size = 5
  nblocks = 4
  Sizes = {1, 3}
  max = 2
  MaxCalls = 8
  None = None
VIEW View
SYMMETRY Symmetry
INVARIANTS BlocksInv ContentsMatch OffsetInv
CHECK_DEADLOCK FALSE
