\* As MCFiles: five bits in the bitmap for four data blocks.
SPECIFICATION Spec
CONSTANTS
  Proc = {1, 2}
  Inode = {i1, i2}
  NFILE = 2
  BSIZE = 2
  NDIRECT = 1
  size = 5
  nblocks = 4
  Sizes = {1, 3}
  max = 2
  MaxCalls = 8
  None = None
VIEW View
SYMMETRY Symmetry
INVARIANTS BlocksInPartition
CHECK_DEADLOCK FALSE
