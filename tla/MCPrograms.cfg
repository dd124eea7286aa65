\* malloc: headers of 2 bytes, a heap of 26 bytes, of which morecore() takes at least
\* 4 units; sh: every line of up to 4 tokens is parsed, nine lines are run; grep:
\* patterns and lines of up to 3 characters, which the buffer just holds, and files of
\* up to 6, which it does not; mkfs: two partitions, files that need no block, a direct
\* one, and the indirect one, and files that are too large, alone or together, a kernel
\* of up to two blocks; text: bytes of 5, paths of up to 6 characters and names cut to
\* 2, ints of 8 bits.
SPECIFICATION Spec
CONSTANTS
  HDR = 2
  NALLOC = 4
  HeapLimit = 28
  Requests = {0, 1, 3, 7}
  MaxBlocks = 3
  MAXARGS = 3
  Lines <- MCLines
  RunLines <- MCRunLines
  MaxProcs = 7
  BUF = 5
  NL = "n"
  Searches <- MCSearches
  BSIZE = 2
  IPB = 2
  BPB = 20
  NDIRECT = 1
  NINDIRECT = 2
  NINODES = 4
  LOGSIZE = 2
  FSSIZE = 17
  NPARTITIONS = 2
  KernelSizes = {0, 1, 4}
  Arguments <- MCArguments
  DIRSIZ = 2
  WIDTH = 8
  DIGITS = 4
  Memory = 5
  Moves <- MCMoves
  PathNames <- MCPathNames
  Formats <- MCFormats
  Words <- MCWords
  StringAt <- MCStringAt
  Documents <- MCDocuments
INVARIANTS HeapInv ParseInv ShellInv GrepInv ImageInv TextInv
PROPERTIES ShellPrompts
CHECK_DEADLOCK FALSE
