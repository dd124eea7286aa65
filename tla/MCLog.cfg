\* Two processes, three home blocks and a log of two blocks, of which begin_op()
\* reserves one for each operation: an operation that keeps to its share fits, one
\* that logs a second block may be stopped by the panic of log_write(), and when both
\* operations have passed its test the third block runs into the first home block.
\* Two crashes, at any disk write, those of the recovery included.  A panicked machine
\* stops, and so does one that waits for its own buffer.
SPECIFICATION FairSpec
CONSTANTS
  Proc = {p1, p2}
  Val = {0, 1}
  Zero = 0
  NoBuf = NoBuf
  MAXOPBLOCKS = 1
  LOGSIZE = 2
  NLOG = 3
  NHOME = 3
  Writes <- MCWrites
  MaxCrashes = 2
INVARIANTS LInv DurableInv SleeperHasWaker
PROPERTIES CrashAtomicity LogGoesOn
CHECK_DEADLOCK FALSE
