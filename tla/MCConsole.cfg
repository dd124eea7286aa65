\* Two CPUs, two processes that read a line of two characters, sleep on the clock or
\* run; a buffer of two characters whose indices wrap at four, a screen of one line
\* above the one that is cleared; two keys and two more interrupts.
SPECIFICATION Spec
CONSTANTS
  CPU = {0, 1}
  Lock = {"cons", "ticks", "ptable"}
  NoCpu = 9
  Proc = {p1, p2}
  INPUT_BUF = 2
  INDEX = 4
  TICKS = 4
  ROWS = 2
  COLS = 2
  Sizes = {2}
  MaxKeys = 2
  MaxIrqs = 2
  MaxCalls = 2
SYMMETRY Processes
INVARIANTS LocksInv ConsoleInv SleepersHaveReason
CHECK_DEADLOCK FALSE
