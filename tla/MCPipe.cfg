\* Two bytes of buffer, counters that wrap at four, calls of one byte and of more than the buffer;
\* one writer and the reader may be killed.
SPECIFICATION FairSpec
CONSTANTS
  Writer = {w1, w2}
  Reader = {r1}
  Byte = {0, 1}
  PIPESIZE = 2
  WRAP = 4
  Sizes = {1, 3}
  Mortal = {w1, r1}
INVARIANTS PipeInv
PROPERTIES FifoRefinement SleepersWake
CHECK_DEADLOCK FALSE
