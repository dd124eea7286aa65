\* Three inodes besides the root: a removed directory, its parent and a new one.
SPECIFICATION Spec
CONSTANTS
  Proc = {p1, p2}
  Names = {"a"}
  ninodes = 5
  Paths <- MCPaths
  MaxCalls = 4
  None = None
SYMMETRY Processes
INVARIANTS TreeInv NothingLost OnlyStalePanics
