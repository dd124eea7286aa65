\* Three processes and twelve pages, of which init has five: an exec() needs seven
\* more and a child five.  A page table maps two pages of two units each.
SPECIFICATION Spec
CONSTANTS
  NPROC = 3
  NPAGES = 12
  PGSIZE = 2
  NPTENTRIES = 2
  KERNBASE = 8
  NKPT = 1
  Images = {1, 3}
  Deltas = {2, 3}
  NOFILE = 3
  NFILE = 3
  MaxCalls = 4
INVARIANTS PagesInv SpacesWhole HandlesCounted
CHECK_DEADLOCK FALSE
