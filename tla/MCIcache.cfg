\* Two processes and three names, so that an inode may have several links; the
\* inode tables can fill up, and the machine stops there.
SPECIFICATION Spec
CONSTANTS
  Proc = {p1, p2}
  Name = {n1, n2, n3}
  NINODE = 2
  ninodes = 4
  None = None
VIEW View
SYMMETRY Symmetry
INVARIANTS IcacheInv LinksAreCounted FreedWhenUnreachable CallsGoOn
CHECK_DEADLOCK FALSE
