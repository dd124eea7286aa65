\* Two processes, four calls, a table of two slots.
SPECIFICATION Spec
CONSTANTS
  Proc = {p1, p2}
  Letter = {"a", "b", "/", "n"}
  Path <- MCPath
  Dir = {"d1", "d2"}
  Leads <- MCLeads
  Name <- MCName
  DIRSIZ = 2
  Partition = {q1, q2}
  None = None
  Lost = Lost
  SIZE = 2
  MaxCalls = 4
SYMMETRY Symmetry
INVARIANTS MountInv ViewsAgree
PROPERTIES EntriesArePermanent
CHECK_DEADLOCK FALSE
