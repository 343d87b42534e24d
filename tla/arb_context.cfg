SPECIFICATION Spec
CONSTANTS
  a1 = a1  a2 = a2  sh = sh  rm = rm  p1 = p1  p2 = p2  e1 = e1  e2 = e2  e3 = e3
  Apps = {a1, a2}
  Shell = sh
  Remover = rm
  Prims = {p1, p2}
  Entries = {e1, e2, e3}
  MaxValue = 1
  Short = short
  MaxCalls = 3
  None = None
INVARIANTS EntryLifetime RequestsOrdered WinnerCommanded GoneAppHasNoRequest
SYMMETRY AppSymmetry
CHECK_DEADLOCK FALSE
