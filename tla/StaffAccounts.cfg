SPECIFICATION Spec
CONSTANTS
  Procs = {p1, p2}
  Made = {201}
  Crm = {101, 102}
  Companies = {1001, 1002}
  Home <- Homes
  NULL = 0
  MaxMirrors = 2
  MaxOps = 3
SYMMETRY Symmetry
INVARIANTS LinkedOnceUntilDeleted RepairSettles
PROPERTIES FactsConserved
CHECK_DEADLOCK FALSE
