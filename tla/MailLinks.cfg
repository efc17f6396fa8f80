\* One account, three requests at a time; no symmetry, since GuardReleased is a liveness property.
SPECIFICATION FairMailSpec
CONSTANTS
  Procs = {p1, p2, p3}
  Addresses = {a1, a2}
  NULL = NULL
  MaxLinks = 2
  MaxEdits = 2
  MaxFaults = 1
INVARIANTS OneLinkWorksOnce
PROPERTIES GuardReleased
CHECK_DEADLOCK FALSE
