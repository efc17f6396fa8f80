\* Two browsers with coordinated pages, lost requests and answers, one change in flight.
SPECIFICATION Spec
CONSTANTS
  NoBrowser = NoBrowser
  Browsers = {b1, b2}
  Requests = {r1, r2}
  Changers = {c1}
  Coordinated = TRUE
  Cap = 2
  Grace = 0
  MaxSessions = 3
  MaxTokens = 3
  MaxChanges = 1
INVARIANTS JarRecognised ValidAccessIsCurrent SessionsCapped
SYMMETRY Interchangeable
