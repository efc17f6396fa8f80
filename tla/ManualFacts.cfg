SPECIFICATION EditSpec
CONSTANTS
  NRows = 2
  Values = {v1}
  NULL = NULL
  Hidden = Hidden
  Nothing = Nothing
  Editors = {e1, e2}
  Saves = {s1, s2}
  Movers = {1}
  Split = {1}
  MaxPosts = 2
  MaxEdits = 4
  MaxTrouble = 3
  Starts <- SplitBounds
SYMMETRY Symmetry
INVARIANTS TypingIsBacked NoCircularWait
PROPERTIES NothingOverwrittenUnseen
