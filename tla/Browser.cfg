SPECIFICATION BrowserSpec
CONSTANTS
  Views = {"overview", "reviewFacts"}
  Editors = {"reviewFacts"}
  Filters = {1, 2}
  First = "overview"
  FirstFilter = 1
  MaxMoves = 5
  Tabs = {"a", "b"}
  PromptAfter = 5
  LogoutAfter = 7
  NoteEvery = 2
  WriteEvery = 3
  MaxTime = 13
INVARIANTS HistoryAgrees LatestShown IdleIsMeasured
PROPERTIES AskedBeforeLeaving
CHECK_DEADLOCK FALSE
