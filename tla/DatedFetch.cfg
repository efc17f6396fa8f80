\* No symmetry: FetchEnds is a liveness property.
SPECIFICATION PullSpec
CONSTANTS
  Rows = {1, 2, 3, 4}
  LastDay = 3
  Windows <- Spans
  Starts <- Crowds
  Endpoints <- Honest
  PageSize = 2
  Base = 8
  PerPage = 2
  MaxChanges = 1
  MaxSteps = 1
  ManyRequests = 20
  ManyItems = 8
  LastDate = 4
  DaysAhead = 1
  MaxEdits = 1
INVARIANTS SteadyRowsRead PastShiftsKept
PROPERTIES NoSteadyRowLost FetchEnds
CHECK_DEADLOCK FALSE
