\* One branch, three days, any two failures, deaths or moves of its reporting start.
\* RefreshDays = 0: a single missed day is an outage longer than the refresh window.
SPECIFICATION FairSpec
CONSTANTS
  NULL = NULL
  Genesis = 1
  SyncDays = 0
  Lookback = 0
  RefreshDays = 0
  Horizon = 1
  Incremental = TRUE
  Floors = {2}
  FirstDay = 2
  MaxDay = 4
  MaxEvents = 2
INVARIANTS CoverageTruthful MarkerBacked
PROPERTIES PinnedEnds
