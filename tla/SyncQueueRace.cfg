\* The docker worker and a --once worker over global jobs, with the reaper and the
\* retention of jobs: every interleaving of their commits, two faults anywhere.
SPECIFICATION Spec
CONSTANTS
  NULL = NULL
  Loopers = {w1}
  OneShots = {w2}
  Clis = {}
  Tenants = {}
  MaxJobs = 2
  MaxCliRuns = 0
  MaxFaults = 2
  JobCap = 2
  RunCap = 0
  StaleAge = 1
  AutoInterval = 0
  RunRetention = 0
  JobRetention = 1
  SweepInterval = 0
INVARIANTS LiveRunStaysOpen
PROPERTIES LiveJobUntouched
