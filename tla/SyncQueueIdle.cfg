\* One docker worker with every idle task enabled: the reaper,
\* auto-enqueue and the retention sweeps against triggers, crashes and time.
SPECIFICATION Spec
CONSTANTS
  NULL = NULL
  Loopers = {w1}
  OneShots = {}
  Clis = {}
  Tenants = {t1}
  MaxJobs = 2
  MaxCliRuns = 0
  MaxFaults = 1
  JobCap = 2
  RunCap = 2
  StaleAge = 1
  AutoInterval = 1
  RunRetention = 1
  JobRetention = 1
  SweepInterval = 1
INVARIANTS NoDanglingRun
PROPERTIES AutoEnqueueThrottled ImplementsLedger
