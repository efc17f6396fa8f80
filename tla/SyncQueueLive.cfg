\* One docker worker and one main.py under fair scheduling: nothing is stuck.
SPECIFICATION FairSpec
CONSTANTS
  NULL = NULL
  Loopers = {w1}
  OneShots = {}
  Clis = {c1}
  Tenants = {}
  MaxJobs = 2
  MaxCliRuns = 1
  MaxFaults = 1
  JobCap = 2
  RunCap = 0
  StaleAge = 1
  AutoInterval = 0
  RunRetention = 0
  JobRetention = 0
  SweepInterval = 0
PROPERTIES QueuedJobSettles
