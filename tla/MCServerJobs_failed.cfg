SPECIFICATION FairSpec
CONSTANTS
  Jobs = {j1}
  Strategies = {}
  Principals = {p1}
  Getters = {g1}
  MaxJobs = 1
  MaxPerPrincipal = 1
  MaxSubmits = 1
  MaxFaults = 1
  None = None
PROPERTIES FailedJobsExpire
CHECK_DEADLOCK FALSE
