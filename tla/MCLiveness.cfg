SPECIFICATION LiveSpec
CONSTANTS
  Clients = {c1, c2}
  Jobs = {i1}
  Sources = {s1}
  MaxActiveJobs = 1
  Remote = {i1}
  MaxCrashes = 2
  Nobody = Nobody
  NoSource = NoSource
  Child = Child
  MaxGens = 2
  MaxRuns = 2
  MaxPages = 1
  MaxMishaps = 1
INVARIANTS AcceptedIsCompleted NoOrphans SubmittedOnce
PROPERTIES PolledJobsEnd TimerStopsOnlyIdle IdleWorkersEnd RunCompletes EveryJobEnds
CHECK_DEADLOCK FALSE
