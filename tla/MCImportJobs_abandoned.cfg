SPECIFICATION FairSpec
CONSTANTS
  c1 = c1
  c2 = c2
  j1 = j1
  j2 = j2
  s1 = s1
  s2 = s2
  Clients <- OneClient
  Jobs <- OneJob
  Sources <- OneSource
  MaxActiveJobs = 1
  Remote <- NoJob
  MaxCrashes = 1
  Nobody = Nobody
  NoSource = NoSource
  Child = Child
PROPERTIES NoRecordBlocksForever
