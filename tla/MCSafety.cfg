SPECIFICATION SafeSpec
CONSTANTS
  Tree <- MCTree
  Starts = {"main", "routed"}
  Referred <- GivenTrees
  Facts = {"scanned", "large"}
  Errors <- MCErrors
  Allowed <- InTheScope
  Installed <- Known
  Keyless = {"docling"}
  Pages = {1, 2}
  Grades = {0, 1, 2}
  MaxTicks = 1
  MaxKills = 1
  Nil = Nil
  Jobs = {j1, j2, j3}
  Strategies = {j2, j3}
  Principals = {p1}
  Getters = {g1, g2}
  MaxJobs = 1
  MaxPerPrincipal = 1
  MaxSubmits = 2
  MaxFaults = 1
  None = None
  Writers = {"w1", "w2", "w3"}
  Digests = {"d"}
  MaxLosses = 1
  Absent = Absent
  Foreign = "foreign"
  FileLimit = 2
  MetadataLimit = 1
  MaxParts = 3
  MaxPartBytes = 3
  Commands <- Stopped
  Rungs = 2
  Docs = 2
  MaxSignals = 3
  MaxResumes = 2
  Unset = Unset
  Races <- Nodes
  Depth = 2
  Selects = {c1, c2}
  Batches <- Selections
  MaxItems = 2
  MaxBytes = 3
  MaxDeaths = 1
  MaxStarts = 3
  Nothing = Nothing
  Registry <- All
  Names <- OneName
  Roots <- TwoRoots
  Bodies <- TwoBodies
  Policies <- TwoPolicies
  Callers <- ThreeCallers
  MaxChanges = 2
  MaxRuns = 3
  Registered = {"pymupdf", "docling", "reducto"}
  Uncredentialed = {"reducto"}
  DefaultBackend = "pymupdf"
  Trees <- Library
  Backends <- Requested
  Fallbacks <- FallbacksOfAll
  Lists <- ListsOfAll
  Scopes <- ScopesOfAll
  Documents <- Sent
  NoneGiven = NoneGiven
  Readers = {"r1", "r2"}
  Reads <- ReadsOfAll
  Contents <- ContentsOfAll
  Matches <- Found
  Limit = 3
  Cap = 40
  Reserve = 16
  Envelope = 8
  CursorBytes = 8
  NullBytes = 2
  PlanCache = 6
  Unread = Unread
INVARIANTS WalkAnswer ResumeRetraces RaceIsWon ExportsLast UploadVerdict CallsStayInScope OutcomesAreDue CursorsTellAll SelectionsAreWhole StopsAreObeyed StoppedCallsAreNotRepeated StoreBound OneDrive NotSweptUnheard NothingWiderIsReached ReplaysAreOwn
PROPERTIES OutcomeSticks
CHECK_DEADLOCK FALSE
