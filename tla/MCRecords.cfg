SPECIFICATION RecordsSpec
CONSTANTS
  Clients = {c1, c2}
  Jobs = {j1, j2}
  Sources = {s1}
  MaxActiveJobs = 2
  Remote = {}
  MaxCrashes = 1
  Nobody = Nobody
  NoSource = NoSource
  Child = Child
  Steps = {p1, p2}
  Tears = {"prefix", "whole", "split"}
  PowerLosses = "no"
  MaxStarts = 3
  None = None
  Reads = {r1, r2}
  MaxPages = 2
  MaxFaults = 1
  MaxTries = 1
  Nil = Nil
  Chains <- MCChains
  Scopes <- MCScopes
  Uncredentialed <- NoCredentials
  MaxEntries = 1
  MaxEdits = 1
INVARIANTS OneImportPerSource OutcomeMatchesStore SettledIsTold OkHasPayload AnswersAreResults
PROPERTIES KeepsPromise SettledCallsNeverRepeat
SYMMETRY Symmetry
