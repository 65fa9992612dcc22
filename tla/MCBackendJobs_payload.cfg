SPECIFICATION BackendSpec
CONSTANTS
  Reads = {1}
  MaxPages = 2
  MaxFaults = 1
  MaxTries = 2
  Nil = Nil
CHECK_DEADLOCK FALSE
INVARIANTS SuccessHasPayload
