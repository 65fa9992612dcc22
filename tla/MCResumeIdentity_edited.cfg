SPECIFICATION IdentitySpec
CONSTANTS
  Registry <- All
  Names <- OneName
  Roots <- OneRoot
  Bodies <- TwoBodies
  Policies <- AllOnly
  Callers <- AllOnly
  MaxChanges = 1
  MaxRuns = 2
INVARIANTS ReplaysMatchThePlan
CHECK_DEADLOCK FALSE
