SPECIFICATION LedgerSpec
CONSTANTS
  Steps = {s1, s2}
  Tears = {"split"}
  PowerLosses = "no"
  MaxStarts = 3
  None = None
CHECK_DEADLOCK FALSE
INVARIANTS TornTailIsNotFatal
SYMMETRY Symmetry
