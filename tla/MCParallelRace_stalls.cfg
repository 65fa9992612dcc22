SPECIFICATION RaceFairSpec
CONSTANTS
  Races <- Stall
  Depth = 1
  MaxStarts = 1
  Nothing = Nothing
PROPERTIES FirstSuccessWins
CHECK_DEADLOCK FALSE
