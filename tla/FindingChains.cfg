SPECIFICATION HistorySpec
CONSTANTS
  StallRounds = 2
  MaxHistory = 3
  MaxFindings = 2
  MaxLinks = 2
CHECK_DEADLOCK FALSE
INVARIANTS
  ChainsAreClosures
  ContestedIsRaised
