SPECIFICATION Spec
CONSTANTS
  MaxSessions = 3
  MaxRounds = 2
  MaxAttempts = 2
  MaxRequests = 2
  MaxStops = 1
CHECK_DEADLOCK FALSE
INVARIANTS
  NewestCommandStands
  OneOutcome
PROPERTIES
  PauseAnswered
