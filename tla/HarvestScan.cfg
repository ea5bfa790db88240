SPECIFICATION Spec
CONSTANTS
  Observations = {o1}
  MaxRuns = 2
  MaxSessionAttempts = 2
  MaxRecoveries = 1
  MaxRequests = 2
  MaxFaults = 1
  MaxStops = 1
  MaxScans = 1
CHECK_DEADLOCK FALSE
INVARIANTS
  HalfMadeWithheld
PROPERTIES
  PauseAnswered
