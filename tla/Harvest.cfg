SPECIFICATION Spec
CONSTANTS
  Observations = {o1, o2}
  MaxRuns = 2
  MaxSessionAttempts = 1
  MaxRecoveries = 1
  MaxRequests = 1
  MaxFaults = 2
  MaxStops = 1
  MaxScans = 0
CHECK_DEADLOCK FALSE
INVARIANTS
  JournalReduces
  NoSecondTicket
  FiledAsReviewed
PROPERTIES
  HarvestSettles
