SPECIFICATION Spec
CONSTANTS
  MaxReviewRounds = 2
  StallRounds = 2
  MaxCeiling = 3
  MaxRounds = 6
  MaxAsks = 6
  MaxAnswers = 2
  MaxMishaps = 1
CHECK_DEADLOCK FALSE
INVARIANTS
  RoundsAreAuthorized
  AgreesWithConverge
  DeliveredIsHeard
PROPERTIES
  KernelAsksOnce
  LoopParks
