SPECIFICATION Spec
CONSTANTS
  checks = checks
  acceptance = acceptance
  docs = docs
  Stages <- TwoStages
  Checks = {checks}
  FailFast = {checks}
  MaxVerifyAttempts = 1
  MaxAttempts = 2
  MaxAnswers = 2
  MaxMishaps = 1
CHECK_DEADLOCK FALSE
INVARIANTS
  BarrierHolds
  NoOrphanQuestion
  ReworkIsAlone
PROPERTIES
  OneFate
  RevisionIsAuthorized
  StageEnds
