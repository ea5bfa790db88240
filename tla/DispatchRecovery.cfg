SPECIFICATION Spec
CONSTANTS
  Dispatchers = {d1, d2}
  First = d1
  MaxAttempts = 1
  MaxTrouble = 4
CHECK_DEADLOCK FALSE
INVARIANTS
  OneProvisioner
  LaunchIsFounded
  BudgetHolds
PROPERTIES
  DispatchSettles
