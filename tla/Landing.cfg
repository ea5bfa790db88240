SPECIFICATION Spec
CONSTANTS
  MaxHeads = 2
  MaxCommands = 2
  MaxStops = 1
CHECK_DEADLOCK FALSE
INVARIANTS
  VerifiedLands
  ArmedIsKnown
PROPERTIES
  HoldDisarms
  CandidateArms
