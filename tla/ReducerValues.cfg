SPECIFICATION Spec
CONSTANTS
  Readers = {r1, r2}
  MaxSeq = 2
  MaxFaults = 1
  MaxDamages = 1
INVARIANTS
  AnswersAreReductions
PROPERTIES
  RowNeverRetreats
  DamageIsRepaired
