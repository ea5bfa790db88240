SPECIFICATION LeaseSpec
CONSTANTS
  Instances = {i1, i2}
  None = None
  Ttl = 4
  Beat = 2
INVARIANTS
  OneRunsUnlessStalled
PROPERTIES
  EndedLeaseLapses
