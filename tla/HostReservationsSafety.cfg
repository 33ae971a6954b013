SPECIFICATION Spec
CONSTANTS
  Agents = {a1, a2}
  Jobs = {j1, j2}
  None = None
  MaxHeavy = 1
  MaxNormal = 2
  Capacity = 3
  Cost <- MCCost
  TTL = 3
  RenewEvery = 1
  Lateness = 1
  LaunchLimit = 0
  IOFaults = TRUE
SYMMETRY Symmetry
INVARIANTS LedgerConsistent
PROPERTIES RecordLeavesOnce
