SPECIFICATION LiveSpec
CONSTANTS
  Nodes = {1, 2, 3, 4}
  DependsOn <- TwoByTwo
  Waits = {3}
  Validated = {1, 2}
  Probes = {2}
  Recovers = {1}
  Guarded = {4}
  Targeted = {4}
  Continues = {1, 2}
  Compensable = {1, 4}
  MaxConcurrency = 2
  MaxPasses = 2
  MaxAttempts = 2
  AbortOnExhaustion = TRUE
  MaxLaunches = 2
  MaxAnswers = 1
  MaxDrifts = 1
CHECK_DEADLOCK FALSE
INVARIANTS RunnerConsistent
PROPERTIES CompensatedInReverse RunEnds
