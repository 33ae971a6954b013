SPECIFICATION Spec
CONSTANTS
  Launchers = {l1, l2}
  Resumers = {r1, r2}
  Updaters = {u1, u2}
  Events = {"bind", "expiry"}
  MaxCrashes = 1
  None = None
  InputKeys = {answer}
CHECK_DEADLOCK FALSE
SYMMETRY Symmetry
INVARIANTS RunConsistent ClosedMeansNoExecutor
