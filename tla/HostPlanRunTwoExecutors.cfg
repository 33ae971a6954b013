SPECIFICATION Spec
CONSTANTS
  Launchers = {l1, l2, l3}
  Resumers = {}
  Updaters = {u1}
  Events = {}
  MaxCrashes = 0
  None = None
  InputKeys = {answer}
INVARIANT OneExecutor
CHECK_DEADLOCK FALSE
SYMMETRY Symmetry
