SPECIFICATION Spec
CONSTANTS
  TaskIds = {t1, t2}
  InputKeys = {response}
  MaxRestarts = 1
CHECK_DEADLOCK FALSE
INVARIANTS TasksConsistent ClosedMeansQuiet TerminalIsDurable
PROPERTIES CloseTerminates PendingResolves
