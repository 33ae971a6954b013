SPECIFICATION LiveSpec
CONSTANTS
  Launchers = {l1}
  Resumers = {r1}
  Updaters = {u1}
  Events = {"cancel", "expiry", "catalog"}
  MaxCrashes = 0
  None = None
  InputKeys = {answer}
CHECK_DEADLOCK FALSE
INVARIANTS RowSettled
PROPERTIES CloseTerminates
