SPECIFICATION ActivationSpec
CONSTANTS
  a = a
  b = b
  r1 = r1
  r2 = r2
  f1 = f1
  f2 = f2
  c1 = c1
  None = None
  Providers = {a, b}
  Families = {f1, f2}
  Services <- MCServices
  Clients = {c1}
  CancelOnTimeout = FALSE
  MaxSequence = 2
  Runs = {r1}
  RunProvider <- MCRunProvider
  MaxTroubles = 2
CHECK_DEADLOCK FALSE
INVARIANTS ActivationConsistent
