SPECIFICATION Spec
CONSTANTS
  Providers = {p1}
  Clients = {c1, c2}
  CancelOnTimeout = TRUE
  MaxSequence = 3
  None = None
SYMMETRY Symmetry
CHECK_DEADLOCK FALSE
INVARIANTS ManagerConsistent
PROPERTIES ImplementsServing
