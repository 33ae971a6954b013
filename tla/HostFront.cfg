SPECIFICATION Spec
CONSTANTS
  a1 = a1  a2 = a2  b1 = b1  b2 = b2  c1 = c1  c2 = c2  c3 = c3
  MaxCalls = 5  MaxTroubles = 2
  MetadataClients = {m1}  AccessResources <- Pairs  AuthCodes = {k1}  AccessTokenIds <- Pairs  AuthRequests <- Callers
  NoAccess = NoAccess  TokenTTL = 1  TokenGrace = 1  MaxClock = 3
  NoRequest = NoRequest
  CatalogOps <- Pairs  SharedFamily <- Pairs  CatalogGens = {1}  Publishers <- Callers
  DispatchCalls = {d1}  Callbacks = {e1}  NoTool = NoTool  CostLimit = 1
  PermitAgents = {p1, p2}  PermitRequests <- Triples  MaxNormal = 2  MaxHeavy = 1  MaxQueued = 2
  Ptys <- Triples  StreamOps <- Pairs  ConsoleVMs <- Callers  NoPty = NoPty
  SqlDatabases <- Pairs  RelayPorts = {n1}  Relays <- Triples  RelayConns = {x1}  SqlCallers <- Callers
  BridgeTargets <- Pairs  NoStream = NoStream  SqlConnectorMax = 1
  PlanIds = {1, 2, 3}  Consumer = 1  Producer = 2
  FiberGens <- Pairs  FiberServices = 2  FiberNeeds <- SecondNeedsFirst  FiberCallers <- Callers  MaxFibers = 7  NoFiber = NoFiber
SYMMETRY Symmetric
CHECK_DEADLOCK FALSE
INVARIANTS TokensFollowGrants ServedUnderContract PermitsConsistent StreamsConsistent DispatchConsistent AcceptedPlanRuns FibersConsistent
 
