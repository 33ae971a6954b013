SPECIFICATION Spec
CONSTANTS
  a1 = a1  a2 = a2  b1 = b1  b2 = b2  c1 = c1  c2 = c2  c3 = c3
  MaxCalls = 3  MaxTroubles = 2
  Images <- Pairs  Manifest <- OneDigest  Reclaimers <- Callers  Replicas = 2
  Databases = {d1}  SessionIds = {s1}  Tokens <- Pairs  RelayObjects <- Triples  Conns = {x1}
  PgCallers <- Callers  NoRelay = NoRelay
  LlmIds <- Callers  LlmBinds <- Pairs  LlmPolicies <- RelayPolicies  LlmObjects <- Triples  LlmRequests = {q1}  NoLlm = NoLlm
  LlmModels <- Pairs  ContextSizes = {1, 2}  Revisions <- Pairs  LlmCallers <- Callers  NoModel = NoModel
  IncusNames <- Pairs  IncusCallers <- Callers  Sizes = {1, 2}  IncusBudget = 3
  NoInstance = NoInstance  NoCheckpoint = NoCheckpoint
  Targets <- Pairs  TunnelTokens <- Pairs  Urls <- Triples  PubCallers <- Callers
  NoFile = NoFile  NotOurs = NotOurs  NoProcess = NoProcess  NoUrl = NoUrl
  Distros = {h, d1}  HomeDistro = h  PolicyCallers <- Callers
  OciImageIds <- Pairs  OciTags <- Pairs  OciCallers <- Callers  OciLimits = {1}  NoOci = NoOci
  ServingContracts <- Pairs  ServingCallers <- Callers  NoServing = NoServing
SYMMETRY Symmetric
CHECK_DEADLOCK FALSE
INVARIANTS RegistryComesBack SessionsEnd RelayPolicyCurrent ServedIsPinned QuickServesTarget EnforcementProvable AdoptionIsExplicit
PROPERTIES ForeignUntouched ReferencedImageKept
