SPECIFICATION Spec
CONSTANTS
  t1 = t1  t2 = t2  g1 = g1  g2 = g2  n1 = n1  n2 = n2  h1 = h1  h2 = h2  c1 = c1  c2 = c2
  v1 = v1  v2 = v2  v3 = v3  hA = hA  hB = hB
  MaxCalls = 5  MaxTroubles = 1
  Guests = {v1, v2, v3}  GuestHosts = {hA, hB}  Home <- GuestHome  Operators = {c1, c2}
  Refs = {r1}  Clusters = {k1, k2}  First = k1  Servers = {v1, v2}  None = None
  Targets = {g1, g2}  Memberships = {m1, m2, m3}  Ingresses = {i1}  Enrollers = {o1, o2}  NoTarget = NoTarget
  Names = {n1, n2}  Hosts = {h1, h2}  TunnelIds = {P, t1, t2}  Platform = P  Nodes = {g1, g2}
  MeshRefs = {r1}  Routers = {c1, c2}  NoTunnel = NoTunnel
SYMMETRY Symmetric
CHECK_DEADLOCK FALSE
INVARIANTS OneJoinPerInvitation LossIsReported OverlayConsistent RouteComplete
PROPERTIES PlatformUntouched
