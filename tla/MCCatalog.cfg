CONSTANTS
  None = None
  h1 = h1
  h2 = h2
  o1 = o1
  o2 = o2
  j1 = j1
  j2 = j2
  a1 = a1
  a2 = a2
  a3 = a3
  e1 = e1
  e2 = e2
  e3 = e3
  p1 = p1
  p2 = p2
  p3 = p3
  m1 = m1
  m2 = m2
  m3 = m3
  k1 = k1
  k2 = k2
  v1 = v1
  v2 = v2
  Handlers = {h1, h2}
  Orgs = {o1, o2}
  Projects = {j1}
  OrgOf <- TwoOrgs
  Accounts = {a1, a2, a3}
  Endpoints = {e1, e2, e3}
  Pools = {p1, p2, p3}
  Models = {m1, m2, m3}
  Keys = {k1, k2}
  MaxBatch = 1
  Settings = {v1, v2}
  InitialRows <- OneDatabase
  MaxDirect = 1
SYMMETRY Alike
SPECIFICATION Spec
INVARIANTS
  TypeOK
  SeenEndpointsSafe
  KeyGrantsWhole
  DetailsOfOneEdit
PROPERTIES
  ReachGrowsKnowingly
  
