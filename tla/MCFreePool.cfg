CONSTANTS
  None = None
  h1 = h1
  h2 = h2
  k1 = k1
  k2 = k2
  Handlers = {h1, h2}
  Clients = {client}
  ApiKeys = {k1, k2}
  Models = {m1, m2}
  FreeNamed = {m2}
  Seeded = {m1}
  Limits = {1, 2}
  Hour = 2
  MaxRequests = 3
SYMMETRY Alike
SPECIFICATION Spec
INVARIANTS
  TypeOK
  ClaimsWithinLimit
  KeysAgree
  GrantedModelsServed
  
