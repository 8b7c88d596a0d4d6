CONSTANTS
  None = None
  r1 = r1
  r2 = r2
  r3 = r3
  k1 = k1
  k2 = k2
  p1 = p1
  Requests = {r1, r2}
  Keys <- One
  Projects = {p1}
  ProjectOf <- OneProject
  KeyLimits <- MCRpmKey
  ProjectLimits <- MCRpmProject
  Window = 2
  IdleTtl = 3
  MaxClock = 4
  EngineMay = {}
  ClientsDisconnect = FALSE
  MaxShadows = 0
SPECIFICATION Spec
SYMMETRY AnyRequest
INVARIANTS
  NoForgottenAdmission
  RpmOvershootBounded
