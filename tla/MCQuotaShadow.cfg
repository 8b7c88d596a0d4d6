CONSTANTS
  None = None
  r1 = r1
  r2 = r2
  r3 = r3
  k1 = k1
  k2 = k2
  p1 = p1
  Requests = {r1, r2}
  Keys <- One
  Projects = {p1}
  ProjectOf <- OneProject
  KeyLimits <- MCKeyOne
  ProjectLimits <- MCProjectTwo
  Window = 1
  IdleTtl = 1
  MaxClock = 0
  EngineMay = {}
  ClientsDisconnect = FALSE
  MaxShadows = 1
SPECIFICATION Spec
INVARIANT HardConcurrencyLimit
