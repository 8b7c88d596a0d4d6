CONSTANTS
  None = None
  h1 = h1
  h2 = h2
  strong = strong
  middle = middle
  weak = weak
  Handlers = {h1, h2}
  Endpoints = {strong, middle, weak}
  Profiles <- ThreeModels
  Sessions = {session}
  Prompts <- EasyAndTask
  Pools <- CapabilityOrCost
  MetricTables <- WellOrNot
  ReportedHits = {0}
  KeyLimit = 40000
  ProjectLimit = 8000
  Dearest = 10500
  MaxRequests = 3
SYMMETRY Alike
SPECIFICATION Spec
CHECK_DEADLOCK FALSE
INVARIANTS
  TypeOK
  
  
  
PROPERTIES
  SessionKept
