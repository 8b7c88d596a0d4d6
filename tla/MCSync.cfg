CONSTANTS
  None = None
  a1 = a1
  a2 = a2
  q1 = q1
  s1 = s1
  s2 = s2
  Attempts = {a1, a2}
  Probes = {q1}
  Syncs = {s1}
  Boot = s1
  Threshold = 2
  Cooldown = 1
SPECIFICATION FairSpec
INVARIANTS
  TypeOK
  HealthCoherent
  
  
  
 
