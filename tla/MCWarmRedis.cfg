CONSTANTS
  None = None
  t1 = t1
  t2 = t2
  c1 = c1
  m1 = m1
  m2 = m2
  h1 = h1
  h2 = h2
  Tasks <- Two
  Cleaners = {c1}
  Models = {m1, m2}
  Contents = {h1, h2}
  MaxEpoch = 2
  Redis = TRUE
SYMMETRY AnyName
SPECIFICATION Spec
INVARIANT TypeOK
PROPERTY ImplementsWarmSession
