CONSTANTS
  None = None
  h1 = h1
  h2 = h2
  e1 = e1
  e2 = e2
  p1 = p1
  p2 = p2
  u0 = u0
  u1 = u1
  c1 = c1
  c2 = c2
  t1 = t1
  Handlers = {h1, h2}
  Emails = {e1, e2}
  Passwords = {p1, p2}
  Users = {u0, u1}
  Codes = {c1, c2}
  Tokens = {t1}
  LegacyUsers = {u0}
  MaxLogins = 1
  LoginWindow = 1
  MaxSends = 1
  SendWindow = 1
  ResendAfter = 1
  CodeTtl = 1
SYMMETRY Alike
SPECIFICATION Spec
INVARIANTS
  TypeOK
  CodeUsedOnce
  EmailProven
  WorkspaceComplete
  AttemptsLimited
PROPERTIES
  PasswordKept
