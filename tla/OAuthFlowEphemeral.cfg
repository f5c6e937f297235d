SPECIFICATION Spec
CONSTANTS
  c1 = c1
  c2 = c2
  u1 = u1
  u2 = u2
  a1 = a1
  a2 = a2
  s1 = s1
  s2 = s2
  None = None
  Clients <- OneClient
  URIs <- OneURI
  ApiTokens <- OneToken
  Submits <- OneSubmit
  SecretConfigured = FALSE
  PerSecond = 2
  ClientTTL = 20
  CodeTTL = 2
  AccessTTL = 3
  LoginTimeout = 1
  MaxClock = 8
  MaxIssued = 5
  MaxRestarts = 1
SYMMETRY Symmetric
CHECK_DEADLOCK FALSE
INVARIANTS SignInBounded LifetimeHonoured
PROPERTY ActsAsStateful
