SPECIFICATION Spec
CONSTANTS
  c1 = c1
  c2 = c2
  u1 = u1
  u2 = u2
  a1 = a1
  a2 = a2
  s1 = s1
  s2 = s2
  None = None
  Clients <- TwoClients
  URIs <- TwoURIs
  ApiTokens <- TwoTokens
  Submits <- TwoSubmits
  SecretConfigured = TRUE
  PerSecond = 1
  ClientTTL = 20
  CodeTTL = 1
  AccessTTL = 1
  LoginTimeout = 1
  MaxClock = 0
  MaxIssued = 5
  MaxRestarts = 1
SYMMETRY Symmetric
CHECK_DEADLOCK FALSE
INVARIANTS TypeOK SessionsVouched RedeemerIsStarter RedirectRegistered
PROPERTY ActsAsStateful
