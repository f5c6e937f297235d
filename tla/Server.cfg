SPECIFICATION ServerSpec
CONSTANTS
  c1 = c1
  u1 = u1
  a1 = a1
  s1 = s1
  d1 = d1
  p1 = p1
  None = None
  Clients <- OneClient
  URIs <- OneURI
  ApiTokens <- OneToken
  Submits <- OneSubmit
  SecretConfigured = FALSE
  PerSecond = 1
  ClientTTL = 20
  CodeTTL = 1
  AccessTTL = 1
  LoginTimeout = 1
  Calls <- OneCall
  Projects <- OneProject
  ApprovalTTL = 1
  CommitTimeout = 1
  ReadTimeout = 1
  MaxReading = 2
  MaxClock = 5
  MaxIssued = 6
  MaxRestarts = 1
  MaxApprovals = 2
CHECK_DEADLOCK FALSE
PROPERTIES DeletionAuthorised
