SPECIFICATION Spec
CONSTANTS
  c1 = c1
  c2 = c2
  p1 = p1
  p2 = p2
  a1 = a1
  None = None
  ApiTokens <- OneToken
  Calls <- TwoCalls
  Projects <- TwoProjects
  Sessions <- FourSessions
  PerSecond = 2
  ApprovalTTL = 3
  CommitTimeout = 1
  MaxClock = 6
  MaxApprovals = 2
  SecretConfigured = FALSE
  MaxRestarts = 1
SYMMETRY Symmetric
CHECK_DEADLOCK FALSE
INVARIANTS TypeOK NoFalseSuccess
PROPERTIES DeletionApproved
