SPECIFICATION Spec
CONSTANTS
  c1 = c1
  c2 = c2
  t1 = t1
  t2 = t2
  None = None
  Calls <- TwoCalls
  ApiTokens <- TwoTokens
  Margin = 2
  RequestTimeout = 1
  LockDelay = 1
  Contexts <- ShortAndLongContexts
  Lifetimes <- ShortAndLong
  MaxClock = 7
SYMMETRY Symmetric
CHECK_DEADLOCK FALSE
INVARIANTS TypeOK NoEdgeExpiry CredentialIsolation BoundedDuration
PROPERTIES CachedBearerNeverDecides AcceptedAtMostOnce
