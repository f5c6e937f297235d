SPECIFICATION FairSpec
CONSTANTS
  c1 = c1
  c2 = c2
  t1 = t1
  t2 = t2
  None = None
  Calls <- TwoCalls
  ApiTokens <- OneToken
  Margin = 2
  RequestTimeout = 1
  LockDelay = 1
  Contexts <- ShortAndLongContexts
  Lifetimes <- OnlyLong
  MaxClock = 7
CHECK_DEADLOCK FALSE
PROPERTY EveryCallReturns
