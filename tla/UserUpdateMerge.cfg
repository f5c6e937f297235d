SPECIFICATION Spec
CONSTANTS
  c1 = c1
  c2 = c2
  a1 = a1
  None = None
  WrongType = WrongType
  ApiTokens <- OneToken
  Calls <- TwoCalls
  Sessions <- AllSessions
  Names <- TwoNames
  Updates <- Requests
  Accounts <- Reported
SYMMETRY Symmetric
CHECK_DEADLOCK FALSE
INVARIANTS TypeOK NeverNameless
PROPERTIES UpdateExact RetryChangesNothing ToolPromise
