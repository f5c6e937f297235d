SPECIFICATION Spec
CONSTANTS
  c1 = c1
  c2 = c2
  a1 = a1
  None = None
  WrongType = WrongType
  ApiTokens <- OneToken
  Calls <- OneCall
  Sessions <- AllSessions
  Names <- TwoNames
  Updates <- Support
  Accounts <- Named
CHECK_DEADLOCK FALSE
PROPERTY WritesNeedReadWrite
