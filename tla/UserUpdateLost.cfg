SPECIFICATION Spec
CONSTANTS
  c1 = c1
  c2 = c2
  a1 = a1
  None = None
  WrongType = WrongType
  ApiTokens <- OneToken
  Calls <- TwoCalls
  Sessions <- OneSession
  Names <- TwoNames
  Updates <- Support
  Accounts <- Named
SYMMETRY Symmetric
CHECK_DEADLOCK FALSE
PROPERTY OnlyRequestedFields
