SPECIFICATION FairSpec
CONSTANTS
  p1 = p1
  p2 = p2
  r1 = r1
  r2 = r2
  old1 = old1
  old2 = old2
  old3 = old3
  new = new
  own = own
  absent = absent
  None <- Absent
  Processes <- TwoProcesses
  Requests <- TwoRequests
  Certs <- AllCerts
  Answers <- OldAndNew
  Primed <- BundleOrRubbish
  Configs <- EveryConfig
  MaxStarts = 3
CHECK_DEADLOCK FALSE
INVARIANTS TypeOK BundleWhole TrustWhole
PROPERTIES FailsOnlyWithoutBundle EnsureIsAtomic StartSettles
