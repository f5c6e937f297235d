SPECIFICATION FairSpec
CONSTANTS
  c1 = c1
  c2 = c2
  Clients <- TwoClients
  Environments <- SomeEnvironments
  ShutdownTimeout = 2
  WriteTimeout = 3
  ToolTimeout = 4
  NewGrace = 1
  MaxClock = 4
  MaxStarts = 2
CHECK_DEADLOCK FALSE
INVARIANT TypeOK
PROPERTIES ServicePromise GraceHonoured CleanExit EndsAfterSignal StartsOrExits
