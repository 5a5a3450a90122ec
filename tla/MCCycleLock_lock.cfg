SPECIFICATION FairSpec
CONSTANTS
  b1 = b1
  b2 = b2
  t1 = t1
  t2 = t2
  mcp = mcp
  NoOne = NoOne
  Backend <- TwoBackends
  Thread <- TwoThreads
  Home <- HomeEach
  Scheduler <- SchedulerOnly
  Outside <- Mcp
  Stale = 1
  MaxRun = 2
  MaxCrash = 1
INVARIANTS
  TypeOK
  ExclusiveUnlessStale
  LiveRunNotInterrupted
PROPERTY LockKeepsBeingGranted
