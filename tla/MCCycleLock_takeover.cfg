SPECIFICATION Spec
CONSTANTS
  b1 = b1
  b2 = b2
  t1 = t1
  t2 = t2
  mcp = mcp
  NoOne = NoOne
  Backend <- OneBackend
  Thread <- TwoThreads
  Home <- HomeOne
  Scheduler <- SchedulerOnly
  Outside <- NoOutside
  Stale = 2
  MaxRun = 1
  MaxCrash = 1
INVARIANT MutualExclusion
