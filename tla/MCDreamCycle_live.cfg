SPECIFICATION FairSpec
CONSTANTS
  r1 = r1
  mcp = mcp
  NCapture = 2
  Bad <- NoneBad
  Run <- OneRun
  Outside <- NoOutside
  MaxReprocess = 2
  MaxArrive = 1
  MaxKill = 1
PROPERTIES
  QueuedGetsWoven
  EditReachesSummary
