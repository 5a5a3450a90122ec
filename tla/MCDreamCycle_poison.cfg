SPECIFICATION FairSpec
CONSTANTS
  r1 = r1
  mcp = mcp
  NCapture = 2
  Bad <- FirstBad
  Run <- OneRun
  Outside <- NoOutside
  MaxReprocess = 0
  MaxArrive = 0
  MaxKill = 0
PROPERTY ContentErrorIsContained
