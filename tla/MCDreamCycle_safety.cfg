SPECIFICATION Spec
CONSTANTS
  r1 = r1
  mcp = mcp
  NCapture = 2
  Bad <- NoneBad
  Run <- RunAndMcp
  Outside <- Mcp
  MaxReprocess = 1
  MaxArrive = 1
  MaxKill = 0
INVARIANTS
  TypeOK
  WovenExactlyOnce
  NeverHalfClassified
  NothingConsumed
  NeverOverclaims
PROPERTY ImplementsLedger
