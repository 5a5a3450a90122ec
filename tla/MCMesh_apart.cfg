SPECIFICATION Spec
CONSTANTS
  m = m
  x = x
  j = j
  None = None
  Device <- Three
  Host <- SharedWithX
  Lived <- OnlyM
  Capturing <- OldMembers
  Joiner <- OnlyJ
  Founding <- Nobody
  Transfer <- TakenByM
  Link <- MPullsFromJ
  Phones <- XPushesToJ
  SharedToken = TRUE
  Strict = FALSE
  MaxStamp = 3
  Lossy = TRUE
  MaxJoin = 1
INVARIANTS
  TypeOK
  StrangersStayApart
  KeptPastStays
PROPERTY ReplicasOnlyAdvance
