SPECIFICATION FairSpec
CONSTANTS
  m = m
  x = x
  j = j
  None = None
  Device <- Two
  Host <- MemberAndJoiner
  Lived <- OnlyJ
  Capturing <- Nobody
  Joiner <- OnlyJ
  Founding <- OnlyJ
  Transfer <- TakenByM
  Link <- BothWays
  Phones <- NoPair
  SharedToken = FALSE
  Strict = FALSE
  MaxStamp = 3
  Lossy = FALSE
  MaxJoin = 2
PROPERTIES
  JoinerLeavesLimbo
  ReadersFollowClaims
