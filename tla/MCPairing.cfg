SPECIFICATION MCSpec
CONSTANTS
  q1 = q1
  q2 = q2
  l1 = l1
  c1 = c1
  c2 = c2
  c3 = c3
  Request <- Everyone
  ByCode <- Codes
  Legacy <- OneLegacy
  NOffer = 2
  NCode = 2
  Ttl = 1
  MaxAttempts = 2
SYMMETRY AnyJoiner
INVARIANTS
  TypeOK
  PayloadOpens
  HandedOnceToWhomWasApproved
PROPERTIES
  OnlyOpenTriesRemain
  ImplementsInvitation
