SPECIFICATION Spec
CONSTANTS
  e1 = e1
  e2 = e2
  e3 = e3
  f1 = f1
  l1 = l1
  n1 = n1
  n2 = n2
  p12 = p12
  p23 = p23
  c1 = c1
  h1 = h1
  h2 = h2
  None = None
  Entity <- ThreeEntities
  Fact <- OneFact
  Link <- OneLink
  Entry <- TwoEntries
  Capture <- OneCapture
  Source <- SourceOf
  Proposal <- TwoProposals
  Sides <- SidesOf
  Handler <- TwoHandlers
SYMMETRY AnyName
INVARIANTS
  TypeOK
  HiddenOnlyByStaleIds
  AcceptedStaysMerged
