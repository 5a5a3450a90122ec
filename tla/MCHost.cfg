SPECIFICATION Spec
CONSTANTS
  Unset = Unset
  None = None
  Torn = Torn
  h1 = h1
  h2 = h2
  p1 = p1
  p2 = p2
  u1 = u1
  u2 = u2
  u3 = u3
  d1 = d1
  d2 = d2
  k1 = k1
  k2 = k2
  f1 = f1
  Request <- Requests
  Device <- Devices
  Founder = d1
  Right <- Showing
  Backend <- Places
  User <- Users
  HomeOf <- HomeOfUsers
  Peer <- Places
  Mute <- Silent
  Address <- OnlyOne
  FirstAddress <- Starts
  NRow = 2
  PageLimit = 1
  Field <- Settings
  Value <- TwoValues
  FetchByDefault = 1
  Slot <- OnlyOne
  NPiece = 2
  Entity <- TwoEntities
  Fact <- OneFact
  Name <- Names
  Fold <- FoldOfNames
  FirstName <- FirstNames
  Question <- Questions
  Project <- TwoEntities
  OldProject = k1
  Relation <- OneRelation
  Note <- OneNote
  About <- AboutFact
  Entry <- TwoEntries
  FirstEntry = "x1"
  Offer <- OneOffer
  NNode = 5
  Weight <- Weights
  MaxPass = 100
  MaxLevel = 20
  MaxVersion = 2
  MaxIssue = 2
  MaxRequest = 3
  MaxPull = 2
  MaxMove = 1
  MaxSearch = 2
  MaxPair = 2
  MaxToken = 2
  MaxChange = 2
  MaxDeath = 1
  MaxEnd = 2
SYMMETRY AnyOrder
INVARIANTS
  TypeOK
  SettingsHold
  EngineIsUsable
  EngineLastsItsSessions
  PairedStillEnters
  EditsFlagSummary
  NamesAreKept
  EachInItsPlace
  PullIsSound
  ArrivesAsItself
PROPERTY ClimbsModularity
CHECK_DEADLOCK FALSE
