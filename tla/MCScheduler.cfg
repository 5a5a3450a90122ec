SPECIFICATION FairSpec
CONSTANTS
  c1 = c1
  c2 = c2
  me = me
  o1 = o1
  Capture = {c1, c2}
  MaxQueued = 2
  Me = me
  Others = {o1}
  NoDevice = NoDevice
  MaxOutage = 1
  MaxRestart = 1
  MaxSwitch = 1
INVARIANT SlotOwesPass
PROPERTIES
  CapturesAreWoven
  DigestAppears
