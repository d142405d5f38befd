CONSTANTS
  d1 = d1  d2 = d2  web = web  android = android
  c1 = c1  c2 = c2
  Devices = {d1}
  Kinds = {web}
  Callers = {c1, c2}
  MaxOpenAttempts = 2
  MaxDrivers = 2
SPECIFICATION FairSpec
INVARIANTS TypeOK GenerationsGrow CachedIsCurrent InUseNotClosed
PROPERTIES NeverOverwritten ReturnsLive EnsureEnds
CHECK_DEADLOCK FALSE
