CONSTANTS
  t1 = t1  t2 = t2
  d1 = d1  d2 = d2
  r1 = r1  r2 = r2
  Tasks = {t1, t2}
  Devices = {d1, d2}
  Realms = {r1, r2}
  NoOne = NoOne
  Plans <- AllPlans
  HashSlots = 1
  MaxBuilds = 3
  Broken = {2}
  MaxLost = 2
  MaxCookies = 2
SPECIFICATION FairSpec
INVARIANTS TypeOK RefreshesEarned GreenIsDeployed  RealmsStayApart
PROPERTIES AttemptsEnd
CHECK_DEADLOCK FALSE
