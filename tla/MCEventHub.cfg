CONSTANTS
  c1 = c1  c2 = c2
  Clients = {c1, c2}
  Capacity = 2
  Replay = 2
  MaxEvents = 4
  MaxJoins = 1
SPECIFICATION FairSpec
INVARIANTS TypeOK Accounted InOrder NewestKept
PROPERTIES CatchesUp GoneIsUnsubscribed DropsAdmitted
CHECK_DEADLOCK FALSE
