CONSTANTS
  r1 = r1  r2 = r2  r3 = r3
  i1 = i1  i2 = i2  i3 = i3
  d1 = d1  d2 = d2
  w1 = w1  w2 = w2
  Records = {r1, r2}
  Ids = {i1, i2}
  Devices = {d1}
  Workers = {w1, w2}
  NoOne = NoOne
  Pill = Pill
  IdOf <- OwnId
  Selector <- EveryDevice
  MaxAttempts <- TwoAndOne
  Unroutable = {}
  MaxChurn = 2
  MaxStops = 1
SPECIFICATION FairSpec
INVARIANTS TypeOK LeasesMatchWorkers CountersExact WorkConserved PillsMatchWorkers
  IdleMeansDone DrainMeansDone FeedIsCurrent
PROPERTIES EveryTaskEnds StopEnds
