CONSTANTS
  d1 = d1  d2 = d2
  w1 = w1  w2 = w2
  Devices = {d1}
  Workers = {w1}
  NoOne = NoOne
  FailuresToQuarantine = 2
  RecoveryAttempts = 2
  RetireAfter = 1
  Ordered = TRUE
  MaxEpisodes = 2
  MaxFlips = 1
  MaxStarts = 2
SPECIFICATION Spec
INVARIANTS OneEpisodePerDevice
CHECK_DEADLOCK FALSE
