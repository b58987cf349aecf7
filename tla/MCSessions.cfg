SPECIFICATION SSpec
CONSTANTS
  w1 = w1
  s1 = s1
  s2 = s2
  Caller = {s1, s2}
  Worker = {w1}
  Boots = {1, 2}
  Announced <- MCAnnounced
  Plans <- MCPlans
  Observations <- MCObservations
  PolicyGenerations = {1}
  Times = {1}
  MaxAge = 1
  MaxScheduleAge = 2
  Limit = 2
  MaxCandidates = 1
  MaxInstalled = 1
  MaxEpoch = 1
  MaxGeneration = 4
PROPERTIES
  StaleNeverDispatched
