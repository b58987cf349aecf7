SPECIFICATION Spec
CONSTANTS
  w1 = w1
  w2 = w2
  c1 = c1
  Caller = {c1}
  Worker = {w1, w2}
  Boots = {1, 2}
  Announced <- MCAnnounced
  Plans <- MCPlans
  Observations <- MCObservations
  PolicyGenerations = {1}
  Times = {1, 4}
  MaxAge = 1
  MaxScheduleAge = 2
  Limit = 2
  MaxCandidates = 2
  MaxInstalled = 1
  MaxEpoch = 2
  MaxGeneration = 2
INVARIANTS
  TypeOK
  DecisionStands
  
PROPERTIES
  WorkerIsolation
