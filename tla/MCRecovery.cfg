SPECIFICATION Spec
CONSTANTS
  s1 = s1
  s2 = s2
  Absent = Absent
  Session = {s1}
  Limit = 2
  Amounts <- MCAmounts
  MaxEpoch = 3
  MaxGeneration = 3
  MaxReservations = 2
CHECK_DEADLOCK FALSE
INVARIANTS
  TypeOK
  FileWhole
  SavedSurvives
  HardLimitAcrossRestarts
  LifecycleTruthful
