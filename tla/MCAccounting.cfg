SPECIFICATION Spec
CONSTANTS
  Width = 5
  Kinds = {"ACCELERATOR_TIME", "TRANSFER"}
  Accelerator = "ACCELERATOR_TIME"
  Denominator <- MCDenominator
  Requests = {1, 2}
  Workers = {1}
  Boots = {1}
  Evidence <- MCEvidence
  Observations <- MCObservations
  Times = {1, 3}
  MaxEpoch = 2
INVARIANTS
  TypeOK
  ChargedOncePerAttempt
  RetryCountedOnce
  RoundedUp
  SpecificBeforeGeneral
  FinalizedOnce
