SPECIFICATION Spec
CONSTANTS
  b1 = b1
  BudgetId = {b1}
  Generations = {1, 2}
  PolicyGenerations = {1, 2}
  Currencies = {"USD", "EUR"}
  Currency = "USD"
  Modes = {"HARD", "SOFT"}
  Limits <- MCLimits
  Expiries = {0, 1}
  Amounts <- MCAmounts
  Times = {1, 2}
  MaxEpoch = 2
  MaxReservations = 2
INVARIANTS
  TypeOK
  AccountsMatch
  HardLimitHeld
  ReservedWithinLimit
  LifecycleTruthful
PROPERTIES
  NoChargeAfterExpiry
  TerminalLeftByRelease
  StaleReservationRejected
  RefinesEscrow
