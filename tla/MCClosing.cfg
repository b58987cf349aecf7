SPECIFICATION CSpec
CONSTANTS
  b1 = b1
  BudgetId = {b1}
  Generations = {1}
  PolicyGenerations = {1}
  Currencies = {"USD"}
  Currency = "USD"
  Modes = {"HARD", "SOFT"}
  Limits = {2}
  Expiries = {0}
  Amounts = {1, 2}
  Times = {1}
  MaxEpoch = 2
  MaxReservations = 2
PROPERTIES
  EndedNeverCharged
