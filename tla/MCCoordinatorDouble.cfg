SPECIFICATION Spec
CONSTANTS
  s1 = s1
  s2 = s2
  b1 = b1
  Session = {s1, s2}
  BudgetId = b1
  Limit = 2
  Amounts <- MCAmounts
  MaxReservations = 2
  MaxRequests = 5
CHECK_DEADLOCK FALSE
SYMMETRY MCSymmetry
INVARIANTS
  ChargedOnceByAnyone
