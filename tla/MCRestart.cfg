SPECIFICATION RSpec
CONSTANTS
  s1 = s1
  k1 = k1
  k2 = k2
  Absent = Absent
  Session = {s1}
  Price = {k1, k2}
  Limit = 2
  Amounts = {1}
  MaxEpoch = 3
  MaxGeneration = 3
  MaxReservations = 1
CHECK_DEADLOCK FALSE
INVARIANTS
  RestartFences
