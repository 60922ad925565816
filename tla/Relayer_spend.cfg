CONSTANTS
  Lanes = {l1, l2}
  Queries = {q1, q2}
  CEILING = 1
  MaxRequests = 3
  Ips = {"ip1"}
  CAPACITY = 2
  REFILL_INTERVAL = 3
  MaxAge = 4
  MaxTime = 0
SPECIFICATION Spec
INVARIANTS
  SpendWithinCeiling
CHECK_DEADLOCK FALSE
