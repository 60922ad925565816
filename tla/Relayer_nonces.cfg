CONSTANTS
  Lanes = {l1, l2}
  Queries = {q1, q2}
  CEILING = 4
  MaxRequests = 4
  Ips = {"ip1"}
  CAPACITY = 2
  REFILL_INTERVAL = 3
  MaxAge = 4
  MaxTime = 0
SPECIFICATION Spec
INVARIANTS
  NoncesInFlightAreDistinct
CHECK_DEADLOCK FALSE
