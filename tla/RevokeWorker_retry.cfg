CONSTANTS
  MARGIN = 1
  WINDOW = 2
  CHUNK = 1
  FirstHead = 3
  MaxHead = 4
  MaxCrashes = 0
SPECIFICATION Spec
INVARIANTS
  RetryableIsAhead
