CONSTANTS
  MARGIN = 0
  CHUNK = 5
  TAIL = 3
  TRUSTED = 2
  GROUPS = 1
  BLOCKS = 9
  MAX_SKIPPED = 2
  WINDOW = 1
  FirstHead = 3
  MaxHead = 4
SPECIFICATION Spec
INVARIANTS
  NothingAboveTheCursorIsMissed
  StallsAreBounded
PROPERTIES
  FreshRevocationsAreApplied
