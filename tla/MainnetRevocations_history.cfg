CONSTANTS
  MARGIN = 0
  CHUNK = 3
  TAIL = 1
  TRUSTED = 2
  GROUPS = 1
  BLOCKS = 9
  MAX_SKIPPED = 2
  WINDOW = 1
  FirstHead = 4
  MaxHead = 4
SPECIFICATION Spec
PROPERTY HistoryIsWalked
