CONSTANTS
  MARGIN = 0
  WINDOW = 2
  CHUNK = 2
  FirstHead = 2
  MaxHead = 3
  MaxCrashes = 1
SPECIFICATION Spec
INVARIANTS
  TypeOK
  NoRevocationIsPassedOver
PROPERTIES
  EveryRevocationIsExamined
