SPECIFICATION Spec
CONSTANTS
  Clients = {"sdk", "web"}
  SourceHead = 3
  Indexes = {0, 1}
  MaxAttempts = 2
  Txs = {1, 2, 3}
  Span = 2
  MAX_TXS_PER_BATCH = 2
  MAX_BLOCK_SPAN = 0
  Tip = 3
  LOG_WINDOW = 2
  MIN_LOG_WINDOW = 1
  Limit = 2
  MaxWindows = 1
  MaxRounds = 2
  Rows = 3
  Page = 1
  Take = 2
  MaxPages = 3
  Margin = 1
  Times = 3
  LogPages = {p1, p2}
  Nothing = Nothing
INVARIANTS
  TypeOK
  ClaimsAreTrue
  BatchesArePacked
  CountedIsMirrored
  ScanLeavesNoGap
  PagesLeaveNoHole
  VerdictIsSound
PROPERTIES
  StagesAreInOrder
  ProgramsEnd
CHECK_DEADLOCK FALSE
