CONSTANTS
  Clients = {"sdk"}
  SourceHead = 2
  Indexes = {0, 1}
  MaxAttempts = 1
SPECIFICATION ClientSpec
INVARIANT ReportedQueryIsApplied
CHECK_DEADLOCK FALSE
