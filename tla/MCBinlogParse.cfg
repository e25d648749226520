SPECIFICATION Spec
CONSTANTS
  Logs <- MCLogs
  Wanted = {"w", "v"}
  SkipNum = 3
  MaxSessions = 3
INVARIANTS TypeOK CompleteFromBoundary OwnTableFromBoundary PointsAreCommitsOrRows
CHECK_DEADLOCK FALSE
