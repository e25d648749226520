SPECIFICATION Spec
CONSTANTS
  Logs <- MCPlain
  Wanted = {"w", "v"}
  SkipNum = 3
  MaxSessions = 2
INVARIANT RowsComplete
CHECK_DEADLOCK FALSE
