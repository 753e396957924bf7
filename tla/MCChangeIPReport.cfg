SPECIFICATION ChangeSpec
CONSTANTS
  MaxAttempts = 1
  MaxRuns = 1
  MaxDrops = 0
CHECK_DEADLOCK FALSE
INVARIANT ReportTellsFailure
