SPECIFICATION FairChangeSpec
CONSTANTS
  MaxAttempts = 2
  MaxRuns = 2
  MaxDrops = 1
CHECK_DEADLOCK FALSE
INVARIANT OffIsGuarded
INVARIANT LeftOffIsReported
INVARIANT ArmedIsDismissedOrReported
PROPERTY RunEnds
PROPERTY CrashIsRecovered
