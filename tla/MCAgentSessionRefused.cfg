SPECIFICATION FairSessionSpec
CONSTANTS
  Requests = {r1, r2}
  Rerouting = {r2}
  Conns = {c1, c2}
  JournalMax = 2
  HelloLimit = 1
  QueueMax = 1
  MaxFaults = 1
  None = None
CHECK_DEADLOCK FALSE
PROPERTY JournalIsReplayed
