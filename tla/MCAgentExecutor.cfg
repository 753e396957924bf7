SPECIFICATION FairExecutorSpec
CONSTANTS
  RequestIds = {r1, r2}
  Workers = {w1, w2}
  getIp = getIp
  restartXui = restartXui
  Actions <- MCActions
  StateChanging <- MCStateChanging
  Weights <- MCWeights
  Indented <- MCIndented
  MaxEntries = 2
  MaxBytes = 4
  None = None
  MaxDeliveries = 3
  MaxFaults = 1
CHECK_DEADLOCK FALSE
INVARIANT ActionsAreSerialized
INVARIANT FileOpens
INVARIANT ChangeRunsOnce
INVARIANT SuccessIsDurable
PROPERTY EveryCommandAnswered
