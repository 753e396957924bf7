SPECIFICATION FairRequestsSpec
CONSTANTS
  Nodes = {n1, n2}
  RequestIds = {r1, r2}
  getIp = getIp
  restartXui = restartXui
  changeIp = changeIp
  Calls <- MCCalls
  StateChanging <- MCStateChanging
  IpChanging <- MCIpChanging
  HistoryLimit = 1
  None = None
INVARIANT OneActiveChange
INVARIANT SentAtMostOnce
PROPERTY TerminalIsFinal
PROPERTY ImplementsNodeActionLock
PROPERTY ActiveMovesOn
