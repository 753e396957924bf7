SPECIFICATION FairGatewaySpec
CONSTANTS
  Nodes = {n1}
  RequestIds = {r1}
  Handlers = {h1, h2}
  getIp = getIp
  changeIp = changeIp
  Calls <- MCCalls
  StateChanging <- MCStateChanging
  IpChanging <- MCIpChanging
  HistoryLimit = 1
  None = None
  PendingLimit = 1
  MaxRestarts = 1
INVARIANT RegistrationMatches
PROPERTY DepartureMarks
PROPERTY KeepsRequestPromises
