SPECIFICATION FairSocketSpec
CONSTANTS
  Tickers = {heartbeat}
  Results = {results}
  Handlers = {}
  Reader = reader
  MaxLate = 1
  None = None
CHECK_DEADLOCK FALSE
PROPERTY ReconnectIsForced
