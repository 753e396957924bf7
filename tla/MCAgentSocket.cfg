SPECIFICATION FairSocketSpec
CONSTANTS
  Tickers = {heartbeat}
  Results = {}
  Handlers = {h1}
  Reader = reader
  MaxLate = 1
  None = None
CHECK_DEADLOCK FALSE
PROPERTY FramesAreWhole
PROPERTY WritesEnd
PROPERTY BrokenIsClosed
PROPERTY SessionEnds
