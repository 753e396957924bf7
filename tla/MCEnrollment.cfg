SPECIFICATION FairEnrollSpec
CONSTANTS
  Tokens = {t1, t2}
  Credentials = {k1, k2}
  Conns = {c1, c2}
  MaxFaults = 1
  None = None
CHECK_DEADLOCK FALSE
INVARIANT AccessIsCurrent
PROPERTY KeyIsKept
PROPERTY AgentComesBack
