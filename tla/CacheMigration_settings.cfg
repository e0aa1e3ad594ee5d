CONSTANTS
  Windows = {w1}
  Callers = {c1, c2}
  Keys = {1}
  Home = home
  Away = away
  None = None
  MaxMoves = 0
  MaxCrashes = 0
  MaxFaults = 1
SPECIFICATION FairSpec
PROPERTY CallsReturn
CHECK_DEADLOCK FALSE
