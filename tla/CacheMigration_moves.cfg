CONSTANTS
  Windows = {w1, w2}
  Callers = {c1}
  Keys = {1}
  Home = home
  Away = away
  None = None
  MaxMoves = 1
  MaxCrashes = 2
  MaxFaults = 1
SYMMETRY Symmetry
SPECIFICATION Spec
INVARIANTS TypeOK CacheFollowsSetting LeasedWhole SelectedOpens
CHECK_DEADLOCK FALSE
