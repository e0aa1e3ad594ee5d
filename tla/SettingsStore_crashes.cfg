\* One caller; the process ends up to twice.
CONSTANTS
  Callers = {main}
  None = None
  MaxWrites = 6
  MaxLoads = 4
  MaxCrashes = 2
  MaxFaults = 2
SPECIFICATION Spec
CHECK_DEADLOCK FALSE
INVARIANTS
  TypeOK
  LoadReturnsSaved
