\* A thread that loads while the main thread saves; no process ends.
CONSTANTS
  Callers = {main, worker}
  None = None
  MaxWrites = 3
  MaxLoads = 1
  MaxCrashes = 0
  MaxFaults = 0
SPECIFICATION Spec
CHECK_DEADLOCK FALSE
INVARIANTS
  SavedSettingsStay
