\* A query that finds the file of its preparation changed.
CONSTANTS
  Sessions = {s1}
  MaxTasks = 2
  Queries = {q1}
  Drops = {d1}
  None = None
  MaxPreparations = 1
  MaxVersions = 2
  MaxCancels = 1
SPECIFICATION Spec
CHECK_DEADLOCK FALSE
INVARIANTS
  FallbackAfterFailure
