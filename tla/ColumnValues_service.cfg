\* Two queries and two column-values operations of two sessions, a drop and a
\* cancellation; every limit is met.
CONSTANTS
  Sessions = {s1, s2}
  Operations = {o1, o2}
  MaxExecutes = 2
  MaxEpochs = 3
  MaxDrops = 1
  MaxCancels = 1
  MaxQueryTasks = 1
  MaxQueryResults = 1
  MaxQueries = 1
  MaxSnapshots = 1
  MaxCommands = 3
SPECIFICATION ServiceSpec
SYMMETRY Symmetry
CHECK_DEADLOCK FALSE
INVARIANTS
  ServiceTypeOK
  ResultsCurrent
  CompleteReadable
  DropQuiesces
  CancelledGivesUp
  WorkersAccounted
