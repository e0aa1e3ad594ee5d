\* One session: two preparations, one query or page, a cancellation, a drop and a
\* change of the file.
CONSTANTS
  Sessions = {s1}
  MaxTasks = 2
  Queries = {q1}
  Drops = {d1}
  None = None
  MaxPreparations = 1
  MaxVersions = 2
  MaxCancels = 1
SPECIFICATION Spec
CHECK_DEADLOCK FALSE
INVARIANTS
  TypeOK
  PreparedIsFresh
  DropQuiescesPreparation
  PreparationsGoOn
PROPERTIES
  ReadyIsCurrent
