\* Two copies at a time; an attempt leaves the history when its session starts the
\* next one, and its id is used again.
CONSTANTS
  OperationIds = {o1, o2}
  Sessions = {s1, s2}
  None = None
  HistoryCapacity = 0
  MaxBatches = 1
  MaxStarts = 4
SPECIFICATION FairSpec
CHECK_DEADLOCK FALSE
INVARIANTS
  TypeOK
  CancelHonoured
  OutcomeMatchesClipboard
PROPERTIES
  DroppedNeverWritten
  CopiesEnd
