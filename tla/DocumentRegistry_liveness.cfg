\* Every command of two threads, one page read included; one document
\* fills the registry.
CONSTANTS
  Threads = {t1, t2}
  Paths = {p1, p2}
  Keys = {k1}
  MaxDocId = 2
  MaxSessionId = 3
  MaxReads = 1
  DocumentLimit = 1
  PageCacheCapacity = 2
  TotalCacheCapacity = 1
SPECIFICATION FairSpec
CHECK_DEADLOCK FALSE
INVARIANTS
  WithinDocumentLimit
PROPERTIES
  CommandsReturn
