\* Opens, page reads, replacements and closes; the budget of one page is exceeded as
\* soon as two documents are open.
CONSTANTS
  Threads = {t1, t2}
  Paths = {p1, p2}
  Keys = {k1, k2}
  MaxDocId = 2
  MaxSessionId = 3
  MaxReads = 2
  DocumentLimit = 2
  PageCacheCapacity = 1
  TotalCacheCapacity = 1
SPECIFICATION Spec
SYMMETRY Symmetry
CHECK_DEADLOCK FALSE
INVARIANTS
  TypeOK
  OneDocumentPerPath
  ReservationsHeld
  CachedPagesCurrent
  ResultsMatchRequest
  WithinPageBudget
PROPERTIES
  Atomic
