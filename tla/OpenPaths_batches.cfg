CONSTANTS
  Batches = {"dialog", "drop", "retry"}
  Request <- SameOrder
  RequestId <- Ids
  DocumentLimit = 2
  MaxPrepares = 1
  RequestCapacity = 2
SPECIFICATION FairSpec
CHECK_DEADLOCK FALSE
INVARIANTS
  TypeOK
  ReservationsAccounted
  CancelledCommitsOne
PROPERTIES
  BatchesRespond
