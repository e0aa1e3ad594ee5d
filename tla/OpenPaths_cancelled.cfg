\* A cancellation that comes between the check of an item and its commit.
CONSTANTS
  Batches = {"dialog", "drop", "retry"}
  Request <- SameOrder
  RequestId <- Ids
  DocumentLimit = 2
  MaxPrepares = 1
  RequestCapacity = 2
SPECIFICATION Spec
CHECK_DEADLOCK FALSE
INVARIANTS
  CancelledCommitsNothing
