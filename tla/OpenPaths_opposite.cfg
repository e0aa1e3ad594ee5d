\* Overlapping batches that name their common files in opposite orders.
CONSTANTS
  Batches = {"dialog", "drop"}
  Request <- OppositeOrder
  RequestId <- Ids
  DocumentLimit = 2
  MaxPrepares = 1
  RequestCapacity = 2
SPECIFICATION FairSpec
CHECK_DEADLOCK FALSE
PROPERTIES
  WaitersProceed
