SPECIFICATION Spec
CONSTANTS
  r1 = r1
  r2 = r2
  Requests <- MCRequests
  Rows <- MCRequests
  RequestId <- OwnIds
  QueueCap = 1
  BatchRows = 2
  Captures <- RequestBody
  RecordCap = 1
  RandomNames = {1}
  NoPath = NoPath
INVARIANTS TypeOK RowsInOrder ReadableIsWhole ExitLeavesNothing
PROPERTIES ShutdownEnds
CHECK_DEADLOCK FALSE
