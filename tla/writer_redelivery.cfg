SPECIFICATION Spec
CONSTANTS
  Partitions = {"p0", "p1"}
  BatchSize = 2
  AutoOffsetReset = "latest"
  Kinds <- EveryOutcome
  Interrupted = TRUE
  MaxLog = 2
  MaxFailures = 1
  MaxRedeliveries = 2
INVARIANTS TypeOK Accounted BatchBounded FirstRowsInOrder RowsBoundedByDeliveries
PROPERTY StoresInTurn
CHECK_DEADLOCK FALSE
