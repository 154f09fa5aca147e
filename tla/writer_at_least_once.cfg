SPECIFICATION FairSpec
CONSTANTS
  Partitions = {"p0"}
  BatchSize = 2
  AutoOffsetReset = "earliest"
  Kinds <- OnlyEvents
  Interrupted = FALSE
  MaxLog = 1
  MaxFailures = 0
  MaxRedeliveries = 1
PROPERTY AtLeastOnce
CHECK_DEADLOCK FALSE
