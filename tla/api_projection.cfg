SPECIFICATION ApiSpec
CONSTANTS
  Partitions = {"p0"}
  BatchSize = 1
  AutoOffsetReset = "earliest"
  Kinds <- OnlyEvents
  Interrupted = FALSE
  MaxLog = 1
  MaxFailures = 0
  MaxRedeliveries = 0
  MaxNow = 1
  MaxChanges = 0
  MaxStarts = 1
  MaxPages = 0
INVARIANT ProjectionByDefault
CHECK_DEADLOCK FALSE
