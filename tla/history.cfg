SPECIFICATION ApiFairSpec
CONSTANTS
  Partitions = {"p0"}
  BatchSize = 2
  AutoOffsetReset = "latest"
  Kinds <- WithRejected
  Interrupted = TRUE
  MaxLog = 1
  MaxFailures = 0
  MaxRedeliveries = 2
  MaxNow = 1
  MaxChanges = 1
  MaxStarts = 2
  MaxPages = 1
INVARIANTS ApiTypeOK ErasedStaysErased BrokenOnlyIfAway
PROPERTIES EveryEventSettles PageShown
CHECK_DEADLOCK FALSE
