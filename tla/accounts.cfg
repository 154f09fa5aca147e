SPECIFICATION FairSpec
CONSTANTS
  Objects <- RealmClientRole
  Accounts <- OnlyCollector
  Collector = "garbage-collector"
  BackoffLimit = 1
  MaxFailures = 1
  MaxReleases = 2
  MaxDeletions = 1
  Lifetime = 8
  MinSleep = 1
  Margin = 1
  Latency = 1
  MaxTime = 10
  MaxErrors = 1
INVARIANTS TypeOK SecretsWork SuccessIsComplete LeaseHolds CachedTokenUsable RefusedForAReason
PROPERTIES CollectorGetsIn StaysIn
CHECK_DEADLOCK FALSE
