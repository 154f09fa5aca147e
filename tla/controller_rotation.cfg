SPECIFICATION FairSpec
CONSTANTS
  Tenants <- OneTenant
  ObjectOf <- SharedSecret
  Published <- RotationChanges
  Changing <- RotationObjects
  Installed <- AllInstalled
  Closable <- NoWatch
  MAX_RETRIES = 1
  MaxVersion = 3
  MaxFailures = 2
  MaxRestarts = 0
INVARIANTS QuietMeansSynced
PROPERTIES NeverRegresses Converges
CHECK_DEADLOCK FALSE
