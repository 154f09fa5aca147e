SPECIFICATION TrustSpec
CONSTANTS
  Requests = {r1, r2}
  SecretContents = {"none", "unusable", "pair"}
  Hours <- SomeHours
  Hour = 10
  Half = 128
  DefaultTTL = 30
  MaxTTL = 50
  WatchMayEnd = TRUE
  Tenants <- OneTenant
  ObjectOf <- OneObjectEach
  Changing <- OnlySecret
  Published <- SoundOrBad
  Installed <- AllInstalled
  Closable <- NoWatch
  MAX_RETRIES = 0
  MaxVersion = 2
  MaxFailures = 1
  MaxMishaps = 1
  MaxRestarts = 0
INVARIANTS TrustTypeOK SignedByOneCA LifetimeAllowed AnchorsQuiet
PROPERTY NeverSignsWithOlder
CONSTRAINT OneFailure
SYMMETRY Symmetry
CHECK_DEADLOCK FALSE
