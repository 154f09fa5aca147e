SPECIFICATION Spec
CONSTANTS
  Tenants <- TwoTenants
  ObjectOf <- SharedSecret
  Published <- TenantChanges
  Changing <- TenantObjects
  Installed <- AllInstalled
  Closable <- TenantWatch
  MAX_RETRIES = 2
  MaxVersion = 3
  MaxFailures = 1
  MaxRestarts = 1
INVARIANTS TypeOK SuccessMeansApplied QuietMeansSynced ControllerInv
CHECK_DEADLOCK FALSE
PROPERTY NeverRegresses
