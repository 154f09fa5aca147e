SPECIFICATION FairSpec
CONSTANTS
  Tenants <- TwoTenants
  ObjectOf <- SharedSecret
  Changing <- TenantObjects
  Published <- TenantChanges
  Installed <- AllInstalled
  Closable <- TenantWatch
  MAX_RETRIES = 1
  MaxVersion = 2
  MaxFailures = 0
  MaxRestarts = 0
PROPERTY Converges
CHECK_DEADLOCK FALSE
