SPECIFICATION Spec
CONSTANTS
  Things <- ThreeThings
  Refused <- Nobody
  Threshold = 1
  Limit = 3
  PageSize = 2
  Ids <- TwoIds
  MaxClock = 2
  MaxRenewals = 1
  MaxDrops = 0
PROPERTY DeletesOnlyExpired
CHECK_DEADLOCK FALSE
