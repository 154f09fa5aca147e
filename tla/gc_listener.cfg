SPECIFICATION Spec
CONSTANTS
  Things <- ThreeThings
  Refused <- Nobody
  Threshold = 1
  Limit = 3
  PageSize = 2
  Ids <- TwoIds
  MaxClock = 1
  MaxRenewals = 0
  MaxDrops = 0
INVARIANT ListenerSurvives
CHECK_DEADLOCK FALSE
