SPECIFICATION FairSpec
CONSTANTS
  Things <- ThreeThings
  Refused <- LastThing
  Threshold = 1
  Limit = 2
  PageSize = 1
  Ids <- TwoIds
  MaxClock = 1
  MaxRenewals = 1
  MaxDrops = 1
INVARIANTS TypeOK FoundOnce SearchBounded ResolvedByOwnAnswer AnswerStillComing
PROPERTIES RunEnds
CHECK_DEADLOCK FALSE
