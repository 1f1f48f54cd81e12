SPECIFICATION DecideSpec
CONSTANTS
  a = a
  b = b
  NoTenant = NoTenant
  MaxAt = 6
  DebounceWindow = 2
  FreshnessWindow = 2
  OccurredAtSkewMax = 4
  QueuedSkew = 1
  StaleOpenIn = 2
  Cutoffs = {0, 3}
INVARIANTS
  ScanPicksTheRulingStatement
  OnlyAVenueRuleLoosens
  PredictionAgreesWithClassification
  ChosenDirectionIsExplained
CHECK_DEADLOCK FALSE
