SPECIFICATION FairSpec
CONSTANTS
  Ranks = 2
  Setups <- MCSetups
  WarmUps = 1
INVARIANTS TypeOK FieldsAliveInSteps CollectivesMatch MpiCallsLegal
PROPERTIES EveryRankEnds
CHECK_DEADLOCK FALSE
