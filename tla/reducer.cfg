CONSTANTS
  Leverages <- MCLeverages
  TargetLeverage = 2
  WarningLeverage = 3
  ReduceLeverage = 4
  NoPosition = NoPosition
  MaxActions = 3
SPECIFICATION FairSpec
INVARIANTS ReducerTypeOK OneReductionInFlight
PROPERTIES SellsOnGrounds RetriesUntilDone
