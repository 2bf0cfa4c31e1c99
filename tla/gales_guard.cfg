CONSTANTS
  MaxHeld = 3
  PositionLimit = 2
  GapHigh = 1
  GapLow = 1
  GapBeats = 2
  Equities = {0, 2, 5}
  MaxDrawdown = 40
  RecoveryBeats = 2
  MaxCritical = 1
  MaxRestarts = 1
SPECIFICATION FairSpec
INVARIANTS OrdersAreGuarded
PROPERTIES LimitYieldsOnce TripEnds HardBlockEnds
