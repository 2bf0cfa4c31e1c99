CONSTANTS
  Width = 1
  MaxGrid = 2
  MaxOrder = 2
  Qty = 2
  MaxActiveOrders = 1
  FreezeTicks = 1
  MaxCrashes = 1
SPECIFICATION FairSpec
INVARIANTS IndexAgrees CountAgrees
PROPERTIES KeepsBook DoneIsDropped
