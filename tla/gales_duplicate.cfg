CONSTANTS
  Width = 1
  MaxGrid = 1
  MaxOrder = 2
  Qty = 1
  MaxActiveOrders = 1
  FreezeTicks = 1
  MaxCrashes = 0
SPECIFICATION Spec
INVARIANT OneLivePerGrid
