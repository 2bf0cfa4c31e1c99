CONSTANTS
  MaxOrder = 2
  MaxPoll = 2
  ListsOrders = TRUE
SPECIFICATION FairSpec
INVARIANTS NeverAhead UntrackedIsSettled
PROPERTIES NeverBack Settles
