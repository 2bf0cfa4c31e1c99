SPECIFICATION Spec
CONSTANTS
  InitialBalance = 60
  Price = {12, 24}
  Qty = {1, 2}
  MaxOrder = 3
  MaxCheck = 2
  MakerFeeRate = 1
  TakerFeeRate = 2
  Unit = 12
CONSTRAINT ResetCrossesAlone
INVARIANTS BooksBalance CoinIsPosition 
