\* Cancellations race with every step of a match; a limit order may come without a price.
CONSTANTS
  MaxOrders = 3
  Prices = {0, 1, 2}
  MaxTrades = 3
  Amounts = {1, 2}
  ReuseIds = FALSE
SPECIFICATION FairSpec
INVARIANTS
  DepthIsExact
  LoopInv
  VolumesTracked
PROPERTIES
  CancelledTradesOnceMore
  ProcessOrderReturns
  ImplementsPriceTime
