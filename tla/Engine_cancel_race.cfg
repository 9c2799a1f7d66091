CONSTANTS
  MaxOrders = 3
  Prices = {1}
  Amounts = {1, 2}
  MaxTrades = 3
  ReuseIds = FALSE
SPECIFICATION Spec
PROPERTY
  CancelledTradesNoMore
