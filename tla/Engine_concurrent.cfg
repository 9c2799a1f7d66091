\* Cancellations race with every step of a match.
CONSTANTS
  MaxOrders = 4
  Prices = {1, 2}
  MaxTrades = 4
  Amounts = {1, 2}
  ReuseIds = FALSE
SPECIFICATION Spec
INVARIANTS
  TypeOK
  QueuesAreFIFO
  LaddersMatchQueues
  IndexIsExact
  PriceTimePriority
  TradesAreFair
  FillsMatchTrades
  BookIsUncrossed
  OnlyLiveOrdersRest
  EngineInv
PROPERTY
  MatchAdvances
