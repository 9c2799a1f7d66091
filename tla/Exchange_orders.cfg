CONSTANTS
  Users <- MCUsers
  Funds <- MCFunds
  Credit <- MCCredit
  Prices <- MCPrices
  Amounts = {1, 2}
  DemoRequests <- CrossingRequests
  SeedRequests <- NoRequests
  PulseRequests <- Pulses
  MaxRequests = 2
  MaxSeeds = 0
  MaxPulses = 0
  MaxFaucets = 1
SPECIFICATION FairSpec
CHECK_DEADLOCK FALSE
INVARIANTS
  TypeOK
  WorkingOrdersAreListed
  HistoryOnceUnlessOvertaken
  ExchangeInv
  TradingInv
PROPERTY
  RequestsAnswered
  WorkRunsOut
