CONSTANTS
  Users <- MCUsers
  Funds <- MCFunds
  Credit <- MCCredit
  Prices = {1, 2}
  Amounts = {1, 2}
  DemoRequests <- SettledRequests
  SeedRequests <- SeedAsks
  PulseRequests <- BuyPulse
  MaxRequests = 2
  MaxSeeds = 1
  MaxPulses = 1
  MaxFaucets = 0
SPECIFICATION Spec
CHECK_DEADLOCK FALSE
INVARIANTS
  MoneyConserved
  PositionsMatchTrades
  PositionsInv
