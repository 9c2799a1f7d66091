CONSTANTS
  Users <- MCUsers
  Funds <- MCFunds
  Credit <- MCCredit
  Prices = {1, 2}
  Amounts = {1, 2}
  DemoRequests <- PricelessRequests
  SeedRequests <- SeedBoth
  PulseRequests <- Pulses
  MaxRequests = 2
  MaxSeeds = 1
  MaxPulses = 0
  MaxFaucets = 0
SPECIFICATION Spec
CHECK_DEADLOCK FALSE
INVARIANT
  PositionsMatchTrades
