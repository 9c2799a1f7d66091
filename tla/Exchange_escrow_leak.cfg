CONSTANTS
  Users <- MCUsers
  Funds <- MCFunds
  Credit <- MCCredit
  Prices = {1, 2}
  Amounts = {1, 2}
  DemoRequests <- MixedRequests
  SeedRequests <- NoRequests
  PulseRequests <- Pulses
  MaxRequests = 2
  MaxSeeds = 0
  MaxPulses = 1
  MaxFaucets = 0
SPECIFICATION Spec
CHECK_DEADLOCK FALSE
INVARIANT
  EscrowBacksRestingOrders
