CONSTANTS
  Users <- MCUsers
  Funds <- MCFunds
  Credit <- MCCredit
  Prices <- MCPrices
  Amounts = {1, 2}
  DemoRequests <- AskRequests
  SeedRequests <- NoRequests
  PulseRequests <- BotOrders
  MaxRequests = 2
  MaxSeeds = 0
  MaxPulses = 2
  MaxFaucets = 0
SPECIFICATION Spec
CHECK_DEADLOCK FALSE
INVARIANTS
  EscrowAccounted
  EscrowLostOnlyByFault
PROPERTY
  CancelUnlocksEscrow
