\* One handler beside the market maker; one change told apart, one loss.
CONSTANTS
  Handlers = {h1}
  MaxVersion = 1
  MaxLosses = 1
  MaxFetches = 2
  SendCap = 1
SPECIFICATION FairSpec
INVARIANTS
  TypeOK
  TerminalInv
  OrdersShownWithTheirFunds
PROPERTY
  TerminalCatchesUp
