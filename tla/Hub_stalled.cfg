\* Enough messages to fill every buffer behind a browser that stops reading.
CONSTANTS
  Clients = {c1}
  Stalled = {c1}
  Publishers = {p1, p2}
  BroadcastCap = 1
  SendCap = 1
  MaxMessages = 6
SPECIFICATION FairSpec
CHECK_DEADLOCK FALSE
PROPERTY
  BroadcastReturns
