CONSTANTS
  Clients = {c1, c2}
  Stalled = {c2}
  Publishers = {p1, p2}
  BroadcastCap = 1
  SendCap = 1
  MaxMessages = 3
SPECIFICATION FairSpec
CHECK_DEADLOCK FALSE
INVARIANTS
  TypeOK
  NoPanic
  HubInv
PROPERTIES
  ImplementsFeed
  MessagesArriveOrCut
