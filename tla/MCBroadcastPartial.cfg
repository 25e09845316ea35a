CONSTANTS
  CorrIds = {c1, c2}
  Peers = {a, b}
  NoPeer = NoPeer
  MaxEvents = 4
  MaxPending = 2
  MaxSettled = 2
  TimeoutMs = 1
  MaxRequests = 3
  MaxResponses = 3
SPECIFICATION BroadcastSpec
INVARIANT PartialCountsPeers
CHECK_DEADLOCK FALSE
