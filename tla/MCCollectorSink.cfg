CONSTANTS
  CorrIds = {c1, c2}
  Peers = {a, b}
  NoPeer = NoPeer
  MaxEvents = 2
  MaxPending = 1
  MaxSettled = 1
  TimeoutMs = 1
  MaxRequests = 3
  MaxResponses = 3
SPECIFICATION SinkSpec
INVARIANTS
  CountersTellAll
PROPERTY
  RequestsEnd
CHECK_DEADLOCK FALSE
