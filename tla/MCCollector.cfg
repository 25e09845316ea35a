CONSTANTS
  CorrIds = {c1, c2, c3}
  Peers = {a, b}
  MaxEvents = 4
  MaxPending = 2
  MaxSettled = 2
  TimeoutMs = 1
  MaxRequests = 4
  MaxResponses = 3
SPECIFICATION Spec
SYMMETRY Symmetry
INVARIANTS
  MemoryBounded
  RowsAccounted
  TimeoutRowIsTrue
  NoResurrection
CHECK_DEADLOCK FALSE
