CONSTANTS
  Conns = {c1, c2, c3, c4}
  Sources = {s1, s2}
  Invocable = {c1, c2, c3}
  MaxHistory = 2
  MaxEvents = 3
  MaxClears = 1
  MaxInvokes = 1
SPECIFICATION Spec
SYMMETRY Symmetry
INVARIANTS
  ChipsAreLive
  ViewersAgree
  PurgeSticks
PROPERTY
  ReplayReachesNewest
CHECK_DEADLOCK FALSE
