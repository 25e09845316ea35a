CONSTANTS
  Node = {1, 2, 3}
  Wall = {0, 1, 2}
  MaxStamps = 2
  TrueOffset = 5
  Delays = {0, 1, 4}
  windowN = 3
  reestimateIntervalMs = 2
  rttStddevThresholdMs = 1
  MaxSamples = 4
  MaxTime = 3
SPECIFICATION ClockSpec
INVARIANTS
  OrderFollowsCausality
  TruthIsNear
PROPERTY
  NeverRewinds
CHECK_DEADLOCK FALSE
