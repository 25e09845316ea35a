CONSTANTS
  Probes = {p1, p2, p3}
  MaxBuffered = 1
  Reports <- MCReports
  MaxPolls = 2
  Layers = {p1, p2}
  MaxSockets = 2
SPECIFICATION AdaptersSpec
INVARIANTS
  AppLearnsTheTruth
  ProbesSeeTraffic
  RestoreEndsReports
  StatsTellThePair
  SocketsToldTruly
CHECK_DEADLOCK FALSE
