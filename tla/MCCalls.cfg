CONSTANTS
  wallet = wallet
  chat = chat
  send = send
  list = list
  NoClient = NoClient
  Clients <- MCClients
  MethodsOf <- MCMethodsOf
  Decorated <- MCDecorated
  ReplayLogMax = 2
  InflightMax = 2
  MaxCalls = 3
  MaxReplays = 2
  MaxStreams = 1
  MaxItems = 1
SPECIFICATION Spec
INVARIANTS
  TagsTellReplays
  ReplaysAreSeen
  InflightIsTrue
  EndsOnce
CHECK_DEADLOCK FALSE
