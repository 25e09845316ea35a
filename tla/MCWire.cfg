CONSTANTS
  Base = 2
  PrefixLength = 2
  Payloads <- MCPayloads
  MaxThrows = 2
  Units <- MCUnits
  Octets <- MCOctets
  MaxUnits = 3
  MaxOctets = 4
  DigitBase = 4
  Direct = 2
  Nesting = 2
  n1 = n1
  n2 = n2
  Nodes <- MCNodes
  PeerOf <- MCPeerOf
  Peers <- MCPeers
  alice = alice
  bob = bob
  carol = carol
  Broadcast = Broadcast
  HandleOf <- MCHandleOf
  HashOf <- MCHashOf
  Seed <- MCSeed
  Envelopes <- MCEnvelopes
  Bindings <- MCBindings
  UlidLength = 2
  UlidBytes = 1
  MaxMessages = 2
  Capacity = 3
  MaxPushes = 7
  Undefined = Undefined
SPECIFICATION WireSpec
INVARIANTS
  MessagesWhole
  TextSurvives
  DamageStaysLocal
  EnvelopesSurvive
  DamageRefused
  NoStaleSlot
  IterationMovesForward
PROPERTIES
  MessagesArrive
  RingIsBoundedFifo
CHECK_DEADLOCK FALSE
