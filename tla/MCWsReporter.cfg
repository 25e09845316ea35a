CONSTANTS
  MaxQueue = 2
  Unserializable = {2}
  MaxEvents = 4
  MaxClosings = 2
  MaxDrops = 1
  MaxThrows = 1
SPECIFICATION Spec
INVARIANTS
  AnnouncedFirst
  SentInOrder
  OnlyOverflowLoses
PROPERTY
  EventsGetOut
CHECK_DEADLOCK FALSE
