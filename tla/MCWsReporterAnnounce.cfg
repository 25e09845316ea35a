CONSTANTS
  MaxQueue = 2
  Unserializable = {}
  MaxEvents = 3
  MaxClosings = 1
  MaxDrops = 0
  MaxThrows = 0
SPECIFICATION Spec
INVARIANT AnnouncedOnce
CHECK_DEADLOCK FALSE
