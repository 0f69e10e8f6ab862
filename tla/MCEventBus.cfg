SPECIFICATION Spec
CONSTANTS
  Clients = {tab1}
  RING_SIZE = 2
  QUEUE_MAXSIZE = 1
  MaxEvents = 5
  MaxLosses = 2
INVARIANTS
  TypeOK
PROPERTIES
  ContiguousOrTold
  AlarmsAreTrue
  CatchesUp
  WritersEnd
