SPECIFICATION DeliverySpec
CONSTANTS
  Capacity = 2
  MaxSeq = 4
  Empty = Empty
  Readers = {r1, r2}
  Limit = 2
  None = None
  Last = Last
  MaxLinks = 2
  SkipAt = 1
  Kinds = {"memory", "socket"}
SYMMETRY Symmetry
INVARIANTS
  CoversIsSound
  CoversIsTight
  BufferIsNeeded
  NobodyWaitsAtTheEnd
  EventsFollowLog
PROPERTIES
  ImplementsWindow
  ImplementsWindows
  ImplementsStream
CHECK_DEADLOCK FALSE
