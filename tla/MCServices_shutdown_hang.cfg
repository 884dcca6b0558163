SPECIFICATION FairSpec
CONSTANTS
  Processors = {p1}
  Rooms = {r1}
  EmptyTicks = FALSE
  Interrupts = TRUE
  MaxRequests = 0
PROPERTIES
  ShutdownStops
CHECK_DEADLOCK FALSE
