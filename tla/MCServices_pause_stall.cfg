SPECIFICATION FairSpec
CONSTANTS
  Processors = {p1}
  Rooms = {r1}
  EmptyTicks = TRUE
  Interrupts = FALSE
  MaxRequests = 2
PROPERTIES
  TicksFinish
CHECK_DEADLOCK FALSE
