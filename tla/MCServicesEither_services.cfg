SPECIFICATION EitherSpec
CONSTANTS
  Processors = {p1, p2}
  First = p1
  Rooms = {r1, r2}
  EmptyTicks = TRUE
  Interrupts = TRUE
  MaxRequests = 3
INVARIANTS
  TypeOK
  EveryProcessorTold
  ClosesBetweenTicks
PROPERTIES
  Starts
  BusyTicksFinish
CHECK_DEADLOCK FALSE
