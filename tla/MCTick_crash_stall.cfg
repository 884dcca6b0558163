SPECIFICATION FairSpec
CONSTANTS
  Null = Null
  System = System
  Rooms = {r1}
  Users = {u1}
  Workers = {w1}
  MaxTime = 1
  MaxNap = 0
  Prefetch = 1
  MaxCrashes = 1
  MaxPushes = 0
PROPERTIES
  TickCompletes
CHECK_DEADLOCK FALSE
