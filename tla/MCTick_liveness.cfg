SPECIFICATION FairSpec
CONSTANTS
  Null = Null
  System = System
  Rooms = {r1}
  Users = {u1}
  Workers = {w1}
  MaxTime = 2
  MaxNap = 0
  Prefetch = 1
  MaxCrashes = 0
  MaxPushes = 0
PROPERTIES
  TickCompletes
