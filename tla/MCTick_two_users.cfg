SPECIFICATION Spec
CONSTANTS
  Null = Null
  System = System
  Rooms = {r1}
  Users = {u1, u2}
  Workers = {w1}
  MaxTime = 1
  MaxNap = 1
  Prefetch = 1
  MaxCrashes = 1
  MaxPushes = 0
SYMMETRY Symmetry
INVARIANTS
  OneLiveQueue
  ActiveCountsPlayers
  QueueCountsPlayers
PROPERTIES
  BulkSynchronous
CHECK_DEADLOCK FALSE
