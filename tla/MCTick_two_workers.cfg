SPECIFICATION Spec
CONSTANTS
  Null = Null
  System = System
  Rooms = {r1, r2}
  Users = {u1}
  Workers = {w1, w2}
  MaxTime = 1
  MaxNap = 1
  Prefetch = 2
  MaxCrashes = 0
  MaxPushes = 0
SYMMETRY Symmetry
INVARIANTS
  PendingExact
  ProcessBeforeFinalize
  TickFinishedIsCurrent
  PlayersBeforeRoom
  NoLostWake
