SPECIFICATION Spec
CONSTANTS
  Null = Null
  System = System
  Rooms = {r1, r2}
  Users = {}
  Workers = {w1}
  MaxTime = 2
  MaxNap = 2
  Prefetch = 1
  MaxCrashes = 0
  MaxPushes = 1
SYMMETRY Symmetry
INVARIANTS
  TypeOK
  FinalizeBeforeNextTick
  PushedIntentsWake
PROPERTIES
  BulkSynchronous
