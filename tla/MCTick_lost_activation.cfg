SPECIFICATION Spec
CONSTANTS
  Null = Null
  System = System
  Rooms = {r1}
  Users = {u1}
  Workers = {w1}
  MaxTime = 2
  MaxNap = 1
  Prefetch = 1
  MaxCrashes = 0
  MaxPushes = 0
SYMMETRY Symmetry
INVARIANTS
  PlayersStayActive
