SPECIFICATION ModsSpec
CONSTANTS
  Users = {u1, u2}
  Rooms = {r1, r2}
  Nobody = Nobody
  MaxLevel = 2
  MaxTime = 1
  Depots = {r1, r2, r3}
  Capacity = 2
  MaxAmount = 2
  Stocks = {0, 2}
  Flows <- Withdrawals
  MaxDay = 1
  Sectors = {r1, r2}
  Travellers = {a, b, c}
  Owner <- OwnerOf
  None = None
  MaxTick = 2
  Creeps = {a, b, c, d}
  Tiles = {t1, t2, t3, t4, t5, wall}
  Walls = {wall}
  Unmoving = Unmoving
  Starts <- Placements
  Hostiles <- HostileSets
  Clients = {q1, q2}
  Ids = {i1}
  Names = {name1, name2}
  Absent = Absent
  Levels = 2
  Attempts = 2
  Cooldown = 1
  MaxRosterTime = 1
  MaxRequests = 3
  Recorders = {n1, n2}
  Rows = {m1, m2}
  Due <- DueAt
  Unscheduled = Unscheduled
  Interval = 1
  MaxNoteTime = 3
  MaxRecords = 3
  a = a
  b = b
  c = c
  d = d
  t1 = t1
  t2 = t2
  t3 = t3
  t4 = t4
  m1 = m1
  m2 = m2
SYMMETRY Symmetry
INVARIANTS
  NeverOverLevel
  OwnedIsCounted
  SendsFit
  NobodyGetsLost
  NeverCollide
  MovesGoThrough
  RunnerCurrent
  NothingStranded
  CountsConverge
PROPERTIES
  MutatesAtomically
CHECK_DEADLOCK FALSE
