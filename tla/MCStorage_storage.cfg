SPECIFICATION StorageSpec
CONSTANTS
  Clients = {c1, c2}
  Keys = {k1, k2}
  Values = {v1, v2}
  Absent = Absent
  Unknown = Unknown
  MaxWrites = 3
  MaxSaves = 2
  MaxRestarts = 1
  Workers = {w1, w2}
  Rooms = {r1, r2}
  Time = Time
  NoWorker = NoWorker
  MaxTime = 3
  MaxRoomSaves = 1
  MaxCrashes = 1
  c1 = c1
  s1 = s1
  s2 = s2
  s3 = s3
  Threads = {c1, c2}
  Top = top
  Nobody = Nobody
  Subscribers = {s1, s2, s3}
  Place <- PlaceOf
  MaxMessages = 2
  MaxAttempts = 3
  Loops = {l1, l2}
  MaxArrivals = 3
SYMMETRY Symmetry
INVARIANTS
  ReadsLastWrite
  ReadsCurrent
  HearsAll
  YieldsAll
PROPERTIES
  UnlinksExist
  KeepsBlobs
  RollsBackTogether
CHECK_DEADLOCK FALSE
