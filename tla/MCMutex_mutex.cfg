SPECIFICATION FairSpec
CONSTANTS
  Nobody = Nobody
  Peers = {p1, p2}
  Expires = TRUE
  MaxLocks = 3
  MaxMail = 2
  MaxCrashes = 1
  MaxDisposals = 1
INVARIANTS
  TypeOK
  MutualExclusion
  NeverFails
PROPERTIES
  Granted
CHECK_DEADLOCK FALSE
