SPECIFICATION FairSpec
CONSTANTS
  Replicas = {r1, r2}
  Tokens = {t1, t2, t3, t4}
  NoToken = NoToken
  Interval = 2
  TTL = 2
  JobMax = 3
  MaxLate = 1
  Faults = {"redis", "crash", "stop"}
INVARIANTS
  LockInv
  OverlapNeedsOverrun
PROPERTIES
  OnlyOwnRelease
  JobKeepsRunning
