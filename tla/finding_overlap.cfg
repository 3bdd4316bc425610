SPECIFICATION Spec
CONSTANTS
  Replicas = {r1, r2}
  Tokens = {t1, t2, t3, t4}
  NoToken = NoToken
  Interval = 2
  TTL = 2
  JobMax = 3
  MaxLate = 0
  Faults = {}
INVARIANT
  MutualExclusion
