SPECIFICATION Spec
CONSTANTS
  Replicas = {r1, r2}
  Tokens = {t1, t2, t3, t4}
  NoToken = NoToken
  Interval = 2
  TTL = 4
  JobMax = 1
  MaxLate = 0
  Faults = {}
PROPERTIES
  OneRunPerTick
