SPECIFICATION Spec
CONSTANTS
  c1 = c1
  c2 = c2
  c3 = c3
  i1 = i1
  i2 = i2
  A1 = A1
  a1 = a1
  bad = bad
  n1 = n1
  n2 = n2
  Clients = {c1}
  Ids = {i1}
  NoId = NoId
  Emails <- MCEmails
  ValidEmails <- MCValidEmails
  Lower <- MCLower
  Names = {n1, n2}
  Nil = Nil
  NoAccount = NoAccount
  NoCall = NoCall
  Requests <- MCUpdateRequests
  MaxOpenConns = 1
  Migrate = FALSE
  Manager = "redis"
  Faults = {}
PROPERTIES
  CacheNeverBreaksWrite
