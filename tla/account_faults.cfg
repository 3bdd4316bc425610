SPECIFICATION BSpec
CONSTANTS
  c1 = c1
  c2 = c2
  c3 = c3
  i1 = i1
  i2 = i2
  A1 = A1
  a1 = a1
  bad = bad
  n1 = n1
  n2 = n2
  Clients = {c1, c2}
  Ids = {i1, i2}
  NoId = NoId
  Emails <- MCEmails
  ValidEmails <- MCValidEmails
  Lower <- MCLower
  Names = {n1, n2}
  Nil = Nil
  NoAccount = NoAccount
  NoCall = NoCall
  Requests <- MCLifeRequests
  MaxOpenConns = 2
  Migrate = FALSE
  Manager = "redis"
  Faults = {"cache_get", "cache_delete", "db", "commit", "limiter", "cancel"}
  Backends = {"gorm", "sqlc", "mongo", "indexed"}
INVARIANTS
  BackendInv
  SerialUnique
  NoCircularWait
PROPERTIES
  OutcomesListed
  UncachedExistsJustified
  OnlyRereadBreaksWrite
  BackendsImplementTable
SYMMETRY ClientSymmetry
