SPECIFICATION Spec
CONSTANTS
  Ids = {i1, i2, i3}
  Statuses = {1, 2}
  NoRow = NoRow
  Absent = Absent
  Garbage = Garbage
  Requests <- MCRequests
  Backends = {"gorm", "sqlc", "mongo"}
  GrpcMaxLimit = 2
  Half = 4
INVARIANTS
  WalkInv
  PageFitsTotal
  WalkExact
  AddsHideNothing
  RemovalsRepeatNothing
  TiesOnlySwap
SYMMETRY IdSymmetry
