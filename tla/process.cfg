SPECIFICATION FairSpec
CONSTANTS
  Calls = {x1, x2}
  Faults = {"bind", "tracing", "panic"}
  BootFaults = {"config", "database", "statement", "version", "kill"}
CHECK_DEADLOCK FALSE
INVARIANTS
  LifecycleInv
  BootInv
  RedisOutlivesCalls
  CleanExit
  ServesMigrated
  FailureTold
  TransportsAgree
PROPERTIES
  StopEnds
  MarkStays
  BootEnds
