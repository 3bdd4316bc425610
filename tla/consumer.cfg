SPECIFICATION FairSpec
CONSTANTS
  Consumers = {k1, k2}
  NoConsumer = NoConsumer
  Len = 4
  Undecodable = {1}
  Faults = {"handler", "commit", "crash", "rebalance", "reader"}
INVARIANTS
  ConsumerInv
PROPERTIES
  ImplementsLog
  AllHandled
