SPECIFICATION Spec
CONSTANTS
  Consumers = {k1}
  NoConsumer = NoConsumer
  Len = 2
  Undecodable = {}
  Faults = {"handler", "crash"}
INVARIANTS
  CommittedHandled
