CONSTANTS
  Clients = {k1}
  Ops <- QosOps
  PoolSize = 1
  QueueLength = 1
  MaxAcks = 2
  MaxPacketId = 2
  Subscribed = FALSE
SPECIFICATION Spec
INVARIANT ArgsInScope
CHECK_DEADLOCK FALSE
