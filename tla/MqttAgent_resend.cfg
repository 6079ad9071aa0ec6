CONSTANTS
  Clients = {k1}
  Ops <- QosOps
  PoolSize = 2
  QueueLength = 1
  MaxAcks = 3
  MaxPacketId = 3
  Subscribed = FALSE
SPECIFICATION Spec
INVARIANT AwaitedPublishIsResent
CHECK_DEADLOCK FALSE
