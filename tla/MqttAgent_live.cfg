CONSTANTS
  Clients = {k1}
  Ops <- QosOps
  PoolSize = 2
  QueueLength = 2
  MaxAcks = 3
  MaxPacketId = 2
  Subscribed = FALSE
SPECIFICATION FairSpec
INVARIANT AwaitedPublishIsRecorded
PROPERTIES PostedIsTaken AwaitedIsConcluded
CHECK_DEADLOCK FALSE
