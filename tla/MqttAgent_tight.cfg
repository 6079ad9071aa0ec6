CONSTANTS
  Clients = {k1, k2}
  Ops <- MixedOps
  PoolSize = 2
  QueueLength = 1
  MaxAcks = 1
  MaxPacketId = 2
  Subscribed = TRUE
SPECIFICATION Spec
INVARIANTS OwnershipOK ReleaseNeverFails
PROPERTY CommandsLiveOnce
CHECK_DEADLOCK FALSE
