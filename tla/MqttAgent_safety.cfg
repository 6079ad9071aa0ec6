CONSTANTS
  Clients = {k1}
  Ops <- AckOps
  PoolSize = 2
  QueueLength = 2
  MaxAcks = 3
  MaxPacketId = 3
  Subscribed = TRUE
SPECIFICATION Spec
INVARIANTS TypeOK AckSlotAvailable AwaitedIsOutstanding AnswersMatch
PROPERTIES RenewalRefusedByBacklog
CHECK_DEADLOCK FALSE
