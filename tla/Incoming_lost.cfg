CONSTANTS
  m1 = m1
  m2 = m2
  m3 = m3
  Messages = {m1, m2, m3}
  Qos <- QosOfEach
  PacketIds <- TwoIds
  MaxCount = 2
  MaxFaults = 3
SPECIFICATION Spec
INVARIANT DoneIsDelivered
CHECK_DEADLOCK FALSE
