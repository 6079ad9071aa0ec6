CONSTANTS
  m1 = m1
  m2 = m2
  m3 = m3
  Messages = {m1, m2, m3}
  Qos <- QosOfEach
  PacketIds <- TwoIds
  MaxCount = 2
  MaxFaults = 3
SPECIFICATION FairSpec
INVARIANTS QoS2NotTwice RecordsAreInFlight
PROPERTIES DoneIsDeliveredUnlessStrayed DeliversAsPromised ExchangesEnd
CHECK_DEADLOCK FALSE
