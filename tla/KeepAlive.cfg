CONSTANTS
  Modulus = 15
  TxTimeout = 3
  RxTimeout = 4
  PingTimeout = 1
  MaxPause = 2
  MaxAnswer = 1
  MaxPackets = 2
SPECIFICATION Spec
INVARIANTS SilenceIsBounded TxIdleIsBounded LivePeerKept
