CONSTANTS
  Size = 5
  Ends <- SevenPackets
  Header <- TheirHeaders
  Lengths <- SomeLengths
  Codings <- SomeCodings
  TopicLengths = {1, 65535}
  PayloadLengths <- SomePayloads
SPECIFICATION FairSpec
INVARIANTS TypeOK FramingOK DoneInTurn RoomToReceive LengthsReadAsWritten
PROPERTY EveryPacketIsDone
