CONSTANTS
  PacketIds <- FourIds
  MaxCount = 3
SPECIFICATION Spec
INVARIANTS CompactIsTheLoop QosAndStateAgree RoomIsFound
PROPERTY ResendsInOrder
