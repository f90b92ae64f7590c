CONSTANTS
  IndexSize = 4
  CbufSize = 2
  MaxPacket = 2
  Byte = {b0, b1}
  NoByte = NoByte
  MaxAccepted = 5
  MaxHeard = 3
SPECIFICATION MCSpec
INVARIANTS TypeOK SentInOrder ReadInOrder DriverHeld DriverReleased
PROPERTY ImplementsLine
CHECK_DEADLOCK FALSE
