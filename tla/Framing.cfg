SPECIFICATION Spec
CONSTANTS
  MaxUnit = 4
  MAX_PAYLOAD_SIZE = 2
  READ_SIZE = 7
  Checksum <- SmallChecksum
  MaxSent = 8
  MaxOwn = 12
  MaxBabble = 8
  MaxWire = 1
INVARIANTS
  StreamIsCovered
  NoFrameLeft
  BufferBound
  OwnEncodingUnderstood
