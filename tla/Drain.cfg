SPECIFICATION Spec
CONSTANTS
  OUTBOUND_QUEUE = 2
  UNITS = 2
  WRITE_TIMEOUT = 3
  PING_INTERVAL = 2
INVARIANTS
  StoppedReaderBound
  DrainBound
