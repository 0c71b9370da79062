CONSTANTS
  Channel = {c1, c2}
  a1 = a1
  Address = {a1}
  Nonce = {n1}
  Message <- Outbound
  MAX_PEERS = 2
  OUTBOUND_QUEUE = 1
  Dials <- DialTwice
  Talkers = {}
  Stallers = {}
  MaxBroadcasts = 2
SPECIFICATION Spec
INVARIANTS NoOrphanEntry
PROPERTIES LifecycleSafety OnlyOwnTeardown
SYMMETRY Symmetry
