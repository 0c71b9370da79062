SPECIFICATION FairLoopback
CONSTANTS
  Channel = {c1, c2}
  Near = c1
  Far = c2
  a1 = a1
  Address = {a1}
  Nonce = {n1}
  Message <- Outbound
  MAX_PEERS = 2
  OUTBOUND_QUEUE = 2
  Dials <- DialSelf
  Talkers = {c1, c2}
  Stallers = {}
  MaxBroadcasts = 0
  CAPACITY = 2
INVARIANTS
  HonestPeersInTurn
  ReadyMeansHeard
PROPERTIES
  HandshakeCompletes
