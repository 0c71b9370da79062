CONSTANTS
  Channel = {c1}
  a1 = a1
  Address = {a1}
  Nonce = {n1}
  Message <- Outbound
  MAX_PEERS = 1
  OUTBOUND_QUEUE = 2
  Dials <- DialOnce
  Talkers = {c1}
  Stallers = {c1}
  MaxBroadcasts = 1
SPECIFICATION FairSpec
INVARIANTS TypeOK OpeningFirst RepliesInOrder HandshakeIsEarned ReadersAreRegistered
PROPERTIES DeadlineSparesReadyPeers EvictedPeerIsDone BothHalvesEnd StalledPeerDropped ImplementsLifecycle
