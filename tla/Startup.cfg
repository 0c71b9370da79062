SPECIFICATION FairSpec
CONSTANTS
  Address = {"any", "p1", "p2", "home"}
  Malformed = "junk"
  None = None
  Absent = Absent
  Broken = Broken
  DEFAULT_HOST_ADDRESS = "home"
  Bindings <- SmallBindings
  PeerLists <- SmallPeerLists
  MaxAccepts = 2
INVARIANTS
  AdvertisedIsBound
  EveryPeerIsTried
  StartsAsConfigured
PROPERTIES
  NoDeafNode
