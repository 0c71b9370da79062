CONSTANTS
  Channel = {c1, c2, c3}
  Address = {a1, a2}
  Message = {m1, m2}
  MAX_PEERS = 2
  OUTBOUND_QUEUE = 2
SPECIFICATION TableSpec
SYMMETRY Symmetry
INVARIANTS TableInv
PROPERTIES IdsNameOneConnection KeptPeersLoseNothing
