---------------------------- MODULE MCPeerTable ----------------------------
(* The peer table on its own: three channels, two addresses, room for two  *)
(* entries and one or two buffered messages.                               *)
EXTENDS PeerTable, TLC

Symmetry == Permutations(Channel) \cup Permutations(Address)
=============================================================================
