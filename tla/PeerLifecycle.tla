--------------------------- MODULE PeerLifecycle ---------------------------
(***************************************************************************)
(* What the networking half of a node promises the rest of it, with        *)
(* threads, channels, sockets and ids left out: a connection takes a seat  *)
(* among at most MAX_PEERS, greets, becomes a ready peer, and leaves for   *)
(* good; outbound seats are never held twice for one address; and no       *)
(* connection keeps a seat for ever without completing the handshake.      *)
(***************************************************************************)
EXTENDS Naturals, FiniteSets

CONSTANTS Conn, Address, MAX_PEERS

VARIABLES
  standing,    \* how far each connection has come
  dialledTo    \* the address a seated outbound connection was dialled to

vars == <<standing, dialledTo>>

NoAddress == "none"

Seated == {c \in Conn : standing[c] \in {"greeting", "ready"}}

Init ==
  /\ standing = [c \in Conn |-> "out"]
  /\ dialledTo = [c \in Conn |-> NoAddress]

Seat(c, a) ==
  /\ standing[c] = "out"
  /\ Cardinality(Seated) < MAX_PEERS
  /\ a # NoAddress => \A d \in Seated : dialledTo[d] # a
  /\ standing' = [standing EXCEPT ![c] = "greeting"]
  /\ dialledTo' = [dialledTo EXCEPT ![c] = a]

Greet(c) ==
  /\ standing[c] = "greeting"
  /\ standing' = [standing EXCEPT ![c] = "ready"]
  /\ UNCHANGED dialledTo

\* One connection ends, or one broadcast evicts several at once.
Leave(gone) ==
  /\ gone # {}
  /\ standing' = [c \in Conn |-> IF c \in gone THEN "gone" ELSE standing[c]]
  /\ dialledTo' = [c \in Conn |-> IF c \in gone THEN NoAddress ELSE dialledTo[c]]

Next ==
  \/ \E c \in Conn, a \in Address \cup {NoAddress} : Seat(c, a)
  \/ \E c \in Conn : Greet(c)
  \/ \E gone \in SUBSET Seated : Leave(gone)

Spec == Init /\ [][Next]_vars

\* A connection that is greeting becomes ready or leaves.
Settles(c) == standing[c] = "greeting" ~> standing[c] \in {"ready", "gone"}

LiveSpec == Spec /\ \A c \in Conn : Settles(c)
=============================================================================
