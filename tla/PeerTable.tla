----------------------------- MODULE PeerTable -----------------------------
(***************************************************************************)
(* The peer table of a node (src/node.rs) together with the bounded        *)
(* channels whose sending halves it holds.                                 *)
(*                                                                         *)
(* Every method of PeerTable runs under the node's mutex and none of them  *)
(* blocks (the sends are try_send), so one method call is one step.  The   *)
(* value a method returns is a state predicate that callers branch on:     *)
(* Admits for register, Reaches for send_to, advance # Err for             *)
(* advance_handshake.                                                      *)
(*                                                                         *)
(* A channel is named by the connection it was made for.  Its sending half *)
(* lives in the one table entry it was registered with, its receiving half *)
(* with the writer thread; receiver says what became of the latter.        *)
(*                                                                         *)
(* A definition named after another with a suffix, as Admits_OffByOne is   *)
(* after Admits, is a faulty variant of it that the properties must catch; *)
(* no specification uses it.                                               *)
(***************************************************************************)
EXTENDS Integers, Sequences, FiniteSets, Functions

CONSTANTS
  Channel,          \* the mpsc channels, one per connection
  Address,          \* socket addresses
  Message,          \* encoded outbound messages
  MAX_PEERS,        \* how many entries the table may hold
  OUTBOUND_QUEUE    \* how many messages a channel buffers

ASSUME BoundsAssumption ==
  /\ MAX_PEERS \in Nat
  /\ OUTBOUND_QUEUE \in Nat \ {0}

VARIABLES
  peers,      \* peers: HashMap<PeerId, PeerHandle>, a function on the ids in use
  next_id,    \* next_id: PeerId
  queue,      \* what each channel buffers, oldest first
  receiver    \* what became of each channel's receiving half

tableVars == <<peers, next_id, queue, receiver>>

Origin == {"Dialled", "Accepted"}

Handshake == {"AwaitingVersion", "AwaitingVerack", "Ready"}

HandshakeEvent == {"Version", "Verack"}

PeerHandle == [address : Address, origin : Origin,
               handshake : Handshake, outbound : Channel]

-----------------------------------------------------------------------------
(* What the methods return.                                                *)

\* Handshake::advance; Err stands for its three errors.
Err == "Err"

advance_AnyOrder(handshake, event) == IF event = "Version" THEN "AwaitingVerack" ELSE "Ready"

advance(handshake, event) ==
  CASE handshake = "AwaitingVersion" /\ event = "Version" -> "AwaitingVerack"
    [] handshake = "AwaitingVerack"  /\ event = "Verack"  -> "Ready"
    [] OTHER                                              -> Err

dialled_OnlyReady(address) ==
  \E id \in DOMAIN peers :
    /\ peers[id].origin = "Dialled" /\ peers[id].address = address
    /\ peers[id].handshake = "Ready"

dialled(address) ==
  \E id \in DOMAIN peers :
    peers[id].origin = "Dialled" /\ peers[id].address = address

Admits_OffByOne(address, origin) ==
  /\ ~ (origin = "Dialled" /\ dialled(address))
  /\ Cardinality(DOMAIN peers) <= MAX_PEERS

\* register returns Ok: neither AlreadyDialled nor AtCapacity.
Admits(address, origin) ==
  /\ ~ (origin = "Dialled" /\ dialled(address))
  /\ Cardinality(DOMAIN peers) < MAX_PEERS

handshake_of(id) == IF id \in DOMAIN peers THEN peers[id].handshake ELSE "None"

\* try_send succeeds: the receiver is still there and the buffer has room.
Accepts(c) == receiver[c] = "live" /\ Len(queue[c]) < OUTBOUND_QUEUE

\* send_to returns true.
Reaches(id) == id \in DOMAIN peers /\ Accepts(peers[id].outbound)

Advances_UnknownToo(id, event) ==
  id \in DOMAIN peers => advance(peers[id].handshake, event) # Err

\* advance_handshake returns Ok.
Advances(id, event) ==
  id \in DOMAIN peers /\ advance(peers[id].handshake, event) # Err

\* The table still holds a sender of c; without one the receiver sees
\* Disconnected once the buffer is drained.
HasSender(c) == \E id \in DOMAIN peers : peers[id].outbound = c

-----------------------------------------------------------------------------
(* The methods.                                                            *)

Without(ids) == Restrict(peers, DOMAIN peers \ ids)

register_KeepsNextId(c, address, origin) ==
  /\ receiver[c] = "unopened"
  /\ IF Admits(address, origin)
       THEN /\ peers' = [id \in DOMAIN peers \cup {next_id} |->
                           IF id = next_id
                             THEN [address |-> address, origin |-> origin,
                                   handshake |-> "AwaitingVersion", outbound |-> c]
                             ELSE peers[id]]
            /\ receiver' = [receiver EXCEPT ![c] = "live"]
       ELSE /\ receiver' = [receiver EXCEPT ![c] = "dropped"]
            /\ UNCHANGED peers
  /\ UNCHANGED <<next_id, queue>>

\* The channel c is created just before the call: a registered connection
\* keeps its receiver, a refused one drops both halves.
register(c, address, origin) ==
  /\ receiver[c] = "unopened"
  /\ IF Admits(address, origin)
       THEN /\ peers' = [id \in DOMAIN peers \cup {next_id} |->
                           IF id = next_id
                             THEN [address |-> address, origin |-> origin,
                                   handshake |-> "AwaitingVersion", outbound |-> c]
                             ELSE peers[id]]
            /\ next_id' = next_id + 1
            /\ receiver' = [receiver EXCEPT ![c] = "live"]
       ELSE /\ receiver' = [receiver EXCEPT ![c] = "dropped"]
            /\ UNCHANGED <<peers, next_id>>
  /\ UNCHANGED queue

remove_RewindsIds(id) ==
  /\ peers' = Without({id})
  /\ next_id' = id
  /\ UNCHANGED <<queue, receiver>>

remove(id) ==
  /\ peers' = Without({id})
  /\ UNCHANGED <<next_id, queue, receiver>>

advance_handshake(id, event) ==
  /\ IF Advances(id, event)
       THEN peers' = [peers EXCEPT ![id].handshake = advance(@, event)]
       ELSE UNCHANGED peers
  /\ UNCHANGED <<next_id, queue, receiver>>

send_to_DropsOldest(id, message) ==
  /\ id \in DOMAIN peers
  /\ queue' = [queue EXCEPT ![peers[id].outbound] =
                 IF Len(@) = OUTBOUND_QUEUE THEN Append(Tail(@), message) ELSE Append(@, message)]
  /\ UNCHANGED <<peers, next_id, receiver>>

\* A refused message costs the peer its entry; an unknown id costs nothing.
send_to(id, message) ==
  /\ IF Reaches(id)
       THEN /\ queue' = [queue EXCEPT ![peers[id].outbound] = Append(@, message)]
            /\ UNCHANGED peers
       ELSE /\ peers' = Without({id})
            /\ UNCHANGED queue
  /\ UNCHANGED <<next_id, receiver>>

broadcast(message) ==
  /\ queue' = [c \in Channel |->
                 IF Accepts(c) /\ HasSender(c) THEN Append(queue[c], message)
                                               ELSE queue[c]]
  /\ peers' = Without({id \in DOMAIN peers : ~ Accepts(peers[id].outbound)})
  /\ UNCHANGED <<next_id, receiver>>

-----------------------------------------------------------------------------
(* The receiving half, used by the writer thread.                          *)

recv(c) ==
  /\ receiver[c] = "live"
  /\ queue[c] # <<>>
  /\ queue' = [queue EXCEPT ![c] = Tail(@)]
  /\ UNCHANGED <<peers, next_id, receiver>>

\* Dropping the receiver discards what it still buffers.
drop_receiver(c) ==
  /\ receiver[c] = "live"
  /\ receiver' = [receiver EXCEPT ![c] = "dropped"]
  /\ queue' = [queue EXCEPT ![c] = <<>>]
  /\ UNCHANGED <<peers, next_id>>

-----------------------------------------------------------------------------
(* The table used by callers in any order.  The ids callers hold are ones  *)
(* register returned, in use or not.                                       *)

TableInit ==
  /\ peers = [id \in {} |-> {}]
  /\ next_id = 0
  /\ queue = [c \in Channel |-> <<>>]
  /\ receiver = [c \in Channel |-> "unopened"]

IdStep(id) ==
  \/ remove(id)
  \/ \E e \in HandshakeEvent : advance_handshake(id, e)
  \/ \E m \in Message : send_to(id, m)

TableNext ==
  \/ \E c \in Channel, a \in Address, o \in Origin : register(c, a, o)
  \/ \E id \in 0 .. next_id - 1 : IdStep(id)
  \/ \E m \in Message : broadcast(m)
  \/ \E c \in Channel : recv(c) \/ drop_receiver(c)

TableSpec == TableInit /\ [][TableNext]_tableVars

-----------------------------------------------------------------------------
(* Properties.                                                             *)

\* The shape of the table and of the channels; ids in use were handed out.
TableTypeOK ==
  /\ next_id \in Nat
  /\ DOMAIN peers \subseteq 0 .. next_id - 1
  /\ peers \in [DOMAIN peers -> PeerHandle]
  /\ queue \in [Channel -> Seq(Message)]
  /\ receiver \in [Channel -> {"unopened", "live", "dropped"}]

\* The node never holds more than MAX_PEERS entries: the limit is read and
\* the entry inserted under one lock, and nothing else inserts.
Capacity == Cardinality(DOMAIN peers) <= MAX_PEERS

\* No channel ever buffers more than OUTBOUND_QUEUE messages, whichever of
\* send_to and broadcast filled it.
QueueBound == \A c \in Channel : Len(queue[c]) <= OUTBOUND_QUEUE

\* At most one outbound connection per address, although the check only
\* looks at entries that are still registered.
OneDialPerAddress ==
  \A i, j \in DOMAIN peers :
    /\ peers[i].origin = "Dialled"
    /\ peers[j].origin = "Dialled"
    /\ peers[i].address = peers[j].address
    => i = j

\* The table holds the only sender of a channel, as handle_connection's
\* "the table holds this peer's only sender" relies on: two entries never
\* share a channel, and an entry's channel has been opened.
OnlySender ==
  \A i \in DOMAIN peers :
    /\ receiver[peers[i].outbound] # "unopened"
    /\ \A j \in DOMAIN peers : peers[i].outbound = peers[j].outbound => i = j

\* What callers of the table rely on, whatever order they call it in: its
\* shape, its two limits, one dial per address, and the one sender whose end
\* is the end of a writer.
TableInv == TableTypeOK /\ Capacity /\ QueueBound /\ OneDialPerAddress /\ OnlySender

\* An id names one connection for the whole run: an entry never changes
\* whose it is, and an id that left the table never comes back.  A guard
\* that removes its id late can therefore only remove its own entry.
IdsNameOneConnection ==
  [][/\ next_id' >= next_id
     /\ \A id \in DOMAIN peers' :
          IF id \in DOMAIN peers
            THEN /\ peers'[id].outbound = peers[id].outbound
                 /\ peers'[id].address = peers[id].address
                 /\ peers'[id].origin = peers[id].origin
            ELSE id >= next_id]_tableVars

\* What a channel holds while its entry stays is only consumed at the front
\* and extended at the back: no table operation loses or reorders a message
\* of a peer it keeps.
KeptPeersLoseNothing ==
  [][\A c \in Channel :
        receiver'[c] = "live" =>
          \E k, n \in 0 .. 1 :
            /\ Len(queue'[c]) = Len(queue[c]) - k + n
            /\ k + n <= 1
            /\ \A i \in 1 .. Len(queue[c]) - k : queue'[c][i] = queue[c][i + k]]_tableVars
=============================================================================
