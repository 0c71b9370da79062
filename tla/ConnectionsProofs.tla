------------------------- MODULE ConnectionsProofs -------------------------
(***************************************************************************)
(* What the peer table and the connection threads keep true for any number *)
(* of connections, for every configuration and all traffic.                *)
(*                                                                         *)
(* The table: a call inserts one entry at the next id or only takes some   *)
(* away (StepShape), and a queue grows at its back, loses its head or goes *)
(* with its receiver (QueueShape).                                         *)
(*                                                                         *)
(* The threads: an id in a guard is one that the table handed out          *)
(* (GuardInv) and names the guard's own entry (OwnEntry), so every step is *)
(* a step of the table, and takes entries only from connections that give  *)
(* a reason for it.                                                        *)
(***************************************************************************)
EXTENDS Connections, FiniteSetTheorems, TLAPS

-----------------------------------------------------------------------------
(* The table.                                                              *)

\* Entries leave or advance their handshake; nothing else about them changes.
Keeps ==
  /\ next_id' = next_id
  /\ DOMAIN peers' \subseteq DOMAIN peers
  /\ \A id \in DOMAIN peers' : /\ peers'[id].address = peers[id].address
                               /\ peers'[id].origin = peers[id].origin
                               /\ peers'[id].outbound = peers[id].outbound

\* register admits a connection: one new entry, every other untouched.
Inserts(c, a, o) ==
  /\ receiver[c] = "unopened"
  /\ Admits(a, o)
  /\ DOMAIN peers' = DOMAIN peers \cup {next_id}
  /\ \A id \in DOMAIN peers : peers'[id] = peers[id]
  /\ peers'[next_id] = [address |-> a, origin |-> o,
                        handshake |-> "AwaitingVersion", outbound |-> c]
  /\ receiver' = [receiver EXCEPT ![c] = "live"]
  /\ next_id' = next_id + 1

\* The receiving half of a channel is opened once and never again.
ReceiversAge ==
  \A c \in Channel : receiver[c] # "unopened" => receiver'[c] # "unopened"

\* Handshake::advance stays within the three states unless it fails.
LEMMA AdvanceType ==
  ASSUME NEW h \in Handshake, NEW e \in HandshakeEvent, advance(h, e) # Err
  PROVE  advance(h, e) \in Handshake
BY DEF advance, Handshake, HandshakeEvent, Err

\* A step of the table keeps its shape, so Spec => []TableTypeOK needs no
\* further strengthening.
LEMMA TableTypeStep ==
  ASSUME TableTypeOK, [TableNext]_tableVars
  PROVE  TableTypeOK'
<1> USE DEF TableTypeOK
<1>1. ASSUME NEW c \in Channel, NEW a \in Address, NEW o \in Origin, register(c, a, o)
      PROVE  TableTypeOK'
  <2>1. CASE Admits(a, o)
    <3>1. [address |-> a, origin |-> o, handshake |-> "AwaitingVersion", outbound |-> c]
            \in PeerHandle
      BY DEF PeerHandle, Handshake
    <3>2. next_id' \in Nat /\ DOMAIN peers' \subseteq 0 .. next_id' - 1
      BY <1>1, <2>1 DEF register
    <3>3. peers' \in [DOMAIN peers' -> PeerHandle]
      BY <1>1, <2>1, <3>1 DEF register
    <3> QED BY <1>1, <2>1, <3>2, <3>3 DEF register
  <2>2. CASE ~ Admits(a, o)
    BY <1>1, <2>2 DEF register
  <2> QED BY <2>1, <2>2
<1>2. ASSUME NEW id \in 0 .. next_id - 1, remove(id)
      PROVE  TableTypeOK'
  BY <1>2 DEF remove, Without, Restrict
<1>3. ASSUME NEW id \in 0 .. next_id - 1, NEW e \in HandshakeEvent, advance_handshake(id, e)
      PROVE  TableTypeOK'
  <2>1. CASE Advances(id, e)
    <3>1. peers[id] \in PeerHandle
      BY <2>1 DEF Advances
    <3>2. PICK h \in Handshake : h = advance(peers[id].handshake, e)
      BY <2>1, <3>1, AdvanceType DEF Advances, PeerHandle
    <3>3. peers' = [peers EXCEPT ![id].handshake = h]
      BY <1>3, <2>1, <3>2, Zenon DEF advance_handshake
    <3>4. UNCHANGED <<next_id, queue, receiver>>
      BY <1>3 DEF advance_handshake
    <3> QED BY <2>1, <3>1, <3>3, <3>4 DEF Advances, PeerHandle
  <2>2. CASE ~ Advances(id, e)
    BY <1>3, <2>2 DEF advance_handshake
  <2> QED BY <2>1, <2>2
<1>4. ASSUME NEW id \in 0 .. next_id - 1, NEW m \in Message, send_to(id, m)
      PROVE  TableTypeOK'
  <2>1. CASE Reaches(id)
    <3>1. PICK c \in Channel : c = peers[id].outbound
      BY <2>1 DEF Reaches, PeerHandle
    <3>2. queue' = [queue EXCEPT ![c] = Append(queue[c], m)]
      BY <1>4, <2>1, <3>1 DEF send_to
    <3> QED BY <1>4, <2>1, <3>2 DEF send_to
  <2>2. CASE ~ Reaches(id)
    BY <1>4, <2>2 DEF send_to, Without, Restrict
  <2> QED BY <2>1, <2>2
<1>5. ASSUME NEW m \in Message, broadcast(m)
      PROVE  TableTypeOK'
  BY <1>5 DEF broadcast, Without, Restrict
<1>6. ASSUME NEW c \in Channel, recv(c)
      PROVE  TableTypeOK'
  BY <1>6 DEF recv
<1>7. ASSUME NEW c \in Channel, drop_receiver(c)
      PROVE  TableTypeOK'
  BY <1>7 DEF drop_receiver
<1>8. CASE UNCHANGED tableVars
  BY <1>8 DEF tableVars
<1> QED BY <1>1, <1>2, <1>3, <1>4, <1>5, <1>6, <1>7, <1>8 DEF TableNext, IdStep

\* The table and the channels always have their declared shape, and every id
\* in use was handed out by register.
THEOREM TableTypeCorrect == TableSpec => []TableTypeOK
<1>1. TableInit => TableTypeOK
  BY DEF TableInit, TableTypeOK
<1>2. TableTypeOK /\ [TableNext]_tableVars => TableTypeOK'
  BY TableTypeStep
<1> QED BY <1>1, <1>2, PTL DEF TableSpec

\* Every step of the table has one of the two shapes.
LEMMA StepShape ==
  ASSUME TableTypeOK, [TableNext]_tableVars
  PROVE  /\ ReceiversAge
         /\ \/ Keeps
            \/ \E c \in Channel, a \in Address, o \in Origin : Inserts(c, a, o)
<1> USE DEF TableTypeOK
<1>1. ASSUME NEW c \in Channel, NEW a \in Address, NEW o \in Origin, register(c, a, o)
      PROVE  ReceiversAge /\ (Keeps \/ Inserts(c, a, o))
  <2>1. CASE Admits(a, o)
    <3>1. next_id \notin DOMAIN peers
      OBVIOUS
    <3>2. Inserts(c, a, o)
      BY <1>1, <2>1, <3>1 DEF register, Inserts
    <3>3. ReceiversAge
      BY <1>1, <2>1 DEF register, ReceiversAge
    <3> QED BY <3>2, <3>3
  <2>2. CASE ~ Admits(a, o)
    BY <1>1, <2>2 DEF register, Keeps, ReceiversAge
  <2> QED BY <2>1, <2>2
<1>2. ASSUME NEW id \in 0 .. next_id - 1, remove(id)
      PROVE  ReceiversAge /\ Keeps
  BY <1>2 DEF remove, Without, Restrict, Keeps, ReceiversAge
<1>3. ASSUME NEW id \in 0 .. next_id - 1, NEW e \in HandshakeEvent, advance_handshake(id, e)
      PROVE  ReceiversAge /\ Keeps
  <2>1. CASE Advances(id, e)
    <3>1. peers[id] \in PeerHandle
      BY <2>1 DEF Advances
    <3>2. PICK h \in Handshake : h = advance(peers[id].handshake, e)
      BY <2>1, <3>1, AdvanceType DEF Advances, PeerHandle
    <3>3. peers' = [peers EXCEPT ![id].handshake = h]
      BY <1>3, <2>1, <3>2, Zenon DEF advance_handshake
    <3>4. UNCHANGED <<next_id, queue, receiver>>
      BY <1>3 DEF advance_handshake
    <3> QED BY <2>1, <3>1, <3>3, <3>4 DEF Advances, Keeps, ReceiversAge, PeerHandle
  <2>2. CASE ~ Advances(id, e)
    BY <1>3, <2>2 DEF advance_handshake, Keeps, ReceiversAge
  <2> QED BY <2>1, <2>2
<1>4. ASSUME NEW id \in 0 .. next_id - 1, NEW m \in Message, send_to(id, m)
      PROVE  ReceiversAge /\ Keeps
  BY <1>4 DEF send_to, Without, Restrict, Keeps, ReceiversAge
<1>5. ASSUME NEW m \in Message, broadcast(m)
      PROVE  ReceiversAge /\ Keeps
  BY <1>5 DEF broadcast, Without, Restrict, Keeps, ReceiversAge
<1>6. ASSUME NEW c \in Channel, recv(c)
      PROVE  ReceiversAge /\ Keeps
  BY <1>6 DEF recv, Keeps, ReceiversAge
<1>7. ASSUME NEW c \in Channel, drop_receiver(c)
      PROVE  ReceiversAge /\ Keeps
  BY <1>7 DEF drop_receiver, Keeps, ReceiversAge
<1>8. CASE UNCHANGED tableVars
  BY <1>8 DEF tableVars, Keeps, ReceiversAge
<1> QED BY <1>1, <1>2, <1>3, <1>4, <1>5, <1>6, <1>7, <1>8 DEF TableNext, IdStep

\* The ids in use are finitely many, so the table can be counted.
LEMMA FinitelyManyPeers == TableTypeOK => IsFiniteSet(DOMAIN peers)
<1> SUFFICES ASSUME TableTypeOK PROVE IsFiniteSet(DOMAIN peers)
  OBVIOUS
<1>1. IsFiniteSet(0 .. next_id - 1)
  <2>1. 0 \in Int /\ next_id - 1 \in Int
    BY DEF TableTypeOK
  <2> QED BY <2>1, FS_Interval
<1> QED BY <1>1, FS_Subset DEF TableTypeOK

\* A step keeps the table within MAX_PEERS: register counts in the step that
\* inserts.
LEMMA CapacityStep ==
  ASSUME TableTypeOK, Capacity, [TableNext]_tableVars
  PROVE  Capacity'
<1>1. IsFiniteSet(DOMAIN peers) /\ Cardinality(DOMAIN peers) \in Nat
  BY FinitelyManyPeers, FS_CardinalityType
<1>2. CASE Keeps
  <2>1. Cardinality(DOMAIN peers') <= Cardinality(DOMAIN peers)
    BY <1>1, <1>2, FS_Subset DEF Keeps
  <2>2. IsFiniteSet(DOMAIN peers') /\ Cardinality(DOMAIN peers') \in Nat
    BY <1>1, <1>2, FS_Subset, FS_CardinalityType DEF Keeps
  <2> QED BY <1>1, <2>1, <2>2, BoundsAssumption DEF Capacity
<1>3. ASSUME NEW c \in Channel, NEW a \in Address, NEW o \in Origin, Inserts(c, a, o)
      PROVE  Capacity'
  <2>1. Cardinality(DOMAIN peers) < MAX_PEERS /\ DOMAIN peers' = DOMAIN peers \cup {next_id}
    BY <1>3 DEF Inserts, Admits
  <2>2. next_id \notin DOMAIN peers
    BY DEF TableTypeOK
  <2>3. Cardinality(DOMAIN peers \cup {next_id}) = Cardinality(DOMAIN peers) + 1
    BY <1>1, <2>2, FS_AddElement
  <2> QED BY <1>1, <2>1, <2>3, BoundsAssumption DEF Capacity
<1> QED BY <1>2, <1>3, StepShape

\* However registrations, removals, evictions and broadcasts interleave, the
\* table never holds more than MAX_PEERS entries.
THEOREM CapacityHolds == TableSpec => []Capacity
<1>1. TableInit => Capacity
  BY FS_EmptySet, BoundsAssumption DEF TableInit, Capacity
<1>2. TableTypeOK /\ Capacity /\ [TableNext]_tableVars => Capacity'
  BY CapacityStep
<1> QED BY <1>1, <1>2, TableTypeCorrect, PTL DEF TableSpec

\* A step keeps dialled addresses unique: register looks for an outbound entry
\* in the step that inserts one.
LEMMA OneDialStep ==
  ASSUME TableTypeOK, OneDialPerAddress, [TableNext]_tableVars
  PROVE  OneDialPerAddress'
<1>1. CASE Keeps
  BY <1>1 DEF Keeps, OneDialPerAddress
<1>2. ASSUME NEW c \in Channel, NEW a \in Address, NEW o \in Origin, Inserts(c, a, o)
      PROVE  OneDialPerAddress'
  <2>1. o = "Dialled" =>
          \A id \in DOMAIN peers : ~ (peers[id].origin = "Dialled" /\ peers[id].address = a)
    BY <1>2 DEF Inserts, Admits, dialled
  <2> QED BY <1>2, <2>1 DEF Inserts, OneDialPerAddress
<1> QED BY <1>1, <1>2, StepShape

\* The table never holds two outbound connections to one address.
THEOREM OneDialHolds == TableSpec => []OneDialPerAddress
<1>1. TableInit => OneDialPerAddress
  BY DEF TableInit, OneDialPerAddress
<1>2. TableTypeOK /\ OneDialPerAddress /\ [TableNext]_tableVars => OneDialPerAddress'
  BY OneDialStep
<1> QED BY <1>1, <1>2, TableTypeCorrect, PTL DEF TableSpec

\* A step keeps the senders unique: the one entry that is inserted has the
\* sender of a new channel.
LEMMA OnlySenderStep ==
  ASSUME TableTypeOK, OnlySender, [TableNext]_tableVars
  PROVE  OnlySender'
<1>1. \A id \in DOMAIN peers : peers[id].outbound \in Channel
  BY DEF TableTypeOK, PeerHandle
<1>2. ReceiversAge
  BY StepShape
<1>3. CASE Keeps
  BY <1>1, <1>2, <1>3 DEF Keeps, OnlySender, ReceiversAge
<1>4. ASSUME NEW c \in Channel, NEW a \in Address, NEW o \in Origin, Inserts(c, a, o)
      PROVE  OnlySender'
  <2>1. \A id \in DOMAIN peers : peers[id].outbound # c
    BY <1>4 DEF Inserts, OnlySender
  <2>2. receiver'[c] # "unopened"
    BY <1>4 DEF Inserts, TableTypeOK
  <2> QED BY <1>1, <1>2, <1>4, <2>1, <2>2 DEF Inserts, OnlySender, ReceiversAge
<1> QED BY <1>3, <1>4, StepShape

\* The table holds the only sender of each channel: removing an entry is
\* therefore what disconnects its writer.
THEOREM OnlySenderHolds == TableSpec => []OnlySender
<1>1. TableInit => OnlySender
  BY DEF TableInit, OnlySender
<1>2. TableTypeOK /\ OnlySender /\ [TableNext]_tableVars => OnlySender'
  BY OnlySenderStep
<1> QED BY <1>1, <1>2, TableTypeCorrect, PTL DEF TableSpec

\* A step keeps every queue within its bound: only try_send adds to one.
LEMMA QueueBoundStep ==
  ASSUME TableTypeOK, QueueBound, [TableNext]_tableVars
  PROVE  QueueBound'
<1>0. \A c \in Channel : queue[c] \in Seq(Message) /\ Len(queue[c]) \in Nat
  BY DEF TableTypeOK
<1>1. CASE UNCHANGED queue
  BY <1>1 DEF QueueBound
<1>2. ASSUME NEW id \in 0 .. next_id - 1, NEW m \in Message, send_to(id, m), Reaches(id)
      PROVE  QueueBound'
  <2>1. PICK c \in Channel : c = peers[id].outbound
    BY <1>2 DEF Reaches, TableTypeOK, PeerHandle
  <2>2. queue' = [queue EXCEPT ![c] = Append(queue[c], m)]
    BY <1>2, <2>1 DEF send_to
  <2>3. Len(queue[c]) < OUTBOUND_QUEUE
    BY <1>2, <2>1 DEF Reaches, Accepts
  <2>4. Len(queue'[c]) <= OUTBOUND_QUEUE
    BY <1>0, <2>2, <2>3, BoundsAssumption DEF TableTypeOK
  <2> QED BY <2>2, <2>4 DEF QueueBound, TableTypeOK
<1>3. ASSUME NEW m \in Message, broadcast(m)
      PROVE  QueueBound'
  <2> SUFFICES ASSUME NEW c \in Channel PROVE Len(queue'[c]) <= OUTBOUND_QUEUE
    BY DEF QueueBound
  <2>1. CASE Accepts(c) /\ HasSender(c)
    <3>1. queue'[c] = Append(queue[c], m)
      BY <1>3, <2>1 DEF broadcast
    <3> QED BY <1>0, <2>1, <3>1, BoundsAssumption DEF Accepts
  <2>2. CASE ~ (Accepts(c) /\ HasSender(c))
    BY <1>3, <2>2 DEF broadcast, QueueBound
  <2> QED BY <2>1, <2>2
<1>4. ASSUME NEW c \in Channel, recv(c)
      PROVE  QueueBound'
  <2>1. Len(Tail(queue[c])) <= Len(queue[c])
    BY <1>0, <1>4 DEF recv
  <2>2. Len(Tail(queue[c])) \in Nat
    BY <1>0, <1>4 DEF recv
  <2> QED BY <1>0, <1>4, <2>1, <2>2, BoundsAssumption DEF recv, QueueBound, TableTypeOK
<1>5. ASSUME NEW c \in Channel, drop_receiver(c)
      PROVE  QueueBound'
  BY <1>5, BoundsAssumption DEF drop_receiver, QueueBound, TableTypeOK
<1> QED
  BY <1>1, <1>2, <1>3, <1>4, <1>5
  DEF TableNext, IdStep, tableVars, register, remove, advance_handshake, send_to

\* No queue outgrows OUTBOUND_QUEUE, although broadcasts and replies fill it
\* from different threads: the room is checked by the step that uses it.
THEOREM QueueBoundHolds == TableSpec => []QueueBound
<1>1. TableInit => QueueBound
  BY BoundsAssumption DEF TableInit, QueueBound
<1>2. TableTypeOK /\ QueueBound /\ [TableNext]_tableVars => QueueBound'
  BY QueueBoundStep
<1> QED BY <1>1, <1>2, TableTypeCorrect, PTL DEF TableSpec

\* The five together, for every set of channels and every limit.
THEOREM TableInvHolds == TableSpec => []TableInv
BY TableTypeCorrect, CapacityHolds, QueueBoundHolds, OneDialHolds, OnlySenderHolds, PTL
   DEF TableInv

\* No id is ever reused or handed to another connection.
THEOREM IdsHold == TableSpec => IdsNameOneConnection
<1>1. ASSUME TableTypeOK, [TableNext]_tableVars
      PROVE  /\ next_id' >= next_id
             /\ \A id \in DOMAIN peers' :
                  IF id \in DOMAIN peers
                    THEN /\ peers'[id].outbound = peers[id].outbound
                         /\ peers'[id].address = peers[id].address
                         /\ peers'[id].origin = peers[id].origin
                    ELSE id >= next_id
  <2>1. CASE Keeps
    BY <1>1, <2>1 DEF Keeps, TableTypeOK
  <2>2. ASSUME NEW c \in Channel, NEW a \in Address, NEW o \in Origin, Inserts(c, a, o)
        PROVE  /\ next_id' >= next_id
               /\ \A id \in DOMAIN peers' :
                    IF id \in DOMAIN peers THEN peers'[id] = peers[id] ELSE id >= next_id
    BY <1>1, <2>2 DEF Inserts, TableTypeOK
  <2> QED BY <1>1, <2>1, <2>2, StepShape
<1> QED BY <1>1, TableTypeCorrect, PTL DEF TableSpec, IdsNameOneConnection

\* What one step does to one channel whose receiver lives on: nothing, or a
\* message at the back, or one off the front.
LEMMA QueueShape ==
  ASSUME TableTypeOK, [TableNext]_tableVars, NEW c \in Channel, receiver'[c] = "live"
  PROVE  \/ queue'[c] = queue[c]
         \/ \E m \in Message : queue'[c] = Append(queue[c], m)
         \/ queue[c] # <<>> /\ queue'[c] = Tail(queue[c])
<1> USE DEF TableTypeOK
<1>1. CASE UNCHANGED queue
  BY <1>1
<1>2. ASSUME NEW id \in 0 .. next_id - 1, NEW m \in Message, send_to(id, m), Reaches(id)
      PROVE  queue'[c] = queue[c] \/ queue'[c] = Append(queue[c], m)
  <2>1. PICK d \in Channel : d = peers[id].outbound
    BY <1>2 DEF Reaches, PeerHandle
  <2>2. queue' = [queue EXCEPT ![d] = Append(queue[d], m)]
    BY <1>2, <2>1 DEF send_to
  <2> QED BY <2>2
<1>3. ASSUME NEW m \in Message, broadcast(m)
      PROVE  queue'[c] = queue[c] \/ queue'[c] = Append(queue[c], m)
  BY <1>3 DEF broadcast
<1>4. ASSUME NEW d \in Channel, recv(d)
      PROVE  queue'[c] = queue[c] \/ (queue[c] # <<>> /\ queue'[c] = Tail(queue[c]))
  <2>1. queue[d] # <<>> /\ queue' = [queue EXCEPT ![d] = Tail(queue[d])]
    BY <1>4 DEF recv
  <2> QED BY <2>1
<1>5. ASSUME NEW d \in Channel, drop_receiver(d)
      PROVE  queue'[c] = queue[c]
  <2>1. /\ receiver' = [receiver EXCEPT ![d] = "dropped"]
        /\ queue' = [queue EXCEPT ![d] = <<>>]
    BY <1>5 DEF drop_receiver
  <2>2. d # c
    BY <2>1
  <2> QED BY <2>1, <2>2
<1> QED
  BY <1>1, <1>2, <1>3, <1>4, <1>5
  DEF TableNext, IdStep, tableVars, register, remove, advance_handshake, send_to

\* No operation of the table loses, repeats or reorders what is queued for a
\* peer whose receiver lives, whoever else is evicted meanwhile.
THEOREM NothingLost == TableSpec => KeptPeersLoseNothing
<1> DEFINE Fifo(c) == \E k, n \in 0 .. 1 :
                        /\ Len(queue'[c]) = Len(queue[c]) - k + n
                        /\ k + n <= 1
                        /\ \A i \in 1 .. Len(queue[c]) - k : queue'[c][i] = queue[c][i + k]
<1>1. ASSUME TableTypeOK, [TableNext]_tableVars
      PROVE  \A c \in Channel : receiver'[c] = "live" => Fifo(c)
  <2> SUFFICES ASSUME NEW c \in Channel, receiver'[c] = "live"
               PROVE  Fifo(c)
    OBVIOUS
  <2>0. queue[c] \in Seq(Message) /\ Len(queue[c]) \in Nat
    BY <1>1 DEF TableTypeOK
  <2>1. CASE queue'[c] = queue[c]
    BY <2>0, <2>1
  <2>2. ASSUME NEW m \in Message, queue'[c] = Append(queue[c], m)
        PROVE  Fifo(c)
    <3>1. /\ Len(queue'[c]) = Len(queue[c]) - 0 + 1
          /\ \A i \in 1 .. Len(queue[c]) - 0 : queue'[c][i] = queue[c][i + 0]
      BY <2>0, <2>2
    <3> QED BY <3>1
  <2>3. CASE queue[c] # <<>> /\ queue'[c] = Tail(queue[c])
    <3>1. /\ Len(queue'[c]) = Len(queue[c]) - 1 + 0
          /\ \A i \in 1 .. Len(queue[c]) - 1 : queue'[c][i] = queue[c][i + 1]
      BY <2>0, <2>3
    <3> QED BY <3>1
  <2> QED BY <1>1, <2>1, <2>2, <2>3, QueueShape
<1> QED BY <1>1, TableTypeCorrect, PTL DEF TableSpec, KeptPeersLoseNothing

\* Without a sender in the table a channel only empties: from its front, or
\* all at once with its receiver.
LEMMA OnlySendersQueue ==
  ASSUME TableTypeOK, [TableNext]_tableVars, NEW c \in Channel, ~ HasSender(c)
  PROVE  \/ queue'[c] \in {queue[c], <<>>}
         \/ queue[c] # <<>> /\ queue'[c] = Tail(queue[c])
<1> USE DEF TableTypeOK
<1>1. CASE UNCHANGED queue
  BY <1>1
<1>2. ASSUME NEW id \in 0 .. next_id - 1, NEW m \in Message, send_to(id, m), Reaches(id)
      PROVE  queue'[c] = queue[c]
  <2>1. PICK d \in Channel : d = peers[id].outbound
    BY <1>2 DEF Reaches, PeerHandle
  <2>2. queue' = [queue EXCEPT ![d] = Append(queue[d], m)]
    BY <1>2, <2>1 DEF send_to
  <2>3. d # c
    BY <1>2, <2>1 DEF Reaches, HasSender
  <2> QED BY <2>2, <2>3
<1>3. ASSUME NEW m \in Message, broadcast(m)
      PROVE  queue'[c] = queue[c]
  BY <1>3 DEF broadcast
<1>4. ASSUME NEW d \in Channel, recv(d)
      PROVE  queue'[c] = queue[c] \/ (queue[c] # <<>> /\ queue'[c] = Tail(queue[c]))
  <2>1. queue[d] # <<>> /\ queue' = [queue EXCEPT ![d] = Tail(queue[d])]
    BY <1>4 DEF recv
  <2> QED BY <2>1
<1>5. ASSUME NEW d \in Channel, drop_receiver(d)
      PROVE  queue'[c] \in {queue[c], <<>>}
  BY <1>5 DEF drop_receiver
<1> QED
  BY <1>1, <1>2, <1>3, <1>4, <1>5
  DEF TableNext, IdStep, tableVars, register, remove, advance_handshake, send_to

-----------------------------------------------------------------------------
(* The threads.                                                            *)

\* A connection's guard holds an id that the table handed out, from the
\* registration on; before it there is none, and no writer before the set-up.
GuardInv ==
  \A c \in Conn :
    /\ stage[c] # "idle" => who[c] \in [address : Address, origin : Origin]
    /\ pid[c] # NoPeer => pid[c] \in 0 .. next_id - 1
    /\ stage[c] \in {"idle", "spawned"} => pid[c] = NoPeer
    /\ stage[c] \in Registered \cup {"joining"} => pid[c] # NoPeer
    /\ stage[c] \in {"idle", "spawned", "setup"} => writer[c] = "none"

\* The steps that leave the table and the channels alone.
OffTable(c) ==
  \/ Dial(c) \/ Accept(c) \/ NoPeerAddr(c) \/ SetUp(c)
  \/ Read(c) \/ HandlePing(c) \/ HandlePong(c) \/ BadFrame(c) \/ ParsedAll(c)
  \/ CheckHandshake(c) \/ Join(c)
  \/ WriteOpening(c) \/ WritePing(c) \/ SkipPing(c) \/ ReceiveTimeout(c)
  \/ WriteQueued(c) \/ ShutDown(c)
  \/ PingFallsDue(c) \/ HandshakeFallsLate(c) \/ PeerStalls(c)

\* Outside its lock sections and channel operations a thread leaves the table
\* and every channel as they are.
LEMMA OffTableSteps ==
  ASSUME NEW c \in Conn, OffTable(c)
  PROVE  UNCHANGED tableVars
BY DEF OffTable, Dial, Accept, Spawn, NoPeerAddr, SetUp, Read, ReadData, ReadNothing,
  ReadEof, ReadFails, HandlePing, HandlePong, BadFrame, ParsedAll, CheckHandshake, Join,
  WriteOpening, WritePing, SkipPing, ReceiveTimeout, WriteQueued, ShutDown,
  PingFallsDue, HandshakeFallsLate, PeerStalls

\* The messages a connection writes are messages of the table.
LEMMA OwnMessages ==
  /\ Verack \in Message /\ Block \in Message
  /\ \A n \in Nonce : Pong(n) \in Message
BY ConnectionsAssumption DEF Outbound

\* Every step of the connections is a step of the table, or leaves it alone.
LEMMA TableStep ==
  ASSUME TypeOK, GuardInv, [Next]_vars
  PROVE  [TableNext]_tableVars
<1> USE DEF Conn
<1>1. ASSUME NEW c \in Conn, OffTable(c)
      PROVE  UNCHANGED tableVars
  BY <1>1, OffTableSteps
<1>2. ASSUME NEW c \in Conn, Open(c)
      PROVE  TableNext
  <2>1. who[c].address \in Address /\ who[c].origin \in Origin
    BY <1>2 DEF Open, At, GuardInv
  <2>2. register(c, who[c].address, who[c].origin)
    BY <1>2 DEF Open
  <2> QED BY <2>1, <2>2 DEF TableNext
<1>3. ASSUME NEW c \in Conn, SetUpFails(c) \/ WriteFails(c) \/ Disconnected(c)
      PROVE  TableNext
  <2>1. drop_receiver(c)
    BY <1>3 DEF SetUpFails, WriteFails, Disconnected, LeaveWriteLoop
  <2> QED BY <2>1 DEF TableNext
<1>4. ASSUME NEW c \in Conn, Receive(c)
      PROVE  TableNext
  BY <1>4 DEF Receive, TableNext
<1>5. ASSUME NEW c \in Conn, stage[c] \in Registered
      PROVE  pid[c] \in 0 .. next_id - 1
  BY <1>5 DEF GuardInv
<1>6. ASSUME NEW c \in Conn, HandleVersion(c) \/ HandleVerack(c) \/ HandleOutOfTurn(c)
      PROVE  TableNext
  <2>1. stage[c] \in Registered
    BY <1>6 DEF HandleVersion, HandleVerack, HandleOutOfTurn, Framed, At, Registered, InReadLoop
  <2>2. PICK e \in HandshakeEvent : advance_handshake(pid[c], e)
    BY <1>6 DEF HandleVersion, HandleVerack, HandleOutOfTurn, HandshakeEvent
  <2> QED BY <1>5, <2>1, <2>2 DEF TableNext, IdStep
<1>7. ASSUME NEW c \in Conn, Deliver(c)
      PROVE  TableNext
  <2>1. stage[c] \in Registered
    BY <1>7 DEF Deliver, At, Registered, InReadLoop
  <2>2. Head(reply[c]) \in Message
    <3>1. reply[c] \in Seq(Message)
      BY DEF TypeOK, BuffersTypeOK
    <3>2. reply[c] # <<>>
      BY <1>7, Zenon DEF Deliver, At, TypeOK, BuffersTypeOK
    <3> QED BY <3>1, <3>2
  <2>3. send_to(pid[c], Head(reply[c]))
    BY <1>7 DEF Deliver
  <2> QED BY <1>5, <2>1, <2>2, <2>3 DEF TableNext, IdStep
<1>8. ASSUME NEW c \in Conn, Release(c) \/ Unwind(c)
      PROVE  TableNext
  <2>1. stage[c] \in Registered
    BY <1>8 DEF Release, Unwind, At, Registered
  <2>2. remove(pid[c])
    BY <1>8 DEF Release, Unwind
  <2> QED BY <1>5, <2>1, <2>2 DEF TableNext, IdStep
<1>9. CASE Broadcast
  BY <1>9, OwnMessages DEF Broadcast, TableNext
<1>10. CASE DialFails \/ Quiet \/ UNCHANGED vars
  BY <1>10 DEF DialFails, Quiet, vars
<1> QED
  BY <1>1, <1>2, <1>3, <1>4, <1>6, <1>7, <1>8, <1>9, <1>10
  DEF Next, Reader, Handle, Writer, OffTable

-----------------------------------------------------------------------------
(* Type correctness.                                                       *)

\* A step keeps the stages of the two threads, the ids and the waiting dials
\* within their types; a stage change is one the code can make.
LEMMA ControlTypeStep ==
  ASSUME TypeOK, GuardInv, [Next]_vars
  PROVE  ControlTypeOK'
<1> USE DEF TypeOK, ControlTypeOK, Conn
<1>1. ASSUME NEW c \in Conn, NEW a \in Address, NEW o \in Origin, Spawn(c, a, o),
             dials' = dials \/ (dials # <<>> /\ dials' = Tail(dials))
      PROVE  ControlTypeOK'
  <2>1. [address |-> a, origin |-> o] \in [address : Address, origin : Origin]
    BY <1>1
  <2>2. dials' \in Seq(Address)
    BY <1>1, SMTT(60)
  <2> QED BY <1>1, <2>1, <2>2 DEF Spawn, GoTo, Stages, writerVars
<1>2. ASSUME NEW c \in Conn, NoPeerAddr(c) \/ SetUp(c) \/ SetUpFails(c)
      PROVE  ControlTypeOK'
  BY <1>2 DEF NoPeerAddr, SetUp, SetUpFails, GoTo, Stages, Registered, InReadLoop,
              WriterStages, nodeVars, guardVars, writerVars
<1>3. ASSUME NEW c \in Conn, Open(c)
      PROVE  ControlTypeOK'
  BY <1>3 DEF Open, TableTypeOK, GoTo, Stages, Registered, nodeVars, writerVars
<1>4. ASSUME NEW c \in Conn, Read(c) \/ Handle(c) \/ CheckHandshake(c) \/ Join(c)
      PROVE  ControlTypeOK'
  BY <1>4
  DEF Read, ReadData, ReadNothing, ReadEof, ReadFails, Handle, HandleVersion, HandleVerack,
      HandleOutOfTurn, HandlePing, HandlePong, Deliver, BadFrame, ParsedAll, CheckHandshake,
      Join, RecordThen, NotReading, GoTo, Stages, Registered, InReadLoop,
      nodeVars, guardVars, writerVars
<1>5. ASSUME NEW c \in Conn, Release(c) \/ Unwind(c)
      PROVE  ControlTypeOK'
  BY <1>5
  DEF Release, Unwind, LeaveReadLoop, GoTo, Stages, nodeVars, guardVars, writerVars
<1>6. ASSUME NEW c \in Conn, Writer(c)
      PROVE  ControlTypeOK'
  BY <1>6
  DEF Writer, WriteOpening, WritePing, SkipPing, Receive, ReceiveTimeout, WriteQueued,
      WriteFails, Disconnected, LeaveWriteLoop, ShutDown, NotWriting, WriterGoTo,
      WriterStages, nodeVars, guardVars
<1>7. ASSUME NEW c \in Conn, PingFallsDue(c) \/ HandshakeFallsLate(c) \/ PeerStalls(c)
      PROVE  ControlTypeOK'
  BY <1>7
  DEF PingFallsDue, HandshakeFallsLate, PeerStalls, nodeVars, guardVars, writerVars
<1>8. CASE Broadcast
  BY <1>8 DEF Broadcast, guardVars, writerVars
<1>9. CASE DialFails \/ Quiet \/ UNCHANGED vars
  BY <1>9, SMTT(60) DEF DialFails, Quiet, vars, nodeVars, guardVars, writerVars
<1>10. ASSUME NEW c \in Conn, Dial(c) \/ Accept(c)
      PROVE  ControlTypeOK'
  <2>1. CASE Dial(c)
    <3>1. Head(dials) \in Address
      BY <2>1 DEF Dial
    <3> QED BY <1>1, <2>1, <3>1 DEF Dial, Origin
  <2>2. CASE Accept(c)
    BY <1>1, <2>2 DEF Accept, Origin
  <2> QED BY <1>10, <2>1, <2>2
<1> QED
  BY <1>2, <1>3, <1>4, <1>5, <1>6, <1>7, <1>8, <1>9, <1>10 DEF Next, Reader

\* A step keeps the latch, the two timers and the stall flag Boolean.
LEMMA FlagsTypeStep ==
  ASSUME TypeOK, [Next]_vars
  PROVE  FlagsTypeOK'
<1> USE DEF TypeOK, FlagsTypeOK, Conn
<1>1. ASSUME NEW c \in Conn, Dial(c) \/ Accept(c) \/ NoPeerAddr(c) \/ Open(c) \/ SetUp(c) \/ SetUpFails(c)
      PROVE  FlagsTypeOK'
  BY <1>1 DEF Dial, Accept, Spawn, NoPeerAddr, Open, SetUp, SetUpFails, loopVars, envVars
<1>2. ASSUME NEW c \in Conn, Read(c) \/ Handle(c) \/ CheckHandshake(c) \/ Join(c)
      PROVE  FlagsTypeOK'
  BY <1>2
  DEF Read, ReadData, ReadNothing, ReadEof, ReadFails, Handle, HandleVersion, HandleVerack,
      HandleOutOfTurn, HandlePing, HandlePong, Deliver, BadFrame, ParsedAll, CheckHandshake,
      Join, NotReading, loopVars, envVars
<1>3. ASSUME NEW c \in Conn, Release(c) \/ Unwind(c)
      PROVE  FlagsTypeOK'
  BY <1>3 DEF Release, Unwind, LeaveReadLoop
<1>4. ASSUME NEW c \in Conn, Writer(c)
      PROVE  FlagsTypeOK'
  BY <1>4
  DEF Writer, WriteOpening, WritePing, SkipPing, Receive, ReceiveTimeout, WriteQueued,
      WriteFails, Disconnected, LeaveWriteLoop, ShutDown, NotWriting, loopVars
<1>5. ASSUME NEW c \in Conn, PingFallsDue(c) \/ HandshakeFallsLate(c) \/ PeerStalls(c)
      PROVE  FlagsTypeOK'
  BY <1>5 DEF PingFallsDue, HandshakeFallsLate, PeerStalls, loopVars
<1>6. CASE Broadcast \/ DialFails \/ Quiet \/ UNCHANGED vars
  BY <1>6 DEF Broadcast, DialFails, Quiet, vars, loopVars, envVars
<1> QED
  BY <1>1, <1>2, <1>3, <1>4, <1>5, <1>6 DEF Next, Reader

\* A step keeps what the threads hold between two steps within its type: a
\* reply while one is delivered, a message in hand exactly while it is written.
LEMMA BuffersTypeStep ==
  ASSUME TypeOK, GuardInv, [Next]_vars
  PROVE  BuffersTypeOK'
<1> USE DEF BuffersTypeOK, Conn
<1>0. /\ BuffersTypeOK
      /\ stage \in [Conn -> Stages] /\ writer \in [Conn -> WriterStages]
      /\ queue \in [Conn -> Seq(Message)]
  BY DEF TypeOK, ControlTypeOK, TableTypeOK
<1>1. ASSUME NEW c \in Conn, Dial(c) \/ Accept(c) \/ NoPeerAddr(c) \/ Open(c) \/ SetUpFails(c)
      PROVE  BuffersTypeOK'
  BY <1>0, <1>1 DEF Dial, Accept, Spawn, NoPeerAddr, Open, SetUpFails, GoTo,
       loopVars, writerVars, history
<1>2. ASSUME NEW c \in Conn, SetUp(c)
      PROVE  BuffersTypeOK'
  <2>1. writer[c] = "none"
    BY <1>2 DEF SetUp, At, GuardInv
  <2> QED BY <1>0, <1>2, <2>1 DEF SetUp, GoTo, loopVars, history
<1>3. ASSUME NEW c \in Conn, Read(c) \/ HandlePong(c) \/ HandleOutOfTurn(c) \/ BadFrame(c)
               \/ ParsedAll(c) \/ CheckHandshake(c) \/ Join(c)
      PROVE  BuffersTypeOK'
  BY <1>0, <1>3
  DEF Read, ReadData, ReadNothing, ReadEof, ReadFails, HandleOutOfTurn, HandlePong,
      BadFrame, ParsedAll, CheckHandshake, Join, RecordThen, NotReading, GoTo,
      loopVars, writerVars
<1>4. ASSUME NEW c \in Conn, HandleVersion(c) \/ HandlePing(c)
      PROVE  BuffersTypeOK'
  <2>1. PICK m \in Message : Promise(c, m)
    BY <1>4, OwnMessages DEF HandleVersion, HandlePing
  <2>2. /\ reply' = [reply EXCEPT ![c] = <<m>>]
        /\ owed' = [owed EXCEPT ![c] = Append(owed[c], m)]
        /\ UNCHANGED <<hand, writer>>
        /\ \A d \in Conn : d # c => stage'[d] = stage[d]
    BY <1>0, <1>4, <2>1
    DEF HandleVersion, HandlePing, Promise, RecordThen, GoTo, NotReading, writerVars
  <2>3. PICK e \in HandshakeEvent :
          greeted' = greeted \/ greeted' = [greeted EXCEPT ![c] = Append(greeted[c], e)]
    BY <1>4 DEF HandleVersion, HandlePing, HandshakeEvent
  <2>4. greeted' \in [Conn -> Seq(HandshakeEvent)]
    <3>1. CASE greeted' = greeted
      BY <1>0, <3>1
    <3>2. CASE greeted' = [greeted EXCEPT ![c] = Append(greeted[c], e)]
      BY <1>0, <3>2
    <3> QED BY <2>3, <3>1, <3>2
  <2>5. reply' \in [Conn -> Seq(Message)] /\ owed' \in [Conn -> Seq(Message)]
    BY <1>0, <2>2
  <2>6. reply'[c] # <<>>
    BY <1>0, <2>2
  <2>7. \A d \in Conn : stage'[d] = "replying" => reply'[d] # <<>>
    BY <1>0, <2>2, <2>6
  <2> QED BY <1>0, <2>2, <2>4, <2>5, <2>7
<1>5. ASSUME NEW c \in Conn, HandleVerack(c)
      PROVE  BuffersTypeOK'
  <2>1. greeted' \in [Conn -> Seq(HandshakeEvent)]
    BY <1>0, <1>5 DEF HandleVerack, HandshakeEvent
  <2> QED BY <1>0, <1>5, <2>1 DEF HandleVerack, RecordThen, GoTo, NotReading, writerVars
<1>6. ASSUME NEW c \in Conn, Deliver(c) \/ Release(c) \/ Unwind(c)
      PROVE  BuffersTypeOK'
  <2>1. /\ reply' = [reply EXCEPT ![c] = <<>>]
        /\ UNCHANGED <<hand, owed, writer>>
        /\ greeted' = greeted \/ greeted' = [greeted EXCEPT ![c] = <<>>]
        /\ stage'[c] # "replying" /\ \A d \in Conn : d # c => stage'[d] = stage[d]
    BY <1>0, <1>6
    DEF Deliver, Release, Unwind, LeaveReadLoop, GoTo, NotReading, writerVars
  <2>2. reply' \in [Conn -> Seq(Message)] /\ greeted' \in [Conn -> Seq(HandshakeEvent)]
    <3>1. reply' \in [Conn -> Seq(Message)]
      BY <1>0, <2>1
    <3>2. CASE greeted' = greeted
      BY <1>0, <3>1, <3>2
    <3>3. CASE greeted' = [greeted EXCEPT ![c] = <<>>]
      BY <1>0, <3>1, <3>3
    <3> QED BY <2>1, <3>2, <3>3
  <2>3. \A d \in Conn : stage'[d] = "replying" => reply'[d] # <<>>
    BY <1>0, <2>1
  <2> QED BY <1>0, <2>1, <2>2, <2>3
<1>7. ASSUME NEW c \in Conn, WriteOpening(c) \/ WritePing(c) \/ SkipPing(c)
               \/ ReceiveTimeout(c) \/ ShutDown(c)
      PROVE  BuffersTypeOK'
  BY <1>0, <1>7
  DEF WriteOpening, WritePing, SkipPing, ReceiveTimeout, ShutDown, NotWriting,
      WriterAt, WriterGoTo, loopVars
<1>8. ASSUME NEW c \in Conn, Receive(c)
      PROVE  BuffersTypeOK'
  BY <1>0, <1>8 DEF Receive, recv, NotWriting, WriterGoTo, loopVars
<1>9. ASSUME NEW c \in Conn, WriteQueued(c)
      PROVE  BuffersTypeOK'
  BY <1>0, <1>9 DEF WriteQueued, NotWriting, WriterGoTo, loopVars
<1>10. ASSUME NEW c \in Conn, LeaveWriteLoop(c)
      PROVE  BuffersTypeOK'
  <2>1. /\ hand' = [hand EXCEPT ![c] = <<>>]
        /\ owed' = [owed EXCEPT ![c] = <<>>]
        /\ writer' = [writer EXCEPT ![c] = "closing"]
        /\ UNCHANGED <<stage, reply, greeted>>
    BY <1>10 DEF LeaveWriteLoop, NotWriting, WriterGoTo, loopVars
  <2> QED BY <1>0, <2>1
<1>11. ASSUME NEW c \in Conn, PingFallsDue(c) \/ HandshakeFallsLate(c) \/ PeerStalls(c)
      PROVE  BuffersTypeOK'
  BY <1>0, <1>11 DEF PingFallsDue, HandshakeFallsLate, PeerStalls, loopVars, writerVars, history
<1>12. CASE Broadcast \/ DialFails \/ Quiet \/ UNCHANGED vars
  BY <1>0, <1>12 DEF Broadcast, DialFails, Quiet, vars, loopVars, writerVars, history
<1> QED
  BY <1>1, <1>2, <1>3, <1>4, <1>5, <1>6, <1>7, <1>8, <1>9, <1>10, <1>11, <1>12
  DEF Next, Reader, Handle, Writer, WriteFails, Disconnected

\* A step keeps the guards' ids: registration hands one out below next_id,
\* and no later step of the connection loses it before it is released.
LEMMA GuardStep ==
  ASSUME TypeOK, GuardInv, [Next]_vars
  PROVE  GuardInv'
<1> USE DEF Conn, GuardInv
<1>0. /\ stage \in [Conn -> Stages] /\ writer \in [Conn -> WriterStages]
      /\ pid \in [Conn -> Nat \cup {NoPeer}] /\ next_id \in Nat
      /\ who \in [Conn -> [address : Address, origin : Origin] \cup {Nobody}]
      /\ dials \in Seq(Address)
  BY DEF TypeOK, ControlTypeOK, TableTypeOK
<1>1. ASSUME NEW c \in Conn, Dial(c) \/ Accept(c)
      PROVE  GuardInv'
  <2>1. PICK a \in Address, o \in Origin : Spawn(c, a, o)
    BY <1>0, <1>1 DEF Dial, Accept, Origin
  <2> QED BY <1>0, <2>1 DEF Spawn, At, GoTo, Registered, InReadLoop, tableVars, writerVars
<1>2. ASSUME NEW c \in Conn, Open(c)
      PROVE  GuardInv'
  BY <1>0, <1>2
  DEF Open, register, At, GoTo, Registered, InReadLoop, NoPeer, writerVars
<1>3. ASSUME NEW c \in Conn, NoPeerAddr(c) \/ SetUp(c) \/ SetUpFails(c)
      PROVE  GuardInv'
  BY <1>0, <1>3
  DEF NoPeerAddr, SetUp, SetUpFails, drop_receiver, At, GoTo, Registered, InReadLoop,
      tableVars, guardVars, writerVars
<1>4. ASSUME NEW c \in Conn, Read(c) \/ Handle(c) \/ CheckHandshake(c)
      PROVE  GuardInv'
  <2>1. stage[c] \in Registered /\ stage[c] # "setup"
    BY <1>4
    DEF Read, ReadData, ReadNothing, ReadEof, ReadFails, Handle, HandleVersion, HandleVerack,
        HandleOutOfTurn, HandlePing, HandlePong, Deliver, BadFrame, ParsedAll,
        CheckHandshake, Framed, At, Registered, InReadLoop
  <2>2. PICK s \in Registered \ {"setup"} : stage' = [stage EXCEPT ![c] = s]
    BY <1>4
    DEF Read, ReadData, ReadNothing, ReadEof, ReadFails, Handle, HandleVersion, HandleVerack,
        HandleOutOfTurn, HandlePing, HandlePong, Deliver, BadFrame, ParsedAll,
        CheckHandshake, RecordThen, GoTo, Registered, InReadLoop
  <2>3. UNCHANGED <<next_id, who, pid, writer>>
    BY <1>4
    DEF Read, ReadData, ReadNothing, ReadEof, ReadFails, Handle, HandleVersion, HandleVerack,
        HandleOutOfTurn, HandlePing, HandlePong, Deliver, BadFrame, ParsedAll,
        CheckHandshake, NotReading, advance_handshake, send_to, tableVars, guardVars, writerVars
  <2> QED BY <1>0, <2>1, <2>2, <2>3 DEF Registered, InReadLoop
<1>5. ASSUME NEW c \in Conn, Release(c) \/ Unwind(c) \/ Join(c)
      PROVE  GuardInv'
  BY <1>0, <1>5
  DEF Release, Unwind, Join, LeaveReadLoop, NotReading, remove, At, GoTo, Registered, InReadLoop,
      tableVars, guardVars, writerVars
<1>6. ASSUME NEW c \in Conn, Writer(c)
      PROVE  GuardInv'
  <2>1. writer[c] # "none" /\ \A d \in Conn : d # c => writer'[d] = writer[d]
    BY <1>0, <1>6
    DEF Writer, WriteOpening, WritePing, SkipPing, Receive, ReceiveTimeout, WriteQueued,
        WriteFails, Disconnected, LeaveWriteLoop, ShutDown, WriterAt, WriterGoTo
  <2>2. UNCHANGED <<next_id, who, pid, stage>>
    BY <1>6
    DEF Writer, WriteOpening, WritePing, SkipPing, Receive, recv, ReceiveTimeout, WriteQueued,
        WriteFails, Disconnected, LeaveWriteLoop, drop_receiver, ShutDown, NotWriting,
        tableVars, guardVars
  <2> QED BY <1>0, <2>1, <2>2
<1>7. ASSUME NEW c \in Conn, PingFallsDue(c) \/ HandshakeFallsLate(c) \/ PeerStalls(c)
      PROVE  GuardInv'
  BY <1>7 DEF PingFallsDue, HandshakeFallsLate, PeerStalls, tableVars, guardVars, writerVars
<1>8. CASE Broadcast \/ DialFails \/ Quiet \/ UNCHANGED vars
  BY <1>8 DEF Broadcast, broadcast, DialFails, Quiet, vars, tableVars, guardVars, writerVars
<1> QED
  BY <1>1, <1>2, <1>3, <1>4, <1>5, <1>6, <1>7, <1>8 DEF Next, Reader

\* A step keeps the type invariant; its part on the table is the table's own
\* step lemma, since every step is a table step or leaves the table alone.
LEMMA TypeStep ==
  ASSUME TypeOK, GuardInv, [Next]_vars
  PROVE  TypeOK'
<1>1. TableTypeOK'
  BY TableStep, TableTypeStep DEF TypeOK
<1> QED BY <1>1, ControlTypeStep, FlagsTypeStep, BuffersTypeStep DEF TypeOK

\* The state in which main starts to dial has no connection, no guard and an
\* empty table.
LEMMA TypeInit == Init => TypeOK /\ GuardInv
<1> SUFFICES ASSUME Init PROVE TypeOK /\ GuardInv
  OBVIOUS
<1>1. TableTypeOK
  BY DEF Init, TableInit, TableTypeOK
<1>2. ControlTypeOK
  BY ConnectionsAssumption DEF Init, ControlTypeOK, Stages, WriterStages
<1>3. FlagsTypeOK
  BY DEF Init, FlagsTypeOK
<1>4. BuffersTypeOK
  BY DEF Init, BuffersTypeOK
<1>5. GuardInv
  BY DEF Init, GuardInv, Registered, InReadLoop
<1> QED BY <1>1, <1>2, <1>3, <1>4, <1>5 DEF TypeOK

\* In every run, the table, the channels and the threads have the declared
\* shape, and every guard holds an id that the table handed out.
THEOREM TypeCorrect == Spec => [](TypeOK /\ GuardInv)
<1>1. TypeOK /\ GuardInv /\ [Next]_vars => TypeOK' /\ GuardInv'
  BY TypeStep, GuardStep
<1> QED BY <1>1, TypeInit, PTL DEF Spec

\* The threads, however they interleave, drive the table only through its
\* operations: the connections implement the table's own specification.
THEOREM TableRefinement == Spec => TableSpec
<1>1. Init => TableInit
  BY DEF Init
<1>2. TypeOK /\ GuardInv /\ [Next]_vars => [TableNext]_tableVars
  BY TableStep
<1> QED BY <1>1, <1>2, TypeCorrect, PTL DEF Spec, TableSpec

\* So what was proved of the table holds of the running node.
THEOREM NodeInvariants == Spec => []TableInv
BY TableRefinement, TableInvHolds, PTL
-----------------------------------------------------------------------------
(* Entries and their owners.                                               *)

\* The steps of the read loop, and what they all have in common.
InLoop(c) == Read(c) \/ Handle(c) \/ CheckHandshake(c)

\* A step of the read loop stays in the loop or leaves it towards the guard's
\* release, and touches no other thread and no id.
LEMMA InLoopSteps ==
  ASSUME NEW c \in Conn, stage \in [Conn -> Stages], InLoop(c)
  PROVE  /\ stage[c] \in InReadLoop
         /\ stage'[c] \in InReadLoop \cup {"dropping", "unwinding"}
         /\ \A d \in Conn : d # c => stage'[d] = stage[d]
         /\ UNCHANGED <<next_id, receiver, guardVars, writerVars>>
<1> USE DEF InLoop, Read, ReadData, ReadNothing, ReadEof, ReadFails, Handle, HandleVersion,
        HandleVerack, HandleOutOfTurn, HandlePing, HandlePong, Deliver, BadFrame, ParsedAll,
        CheckHandshake
<1>1. stage[c] \in InReadLoop
  BY DEF Framed, At, InReadLoop
<1>2. PICK s \in InReadLoop \cup {"dropping", "unwinding"} : stage' = [stage EXCEPT ![c] = s]
  BY DEF RecordThen, GoTo, InReadLoop
<1>3. UNCHANGED <<next_id, receiver, guardVars, writerVars>>
  BY DEF NotReading, advance_handshake, send_to, tableVars
<1> QED BY <1>1, <1>2, <1>3

\* No step of the writer changes the table's entries or the reader: it only
\* drains its channel and drops the receiver.
LEMMA WriterSteps ==
  ASSUME NEW c \in Conn, Writer(c)
  PROVE  UNCHANGED <<peers, next_id, guardVars, stage>>
BY DEF Writer, WriteOpening, WritePing, SkipPing, Receive, recv, ReceiveTimeout, WriteQueued,
       WriteFails, Disconnected, LeaveWriteLoop, drop_receiver, ShutDown, NotWriting,
       tableVars

\* Other than by opening, no step changes an id, and a connection only stops
\* holding a guard by removing its own entry.
LEMMA GuardsKept ==
  ASSUME TypeOK, [Next]_vars, ~ \E c \in Conn : Open(c)
  PROVE  /\ UNCHANGED <<pid, next_id>>
         /\ \A c \in Conn : stage[c] \in Registered =>
              /\ who'[c] = who[c]
              /\ stage'[c] \in Registered \/ DOMAIN peers' = DOMAIN peers \ {pid[c]}
<1> DEFINE Kept == /\ UNCHANGED <<pid, next_id>>
                   /\ \A c \in Conn : stage[c] \in Registered =>
                        /\ who'[c] = who[c]
                        /\ stage'[c] \in Registered
                              \/ DOMAIN peers' = DOMAIN peers \ {pid[c]}
<1>0. stage \in [Conn -> Stages] /\ who \in [Conn -> [address : Address, origin : Origin] \cup {Nobody}]
  BY DEF TypeOK, ControlTypeOK
<1>1. ASSUME NEW c \in Conn, Dial(c) \/ Accept(c)
      PROVE  Kept
  <2>1. PICK a, o : Spawn(c, a, o)
    BY <1>1 DEF Dial, Accept
  <2> QED BY <1>0, <2>1 DEF Spawn, At, GoTo, Registered, InReadLoop, tableVars
<1>2. ASSUME NEW c \in Conn, NoPeerAddr(c) \/ SetUp(c) \/ SetUpFails(c) \/ Join(c)
      PROVE  Kept
  BY <1>0, <1>2
  DEF NoPeerAddr, SetUp, SetUpFails, Join, drop_receiver, NotReading, At, GoTo,
      Registered, InReadLoop, tableVars, guardVars
<1>3. ASSUME NEW c \in Conn, InLoop(c)
      PROVE  Kept
  BY <1>0, <1>3, InLoopSteps DEF Registered, guardVars
<1>4. ASSUME NEW c \in Conn, Release(c) \/ Unwind(c)
      PROVE  Kept
  BY <1>0, <1>4
  DEF Release, Unwind, remove, Without, Restrict, LeaveReadLoop, At, GoTo, guardVars
<1>5. ASSUME NEW c \in Conn, Writer(c)
      PROVE  Kept
  BY <1>5, WriterSteps DEF guardVars
<1>6. ASSUME NEW c \in Conn, PingFallsDue(c) \/ HandshakeFallsLate(c) \/ PeerStalls(c)
      PROVE  Kept
  BY <1>6 DEF PingFallsDue, HandshakeFallsLate, PeerStalls, tableVars, guardVars
<1>7. CASE Broadcast \/ DialFails \/ Quiet \/ UNCHANGED vars
  BY <1>7 DEF Broadcast, broadcast, DialFails, Quiet, vars, tableVars, guardVars
<1> QED
  BY <1>1, <1>2, <1>3, <1>4, <1>5, <1>6, <1>7 DEF Next, Reader, InLoop

\* A step keeps every entry with a connection that holds its guard: entries
\* appear with their guard, and a guard goes only with its entry.
LEMMA NoOrphanStep ==
  ASSUME TypeOK, GuardInv, NoOrphanEntry, [Next]_vars
  PROVE  NoOrphanEntry'
<1> USE DEF Conn
<1>0. /\ stage \in [Conn -> Stages] /\ pid \in [Conn -> Nat \cup {NoPeer}]
      /\ \A id \in DOMAIN peers : peers[id].outbound \in Conn
  BY DEF TypeOK, ControlTypeOK, TableTypeOK, PeerHandle
<1>1. CASE ~ \E c \in Conn : Open(c)
  <2>1. Keeps
    <3>1. next_id' = next_id /\ next_id \in Nat
      BY <1>1, GuardsKept DEF TypeOK, TableTypeOK
    <3>2. Keeps \/ \E c \in Channel, a \in Address, o \in Origin : Inserts(c, a, o)
      BY TableStep, StepShape DEF TypeOK
    <3>3. ASSUME NEW c \in Channel, NEW a \in Address, NEW o \in Origin, Inserts(c, a, o)
          PROVE  FALSE
      <4>1. next_id' = next_id + 1
        BY <3>3 DEF Inserts
      <4> QED BY <3>1, <4>1
    <3> QED BY <3>2, <3>3
  <2>2. SUFFICES ASSUME NEW id \in DOMAIN peers'
                 PROVE  LET c == peers'[id].outbound
                        IN  /\ pid'[c] = id /\ stage'[c] \in Registered
                            /\ peers'[id].address = who'[c].address
                            /\ peers'[id].origin = who'[c].origin
    BY DEF NoOrphanEntry
  <2>3. PICK c \in Conn : c = peers[id].outbound
    BY <1>0, <2>1 DEF Keeps
  <2>4. /\ id \in DOMAIN peers /\ peers'[id].outbound = c
        /\ peers'[id].address = peers[id].address /\ peers'[id].origin = peers[id].origin
    BY <2>1, <2>3 DEF Keeps
  <2>5. /\ pid[c] = id /\ stage[c] \in Registered
        /\ peers[id].address = who[c].address /\ peers[id].origin = who[c].origin
    BY <2>3, <2>4 DEF NoOrphanEntry
  <2>6. /\ pid' = pid /\ who'[c] = who[c]
        /\ stage'[c] \in Registered \/ DOMAIN peers' = DOMAIN peers \ {pid[c]}
    BY <1>1, <2>5, GuardsKept
  <2> QED BY <2>4, <2>5, <2>6
<1>2. ASSUME NEW c \in Conn, Open(c)
      PROVE  NoOrphanEntry'
  <2>1. stage[c] = "spawned" /\ UNCHANGED who
    BY <1>2 DEF Open, At
  <2>2. \A id \in DOMAIN peers : peers[id].outbound # c
    BY <2>1 DEF NoOrphanEntry, Registered, InReadLoop
  <2>3. CASE Admits(who[c].address, who[c].origin)
    <3>1. /\ pid' = [pid EXCEPT ![c] = next_id]
          /\ stage' = [stage EXCEPT ![c] = "setup"]
          /\ peers' = [id \in DOMAIN peers \cup {next_id} |->
                         IF id = next_id
                           THEN [address |-> who[c].address, origin |-> who[c].origin,
                                 handshake |-> "AwaitingVersion", outbound |-> c]
                           ELSE peers[id]]
      BY <1>2, <2>3 DEF Open, register, GoTo
    <3> QED BY <1>0, <2>1, <2>2, <3>1, SMTT(60) DEF NoOrphanEntry, Registered
  <2>4. CASE ~ Admits(who[c].address, who[c].origin)
    BY <1>0, <1>2, <2>1, <2>2, <2>4 DEF Open, register, GoTo, NoOrphanEntry
  <2> QED BY <2>3, <2>4
<1> QED BY <1>1, <1>2

\* Whatever ends a connection (end of stream, error, deadline, refused reply,
\* eviction, failed set-up, panic), it leaves no entry behind.
THEOREM NoOrphanHolds == Spec => []NoOrphanEntry
<1>1. Init => NoOrphanEntry
  BY DEF Init, TableInit, NoOrphanEntry
<1>2. TypeOK /\ GuardInv /\ NoOrphanEntry /\ [Next]_vars => NoOrphanEntry'
  BY NoOrphanStep
<1> QED BY <1>1, <1>2, TypeCorrect, PTL DEF Spec

-----------------------------------------------------------------------------
(* Whose entry a guard names.                                              *)

\* The entry that a connection's guard names, while there is one, holds the
\* sender of that connection: two guards never share an entry.
OwnEntry ==
  \A c \in Conn : pid[c] \in DOMAIN peers => peers[pid[c]].outbound = c

\* Without broadcasts, a connection keeps the entry its guard names from the
\* registration until its reader has left the loop.
EntriesStay ==
  casts = 0 => \A c \in Conn : stage[c] \in InReadLoop \cup {"setup"} => pid[c] \in DOMAIN peers

(* The shapes of a step.                                                   *)

\* Entries leave, each through its own connection's teardown or because its
\* own channel refuses a message; those that stay are as they were.
Drops ==
  /\ UNCHANGED pid
  /\ DOMAIN peers' \subseteq DOMAIN peers
  /\ \A id \in DOMAIN peers' : peers'[id] = peers[id]
  /\ \A id \in DOMAIN peers \ DOMAIN peers' :
       \/ ~ Accepts(peers[id].outbound)
       \/ \E c \in Conn : pid[c] = id /\ stage[c] \in {"dropping", "unwinding"}

\* A connection that the table admits gets the entry its guard will name.
Admitted(c) ==
  /\ Open(c)
  /\ Admits(who[c].address, who[c].origin)
  /\ pid' = [pid EXCEPT ![c] = next_id]
  /\ peers' = [id \in DOMAIN peers \cup {next_id} |->
                 IF id = next_id
                   THEN [address |-> who[c].address, origin |-> who[c].origin,
                         handshake |-> "AwaitingVersion", outbound |-> c]
                   ELSE peers[id]]

\* The entry that a connection's guard names goes from one state of the
\* handshake to the next, because its peer sent what was due.
Advanced(c, from, event, to) ==
  /\ stage[c] \in InReadLoop /\ pid[c] \in DOMAIN peers
  /\ peers[pid[c]].handshake = from
  /\ peers' = [peers EXCEPT ![pid[c]].handshake = to]
  /\ greeted' = [greeted EXCEPT ![c] = Append(greeted[c], event)]
  /\ UNCHANGED <<pid, ready>>

\* HandleVersion and HandleVerack are the two turns of the handshake.
LEMMA HandleShape ==
  ASSUME NEW c \in Conn
  PROVE  /\ HandleVersion(c) => Advanced(c, "AwaitingVersion", "Version", "AwaitingVerack")
         /\ HandleVerack(c) => Advanced(c, "AwaitingVerack", "Verack", "Ready")
<1>1. ASSUME HandleVersion(c)
      PROVE  Advanced(c, "AwaitingVersion", "Version", "AwaitingVerack")
  <2>1. /\ pid[c] \in DOMAIN peers /\ peers[pid[c]].handshake = "AwaitingVersion"
        /\ advance(peers[pid[c]].handshake, "Version") = "AwaitingVerack"
    BY <1>1 DEF HandleVersion, Advances, advance, Err
  <2>2. peers' = [peers EXCEPT ![pid[c]].handshake = "AwaitingVerack"]
    BY <1>1, <2>1 DEF HandleVersion, advance_handshake
  <2> QED
    BY <1>1, <2>1, <2>2
    DEF HandleVersion, Advanced, Framed, At, InReadLoop, NotReading, guardVars
<1>2. ASSUME HandleVerack(c)
      PROVE  Advanced(c, "AwaitingVerack", "Verack", "Ready")
  <2>1. /\ pid[c] \in DOMAIN peers /\ peers[pid[c]].handshake = "AwaitingVerack"
        /\ advance(peers[pid[c]].handshake, "Verack") = "Ready"
    BY <1>2 DEF HandleVerack, Advances, advance, Err
  <2>2. peers' = [peers EXCEPT ![pid[c]].handshake = "Ready"]
    BY <1>2, <2>1 DEF HandleVerack, advance_handshake
  <2> QED
    BY <1>2, <2>1, <2>2
    DEF HandleVerack, Advanced, Framed, At, InReadLoop, NotReading, guardVars
<1> QED BY <1>1, <1>2

\* Every other step but an admission only drops entries.
LEMMA EntryStep ==
  ASSUME TypeOK, [Next]_vars
  PROVE  \/ Drops
         \/ \E c \in Conn : Admitted(c) \/ HandleVersion(c) \/ HandleVerack(c)
<1>1. ASSUME NEW c \in Conn, OffTable(c)
      PROVE  Drops
  <2>1. UNCHANGED pid
    BY <1>1
    DEF OffTable, Dial, Accept, Spawn, NoPeerAddr, SetUp, Read, ReadData, ReadNothing,
        ReadEof, ReadFails, HandlePing, HandlePong, BadFrame, ParsedAll, CheckHandshake, Join,
        WriteOpening, WritePing, SkipPing, ReceiveTimeout, WriteQueued, ShutDown,
        PingFallsDue, HandshakeFallsLate, PeerStalls, NotReading, NotWriting, guardVars
  <2> QED BY <1>1, <2>1, OffTableSteps DEF Drops, tableVars
<1>2. ASSUME NEW c \in Conn, Open(c)
      PROVE  Drops \/ Admitted(c)
  BY <1>2 DEF Open, register, Drops, Admitted
<1>3. ASSUME NEW c \in Conn, SetUpFails(c) \/ Receive(c) \/ WriteFails(c) \/ Disconnected(c)
      PROVE  Drops
  BY <1>3
  DEF SetUpFails, Receive, recv, WriteFails, Disconnected, LeaveWriteLoop, drop_receiver,
      NotWriting, guardVars, Drops
<1>4. ASSUME NEW c \in Conn, HandleOutOfTurn(c)
      PROVE  Drops
  BY <1>4 DEF HandleOutOfTurn, advance_handshake, NotReading, guardVars, Drops
<1>5. ASSUME NEW c \in Conn, Deliver(c)
      PROVE  Drops
  BY <1>5
  DEF Deliver, send_to, Reaches, Without, Restrict, NotReading, guardVars, Drops
<1>6. ASSUME NEW c \in Conn, Release(c) \/ Unwind(c)
      PROVE  Drops
  BY <1>6
  DEF Release, Unwind, remove, Without, Restrict, LeaveReadLoop, guardVars, At, Drops
<1>7. CASE Broadcast
  BY <1>7 DEF Broadcast, broadcast, Without, Restrict, guardVars, Drops
<1>8. CASE DialFails \/ Quiet \/ UNCHANGED vars
  BY <1>8 DEF DialFails, Quiet, vars, tableVars, guardVars, Drops
<1> QED
  BY <1>1, <1>2, <1>3, <1>4, <1>5, <1>6, <1>7, <1>8
  DEF Next, Reader, Handle, Writer, OffTable

\* A step keeps the guards' ids apart: a new one is above all that were
\* handed out.
LEMMA OwnEntryStep ==
  ASSUME TypeOK, GuardInv, OwnEntry, [Next]_vars
  PROVE  OwnEntry'
<1>0. /\ pid \in [Conn -> Nat \cup {NoPeer}] /\ next_id \in Nat
      /\ DOMAIN peers \subseteq 0 .. next_id - 1
      /\ peers \in [DOMAIN peers -> PeerHandle]
  BY DEF TypeOK, ControlTypeOK, TableTypeOK
<1>1. CASE Drops
  BY <1>1 DEF Drops, OwnEntry
<1>2. ASSUME NEW c \in Conn, Admitted(c)
      PROVE  OwnEntry'
  <2>1. \A d \in Conn : pid[d] # next_id
    BY <1>0 DEF GuardInv, NoPeer
  <2> QED BY <1>0, <1>2, <2>1 DEF Admitted, OwnEntry
<1>3. ASSUME NEW c \in Conn, NEW from, NEW event, NEW to, Advanced(c, from, event, to)
      PROVE  OwnEntry'
  BY <1>0, <1>3 DEF Advanced, OwnEntry, PeerHandle
<1> QED BY <1>1, <1>2, <1>3, EntryStep, HandleShape

\* In every run, a guard that removes, advances or sends by its id touches
\* its own connection's entry or none.
THEOREM OwnEntryHolds == Spec => []OwnEntry
<1>1. Init => OwnEntry
  BY DEF Init, TableInit, OwnEntry
<1>2. TypeOK /\ GuardInv /\ OwnEntry /\ [Next]_vars => OwnEntry'
  BY OwnEntryStep
<1> QED BY <1>1, <1>2, TypeCorrect, PTL DEF Spec

\* No connection costs another its entry: whatever leaves the table leaves it
\* by its own teardown or its own full or abandoned channel.
THEOREM OnlyOwnTeardownHolds == Spec => OnlyOwnTeardown
<1> DEFINE Own == \A id \in DOMAIN peers \ DOMAIN peers' :
                    LET c == peers[id].outbound
                    IN  stage[c] \in {"dropping", "unwinding"} \/ ~ Accepts(c)
<1>1. ASSUME TypeOK, OwnEntry, [Next]_vars
      PROVE  Own
  <2>1. CASE Drops
    BY <1>1, <2>1 DEF Drops, OwnEntry
  <2>2. ASSUME NEW c \in Conn, Admitted(c)
        PROVE  Own
    BY <2>2 DEF Admitted
  <2>3. ASSUME NEW c \in Conn, NEW from, NEW event, NEW to, Advanced(c, from, event, to)
        PROVE  Own
    BY <2>3 DEF Advanced
  <2> QED BY <1>1, <2>1, <2>2, <2>3, EntryStep, HandleShape
<1> QED BY <1>1, TypeCorrect, OwnEntryHolds, PTL DEF Spec, OnlyOwnTeardown

\* Only the two turns of the handshake add to what a peer has been heard to
\* say; a reader that leaves its loop forgets it.
LEMMA GreetedStep ==
  ASSUME TypeOK, [Next]_vars, NEW c \in Conn, ~ HandleVersion(c), ~ HandleVerack(c)
  PROVE  greeted'[c] \in {greeted[c], <<>>}
<1>0. greeted \in [Conn -> Seq(HandshakeEvent)]
  BY DEF TypeOK, BuffersTypeOK
<1>1. ASSUME NEW d \in Conn, HandleVersion(d) \/ HandleVerack(d)
      PROVE  greeted'[c] = greeted[c]
  <2>1. d # c /\ \E e : greeted' = [greeted EXCEPT ![d] = Append(greeted[d], e)]
    BY <1>1 DEF HandleVersion, HandleVerack
  <2> QED BY <1>0, <2>1
<1>2. ASSUME NEW d \in Conn, Release(d) \/ Unwind(d)
      PROVE  greeted'[c] \in {greeted[c], <<>>}
  BY <1>0, <1>2 DEF Release, Unwind, LeaveReadLoop
<1>3. ASSUME NEW d \in Conn, OffTable(d)
      PROVE  UNCHANGED greeted
  BY <1>3
  DEF OffTable, Dial, Accept, Spawn, NoPeerAddr, SetUp, Read, ReadData, ReadNothing,
      ReadEof, ReadFails, HandlePing, HandlePong, BadFrame, ParsedAll, CheckHandshake, Join,
      WriteOpening, WritePing, SkipPing, ReceiveTimeout, WriteQueued, ShutDown,
      PingFallsDue, HandshakeFallsLate, PeerStalls, NotReading, NotWriting, history
<1>4. ASSUME NEW d \in Conn,
             \/ Open(d) \/ SetUpFails(d) \/ HandleOutOfTurn(d) \/ Deliver(d)
             \/ Receive(d) \/ WriteFails(d) \/ Disconnected(d)
      PROVE  UNCHANGED greeted
  BY <1>4
  DEF Open, SetUpFails, HandleOutOfTurn, Deliver, Receive, WriteFails, Disconnected,
      LeaveWriteLoop, NotWriting, history
<1>5. CASE Broadcast \/ DialFails \/ Quiet \/ UNCHANGED vars
  BY <1>5 DEF Broadcast, DialFails, Quiet, vars, history
<1> QED
  BY <1>1, <1>2, <1>3, <1>4, <1>5 DEF Next, Reader, Handle, Writer, OffTable

\* Once a connection has lost its entry, whoever took it, nothing more is
\* queued for its peer and its handshake goes no further.
THEOREM EvictedHolds == Spec => EvictedPeerIsDone
<1> DEFINE Done == \A c \in Conn :
                     pid[c] # NoPeer /\ ~ HasSender(c) =>
                       /\ \/ queue'[c] \in {queue[c], <<>>}
                          \/ queue[c] # <<>> /\ queue'[c] = Tail(queue[c])
                       /\ greeted'[c] \in {greeted[c], <<>>}
<1>1. ASSUME TypeOK, GuardInv, OwnEntry, [Next]_vars
      PROVE  Done
  <2> SUFFICES ASSUME NEW c \in Conn, ~ HasSender(c)
               PROVE  /\ \/ queue'[c] \in {queue[c], <<>>}
                         \/ queue[c] # <<>> /\ queue'[c] = Tail(queue[c])
                      /\ greeted'[c] \in {greeted[c], <<>>}
    OBVIOUS
  <2>1. \/ queue'[c] \in {queue[c], <<>>}
        \/ queue[c] # <<>> /\ queue'[c] = Tail(queue[c])
    <3>1. TableTypeOK /\ [TableNext]_tableVars /\ c \in Channel
      BY <1>1, TableStep DEF TypeOK, Conn
    <3> QED BY <3>1, OnlySendersQueue
  <2>2. ~ HandleVersion(c) /\ ~ HandleVerack(c)
    BY <1>1, HandleShape DEF Advanced, OwnEntry, HasSender
  <2>3. greeted'[c] \in {greeted[c], <<>>}
    BY <1>1, <2>2, GreetedStep
  <2> QED BY <2>1, <2>3
<1> QED BY <1>1, TypeCorrect, OwnEntryHolds, PTL DEF Spec, EvictedPeerIsDone

\* Only a registration gives a connection a sender.
LEMMA SenderStays ==
  ASSUME TypeOK, [Next]_vars, NEW c \in Conn, ~ Open(c)
  PROVE  HasSender(c)' => HasSender(c)
<1>1. CASE Drops
  BY <1>1 DEF Drops, HasSender
<1>2. ASSUME NEW d \in Conn, Admitted(d)
      PROVE  HasSender(c)' => HasSender(c)
  BY <1>2 DEF Admitted, HasSender
<1>3. ASSUME NEW d \in Conn, NEW from, NEW event, NEW to, Advanced(d, from, event, to)
      PROVE  HasSender(c)' => HasSender(c)
  BY <1>3 DEF Advanced, HasSender, TypeOK, TableTypeOK, PeerHandle
<1> QED
  BY <1>1, <1>2, <1>3, EntryStep, HandleShape
-----------------------------------------------------------------------------
(* Readers and their entries.                                              *)

\* A step other than a broadcast takes an entry only from a connection whose
\* reader leaves the loop in that step, or has left it.
LEMMA EntriesStayStep ==
  ASSUME TypeOK, GuardInv, OwnEntry, EntriesStay, [Next]_vars
  PROVE  EntriesStay'
<1> DEFINE Held == InReadLoop \cup {"setup"}
<1>0. /\ stage \in [Conn -> Stages] /\ casts \in Nat
      /\ pid \in [Conn -> Nat \cup {NoPeer}] /\ next_id \in Nat
      /\ DOMAIN peers \subseteq 0 .. next_id - 1
  BY DEF TypeOK, ControlTypeOK, TableTypeOK
<1>1. ASSUME UNCHANGED <<casts, pid>>, DOMAIN peers' = DOMAIN peers,
             \A c \in Conn : stage'[c] \in Held => stage[c] \in Held
      PROVE  EntriesStay'
  BY <1>1 DEF EntriesStay
<1>2. ASSUME NEW c \in Conn, OffTable(c)
      PROVE  EntriesStay'
  <2>1. UNCHANGED <<casts, pid, peers>>
    BY <1>2
    DEF OffTable, Dial, Accept, Spawn, NoPeerAddr, SetUp, Read, ReadData, ReadNothing,
        ReadEof, ReadFails, HandlePing, HandlePong, BadFrame, ParsedAll, CheckHandshake, Join,
        WriteOpening, WritePing, SkipPing, ReceiveTimeout, WriteQueued, ShutDown,
        PingFallsDue, HandshakeFallsLate, PeerStalls, NotReading, NotWriting,
        guardVars, nodeVars, tableVars
  <2>2. \/ UNCHANGED stage
        \/ stage[c] \in Held /\ \E s : stage' = [stage EXCEPT ![c] = s]
        \/ \E s \in {"spawned", "done"} : stage' = [stage EXCEPT ![c] = s]
    BY <1>2
    DEF OffTable, Dial, Accept, Spawn, NoPeerAddr, SetUp, Read, ReadData, ReadNothing,
        ReadEof, ReadFails, HandlePing, HandlePong, BadFrame, ParsedAll, CheckHandshake, Join,
        WriteOpening, WritePing, SkipPing, ReceiveTimeout, WriteQueued, ShutDown,
        PingFallsDue, HandshakeFallsLate, PeerStalls, NotWriting,
        Framed, At, GoTo, RecordThen, InReadLoop
  <2>3. \A d \in Conn : stage'[d] \in Held => stage[d] \in Held
    BY <1>0, <2>2 DEF InReadLoop
  <2> QED BY <1>1, <2>1, <2>3
<1>3. ASSUME NEW c \in Conn, Open(c)
      PROVE  EntriesStay'
  <2>1. UNCHANGED casts /\ stage[c] = "spawned"
    BY <1>3 DEF Open, nodeVars, At
  <2>2. CASE Admits(who[c].address, who[c].origin)
    <3>1. /\ stage' = [stage EXCEPT ![c] = "setup"]
          /\ pid' = [pid EXCEPT ![c] = next_id]
          /\ DOMAIN peers' = DOMAIN peers \cup {next_id}
      BY <1>3, <2>2 DEF Open, register, GoTo
    <3> QED BY <1>0, <2>1, <3>1 DEF EntriesStay
  <2>3. CASE ~ Admits(who[c].address, who[c].origin)
    <3>1. UNCHANGED <<pid, peers>> /\ stage' = [stage EXCEPT ![c] = "done"]
      BY <1>3, <2>3 DEF Open, register, GoTo
    <3> QED BY <1>0, <1>1, <2>1, <3>1 DEF InReadLoop
  <2> QED BY <2>2, <2>3
<1>4. ASSUME NEW c \in Conn, SetUpFails(c) \/ Receive(c) \/ WriteFails(c) \/ Disconnected(c)
      PROVE  EntriesStay'
  <2>1. /\ UNCHANGED <<casts, pid, peers>>
        /\ UNCHANGED stage \/ stage' = [stage EXCEPT ![c] = "unwinding"]
    BY <1>4
    DEF SetUpFails, Receive, recv, WriteFails, Disconnected, LeaveWriteLoop, drop_receiver,
        NotWriting, guardVars, nodeVars, GoTo
  <2> QED BY <1>0, <1>1, <2>1 DEF InReadLoop
<1>5. ASSUME NEW c \in Conn, HandleVersion(c) \/ HandleVerack(c) \/ HandleOutOfTurn(c)
      PROVE  EntriesStay'
  <2>1. UNCHANGED <<casts, pid>> /\ stage[c] \in Held
    BY <1>5
    DEF HandleVersion, HandleVerack, HandleOutOfTurn, NotReading, guardVars, nodeVars,
        Framed, At, InReadLoop
  <2>2. DOMAIN peers' = DOMAIN peers
    BY <1>5 DEF HandleVersion, HandleVerack, HandleOutOfTurn, advance_handshake
  <2>3. \E s : stage' = [stage EXCEPT ![c] = s]
    BY <1>5 DEF HandleVersion, HandleVerack, HandleOutOfTurn, RecordThen, GoTo
  <2> QED BY <1>0, <1>1, <2>1, <2>2, <2>3
<1>6. ASSUME NEW c \in Conn, Deliver(c) \/ Release(c) \/ Unwind(c)
      PROVE  EntriesStay'
  <2>1. UNCHANGED <<casts, pid>>
    BY <1>6 DEF Deliver, Release, Unwind, NotReading, LeaveReadLoop, guardVars, nodeVars
  <2>2. \A d \in Conn : pid[d] \in DOMAIN peers /\ d # c => pid[d] # pid[c]
    BY DEF OwnEntry
  <2>3. \/ /\ UNCHANGED peers /\ stage[c] \in Held
           /\ \E s : stage' = [stage EXCEPT ![c] = s]
        \/ /\ DOMAIN peers' = DOMAIN peers \ {pid[c]}
           /\ \E s \in {"dropping", "joining", "done"} : stage' = [stage EXCEPT ![c] = s]
    BY <1>6
    DEF Deliver, send_to, Release, Unwind, remove, Without, Restrict, At, GoTo, InReadLoop
  <2> QED BY <1>0, <2>1, <2>2, <2>3 DEF EntriesStay, InReadLoop
<1>7. CASE Broadcast
  BY <1>0, <1>7 DEF Broadcast, EntriesStay
<1>8. CASE DialFails \/ Quiet \/ UNCHANGED vars
  BY <1>8 DEF DialFails, Quiet, vars, tableVars, guardVars, nodeVars, EntriesStay
<1> QED
  BY <1>2, <1>3, <1>4, <1>5, <1>6, <1>7, <1>8
  DEF Next, Reader, Handle, Writer, OffTable

\* As long as nothing is broadcast, no reader runs without an entry, so
\* MAX_PEERS bounds the receive buffers too.
THEOREM ReadersHold == Spec => []ReadersAreRegistered
<1>1. Init => EntriesStay
  BY DEF Init, EntriesStay, InReadLoop
<1>2. TypeOK /\ GuardInv /\ OwnEntry /\ EntriesStay /\ [Next]_vars => EntriesStay'
  BY EntriesStayStep
<1>3. OwnEntry /\ EntriesStay => ReadersAreRegistered
  BY DEF OwnEntry, EntriesStay, ReadersAreRegistered, HasSender
<1> QED BY <1>1, <1>2, <1>3, TypeCorrect, OwnEntryHolds, PTL DEF Spec
=============================================================================
