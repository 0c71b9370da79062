---------------------------- MODULE Connections ----------------------------
(***************************************************************************)
(* The connections of a running node (src/protocol.rs and the dialling in  *)
(* src/main.rs): for every TCP connection a reader thread that owns the    *)
(* peer's registration, and a writer thread that owns the receiving half   *)
(* of its outbound channel, over the shared peer table.                    *)
(*                                                                         *)
(* One step is one lock section, one channel operation or one system call  *)
(* of one thread.  The remote peers and the operating system are the       *)
(* environment: they send any message in any order, close, reset or stop   *)
(* reading at any time.  The inbound byte stream is abstracted to the      *)
(* messages it frames (Framing models the cutting); the reader picks the   *)
(* next one when it parses, and a peer may send for ever.                  *)
(*                                                                         *)
(* owed, greeted and first are history variables: they record what a       *)
(* connection did, and no guard reads them.                                *)
(***************************************************************************)
EXTENDS PeerTable

CONSTANTS
  Nonce,          \* ping nonces
  Dials,          \* config.addresses_to_connect, in order
  Talkers,        \* bound: the connections whose peers send anything
  Stallers,       \* bound: the connections whose peers may stop reading
  MaxBroadcasts   \* bound: broadcasts by the rest of the node

Conn == Channel   \* a channel is named by its connection

VARIABLES
  dials,     \* the addresses main has yet to dial
  casts,     \* broadcasts so far
  who,       \* the peer address and the origin each connection was spawned with
  pid,       \* the id in the connection's Registered guard
  stage,     \* where the connection's own (reader) thread is
  ready,     \* read_loop's latch
  reply,     \* the reply the reader is about to deliver
  writer,    \* where the writer thread is
  hand,      \* the queued message the writer has taken but not written
  socket,    \* "open", or "shut" by ShutdownOnDrop
  due,       \* now >= next_ping
  late,      \* now >= handshake_by
  stalled,   \* the peer stopped reading and the socket buffers are full
  owed,      \* history: answers to messages handled, less those written
  greeted,   \* history: the handshake messages accepted, oldest first
  first      \* history: the first thing written to the socket

nodeVars == <<dials, casts>>
guardVars == <<who, pid>>
loopVars == <<ready, reply>>
writerVars == <<writer, hand, socket>>
envVars == <<due, late, stalled>>
history == <<owed, greeted, first>>

vars == <<tableVars, nodeVars, guardVars, stage, loopVars, writerVars, envVars, history>>

NoPeer == -1

Nobody == [address |-> "none", origin |-> "none"]

\* What a connection writes besides pings: our version, the replies, and
\* what the rest of the node broadcasts.
Version == [type |-> "version"]
Verack == [type |-> "verack"]
Pong(n) == [type |-> "pong", nonce |-> n]
Block == [type |-> "block"]

Outbound == {Version, Verack, Block} \cup {Pong(n) : n \in Nonce}

ASSUME ConnectionsAssumption ==
  /\ Outbound \subseteq Message
  /\ Dials \in Seq(Address)
  /\ Talkers \subseteq Conn
  /\ Stallers \subseteq Conn
  /\ MaxBroadcasts \in Nat

InReadLoop == {"reading", "framed", "parsing", "replying", "checking"}

\* The stages in which the connection's thread holds a Registered guard.
Registered == {"setup", "dropping", "unwinding"} \cup InReadLoop

Stages == {"idle", "spawned", "joining", "done"} \cup Registered

WriterStages == {"none", "opening", "top", "recv", "writing", "closing", "ended"}

At(c, s) == stage[c] = s

GoTo(c, s) == stage' = [stage EXCEPT ![c] = s]

\* record prints before it locks, and println! panics when stdout is gone:
\* the thread goes on, or unwinds through its Registered guard.
RecordThen(c, s) == GoTo(c, s) \/ GoTo(c, "unwinding")

-----------------------------------------------------------------------------
(* main and listen: where connections come from.                           *)

Spawn(c, a, o) ==
  /\ At(c, "idle")
  /\ GoTo(c, "spawned")
  /\ who' = [who EXCEPT ![c] = [address |-> a, origin |-> o]]
  /\ UNCHANGED <<tableVars, casts, pid, loopVars, writerVars, envVars, history>>

\* main dials each configured address once, in order.
Dial(c) ==
  /\ dials # <<>>
  /\ dials' = Tail(dials)
  /\ Spawn(c, Head(dials), "Dialled")

\* TcpStream::connect fails: recorded, and never retried.
DialFails ==
  /\ dials # <<>>
  /\ dials' = Tail(dials)
  /\ UNCHANGED <<tableVars, casts, guardVars, stage, loopVars, writerVars, envVars, history>>

Accept(c) ==
  /\ \E a \in Address : Spawn(c, a, "Accepted")
  /\ UNCHANGED dials

-----------------------------------------------------------------------------
(* The connection's own thread.                                            *)

\* peer_addr fails: the connection is dropped before it has a channel.
NoPeerAddr(c) ==
  /\ At(c, "spawned")
  /\ GoTo(c, "done")
  /\ UNCHANGED <<tableVars, nodeVars, guardVars, loopVars, writerVars, envVars, history>>

Open(c) ==
  /\ At(c, "spawned")
  /\ register(c, who[c].address, who[c].origin)
  /\ IF Admits(who[c].address, who[c].origin)
       THEN pid' = [pid EXCEPT ![c] = next_id] /\ GoTo(c, "setup")
       ELSE UNCHANGED pid /\ GoTo(c, "done")
  /\ UNCHANGED <<nodeVars, who, loopVars, writerVars, envVars, history>>

SetUp_WithoutOpening(c) ==
  /\ At(c, "setup")
  /\ GoTo(c, "reading")
  /\ writer' = [writer EXCEPT ![c] = "top"]
  /\ UNCHANGED <<tableVars, nodeVars, guardVars, loopVars, hand, socket, envVars, history>>

SetUp_AcksAtOnce(c) ==
  /\ At(c, "setup")
  /\ send_to(pid[c], Verack)
  /\ GoTo(c, "reading")
  /\ writer' = [writer EXCEPT ![c] = "opening"]
  /\ UNCHANGED <<nodeVars, guardVars, loopVars, hand, socket, envVars, history>>

\* handle_connection up to the writer's spawn.
SetUp(c) ==
  /\ At(c, "setup")
  /\ GoTo(c, "reading")
  /\ writer' = [writer EXCEPT ![c] = "opening"]
  /\ UNCHANGED <<tableVars, nodeVars, guardVars, loopVars, hand, socket, envVars, history>>

\* One of its fallible calls fails before there is a writer, or there is no
\* thread for the writer and the spawn panics: the receiver goes with
\* handle_connection's frame, ahead of the guard.
SetUpFails(c) ==
  /\ At(c, "setup")
  /\ drop_receiver(c)
  /\ GoTo(c, "unwinding")
  /\ socket' = [socket EXCEPT ![c] = "shut"]
  /\ UNCHANGED <<nodeVars, guardVars, loopVars, writer, hand, envVars, history>>

\* What the steps of the read loop leave alone.
NotReading == UNCHANGED <<nodeVars, guardVars, writerVars, envVars, first>>

\* A read that completes a message, or that brings a malformed one.
ReadData(c) ==
  /\ At(c, "reading") /\ c \in Talkers
  /\ GoTo(c, "framed")
  /\ NotReading /\ UNCHANGED <<tableVars, loopVars, owed, greeted>>

\* Interrupted, the read timeout, or bytes that complete no message.
ReadNothing(c) ==
  /\ At(c, "reading") /\ socket[c] = "open"
  /\ GoTo(c, "checking")
  /\ NotReading /\ UNCHANGED <<tableVars, loopVars, owed, greeted>>

\* read returns Ok(0): the peer closed, or our own writer shut the socket.
ReadEof(c) ==
  /\ At(c, "reading")
  /\ RecordThen(c, "dropping")
  /\ NotReading /\ UNCHANGED <<tableVars, loopVars, owed, greeted>>

ReadFails(c) ==
  /\ At(c, "reading")
  /\ GoTo(c, "dropping")
  /\ NotReading /\ UNCHANGED <<tableVars, loopVars, owed, greeted>>

\* process_incoming_bytes has a frame at the front of its buffer: the one
\* the read completed, or another behind a message just handled.
Framed(c) == At(c, "framed") \/ At(c, "parsing")

\* The buffer holds no further complete message.
ParsedAll(c) ==
  /\ At(c, "parsing")
  /\ GoTo(c, "checking")
  /\ NotReading /\ UNCHANGED <<tableVars, loopVars, owed, greeted>>

\* try_parse_message refuses the buffer.
BadFrame(c) ==
  /\ Framed(c)
  /\ GoTo(c, "dropping")
  /\ NotReading /\ UNCHANGED <<tableVars, loopVars, owed, greeted>>

Promise(c, m) ==
  /\ reply' = [reply EXCEPT ![c] = <<m>>]
  /\ owed' = [owed EXCEPT ![c] = Append(@, m)]

HandleVersion_OnlyDialledAcks(c) ==
  /\ Framed(c)
  /\ Advances(pid[c], "Version")
  /\ advance_handshake(pid[c], "Version")
  /\ greeted' = [greeted EXCEPT ![c] = Append(@, "Version")]
  /\ IF who[c].origin = "Dialled"
       THEN RecordThen(c, "replying") /\ Promise(c, Verack)
       ELSE RecordThen(c, "parsing") /\ UNCHANGED <<reply, owed>>
  /\ NotReading /\ UNCHANGED ready

HandleVersion(c) ==
  /\ Framed(c)
  /\ Advances(pid[c], "Version")
  /\ advance_handshake(pid[c], "Version")
  /\ RecordThen(c, "replying")
  /\ Promise(c, Verack)
  /\ greeted' = [greeted EXCEPT ![c] = Append(@, "Version")]
  /\ NotReading /\ UNCHANGED ready

HandleVerack_Acks(c) ==
  /\ Framed(c)
  /\ Advances(pid[c], "Verack")
  /\ advance_handshake(pid[c], "Verack")
  /\ RecordThen(c, "replying")
  /\ Promise(c, Verack)
  /\ greeted' = [greeted EXCEPT ![c] = Append(@, "Verack")]
  /\ NotReading /\ UNCHANGED ready

HandleVerack(c) ==
  /\ Framed(c)
  /\ Advances(pid[c], "Verack")
  /\ advance_handshake(pid[c], "Verack")
  /\ RecordThen(c, "parsing")
  /\ greeted' = [greeted EXCEPT ![c] = Append(@, "Verack")]
  /\ NotReading /\ UNCHANGED <<ready, reply, owed>>

\* advance_handshake refuses a message that is out of turn, or whose sender
\* has meanwhile been evicted.
HandleOutOfTurn(c) ==
  /\ Framed(c)
  /\ \E e \in HandshakeEvent : ~ Advances(pid[c], e) /\ advance_handshake(pid[c], e)
  /\ GoTo(c, "dropping")
  /\ NotReading /\ UNCHANGED <<ready, reply, owed, greeted>>

\* A ping is answered before, during and after the handshake.
HandlePing(c) ==
  /\ Framed(c)
  /\ \E n \in Nonce : Promise(c, Pong(n))
  /\ RecordThen(c, "replying")
  /\ NotReading /\ UNCHANGED <<tableVars, ready, greeted>>

HandlePong(c) ==
  /\ Framed(c)
  /\ RecordThen(c, "parsing")
  /\ NotReading /\ UNCHANGED <<tableVars, ready, reply, owed, greeted>>

Deliver_IgnoresRefusal(c) ==
  /\ At(c, "replying")
  /\ send_to(pid[c], Head(reply[c]))
  /\ reply' = [reply EXCEPT ![c] = <<>>]
  /\ GoTo(c, "parsing")
  /\ NotReading /\ UNCHANGED <<ready, owed, greeted>>

Deliver_DropsWhenFull(c) ==
  /\ At(c, "replying")
  /\ IF Reaches(pid[c]) THEN send_to(pid[c], Head(reply[c])) ELSE UNCHANGED tableVars
  /\ reply' = [reply EXCEPT ![c] = <<>>]
  /\ GoTo(c, "parsing")
  /\ NotReading /\ UNCHANGED <<ready, owed, greeted>>

\* Registered::deliver: a reply the peer's channel refuses ends the connection.
Deliver(c) ==
  /\ At(c, "replying")
  /\ send_to(pid[c], Head(reply[c]))
  /\ reply' = [reply EXCEPT ![c] = <<>>]
  /\ GoTo(c, IF Reaches(pid[c]) THEN "parsing" ELSE "dropping")
  /\ NotReading /\ UNCHANGED <<ready, owed, greeted>>

CheckHandshake_StaleLatch(c) ==
  /\ At(c, "checking")
  /\ ready' = [ready EXCEPT ![c] = @ \/ handshake_of(pid[c]) = "Ready"]
  /\ GoTo(c, IF ~ ready[c] /\ late[c] THEN "dropping" ELSE "reading")
  /\ NotReading /\ UNCHANGED <<tableVars, reply, owed, greeted>>

CheckHandshake_NoDeadline(c) ==
  /\ At(c, "checking")
  /\ ready' = [ready EXCEPT ![c] = @ \/ handshake_of(pid[c]) = "Ready"]
  /\ GoTo(c, "reading")
  /\ NotReading /\ UNCHANGED <<tableVars, reply, owed, greeted>>

\* The foot of read_loop: the latch, then the absolute deadline.
CheckHandshake(c) ==
  /\ At(c, "checking")
  /\ ready' = [ready EXCEPT ![c] = @ \/ handshake_of(pid[c]) = "Ready"]
  /\ GoTo(c, IF ~ ready'[c] /\ late[c] THEN "dropping" ELSE "reading")
  /\ NotReading /\ UNCHANGED <<tableVars, reply, owed, greeted>>

\* read_loop has returned, so its variables and its clock are gone.
LeaveReadLoop(c) ==
  /\ ready' = [ready EXCEPT ![c] = FALSE]
  /\ reply' = [reply EXCEPT ![c] = <<>>]
  /\ late' = [late EXCEPT ![c] = FALSE]
  /\ greeted' = [greeted EXCEPT ![c] = <<>>]
  /\ UNCHANGED <<nodeVars, guardVars, writerVars, due, stalled, owed, first>>

Release_ByAddress(c) ==
  /\ At(c, "dropping")
  /\ peers' = Without({id \in DOMAIN peers : peers[id].address = who[c].address})
  /\ UNCHANGED <<next_id, queue, receiver>>
  /\ GoTo(c, "joining")
  /\ LeaveReadLoop(c)

\* drop(registered), before the join.
Release(c) ==
  /\ At(c, "dropping")
  /\ remove(pid[c])
  /\ GoTo(c, "joining")
  /\ LeaveReadLoop(c)

Join(c) ==
  /\ At(c, "joining")
  /\ writer[c] = "ended"
  /\ GoTo(c, "done")
  /\ NotReading /\ UNCHANGED <<tableVars, loopVars, owed, greeted>>

Unwind_LeavesEntry(c) ==
  /\ At(c, "unwinding")
  /\ UNCHANGED tableVars
  /\ GoTo(c, "done")
  /\ LeaveReadLoop(c)

\* The guard's drop while a panic or an early return unwinds: no join.
Unwind(c) ==
  /\ At(c, "unwinding")
  /\ remove(pid[c])
  /\ GoTo(c, "done")
  /\ LeaveReadLoop(c)

-----------------------------------------------------------------------------
(* The writer thread.                                                      *)

WriterAt(c, s) == writer[c] = s

WriterGoTo(c, s) == writer' = [writer EXCEPT ![c] = s]

\* What the steps of the writer leave alone.
NotWriting == UNCHANGED <<nodeVars, guardVars, stage, loopVars, late, stalled, greeted>>

Writes(c, m) ==
  /\ ~ stalled[c]
  /\ first' = [first EXCEPT ![c] = IF @ = "nothing" THEN m ELSE @]

WriteOpening(c) ==
  /\ WriterAt(c, "opening")
  /\ Writes(c, "version")
  /\ WriterGoTo(c, "top")
  /\ due' = [due EXCEPT ![c] = TRUE]
  /\ NotWriting /\ UNCHANGED <<tableVars, hand, socket, owed>>

WritePing(c) ==
  /\ WriterAt(c, "top") /\ due[c]
  /\ Writes(c, "ping")
  /\ WriterGoTo(c, "recv")
  /\ due' = [due EXCEPT ![c] = FALSE]
  /\ NotWriting /\ UNCHANGED <<tableVars, hand, socket, owed>>

SkipPing(c) ==
  /\ WriterAt(c, "top") /\ ~ due[c]
  /\ WriterGoTo(c, "recv")
  /\ NotWriting /\ UNCHANGED <<tableVars, hand, socket, due, owed, first>>

Receive(c) ==
  /\ WriterAt(c, "recv")
  /\ recv(c)
  /\ hand' = [hand EXCEPT ![c] = <<Head(queue[c])>>]
  /\ WriterGoTo(c, "writing")
  /\ NotWriting /\ UNCHANGED <<socket, due, owed, first>>

ReceiveTimeout(c) ==
  /\ WriterAt(c, "recv")
  /\ queue[c] = <<>> /\ HasSender(c) /\ due[c]
  /\ WriterGoTo(c, "top")
  /\ NotWriting /\ UNCHANGED <<tableVars, hand, socket, due, owed, first>>

WriteQueued(c) ==
  /\ WriterAt(c, "writing")
  /\ Writes(c, Head(hand[c]).type)
  /\ WriterGoTo(c, "top")
  /\ hand' = [hand EXCEPT ![c] = <<>>]
  /\ owed' = [owed EXCEPT ![c] = IF hand[c] = <<Block>> \/ @ = <<>> THEN @ ELSE Tail(@)]
  /\ NotWriting /\ UNCHANGED <<tableVars, socket, due>>

\* write_loop returns: its receiver, its clock and what it held are dropped,
\* and with them every answer not yet written.
LeaveWriteLoop(c) ==
  /\ drop_receiver(c)
  /\ WriterGoTo(c, "closing")
  /\ hand' = [hand EXCEPT ![c] = <<>>]
  /\ due' = [due EXCEPT ![c] = FALSE]
  /\ owed' = [owed EXCEPT ![c] = <<>>]
  /\ NotWriting /\ UNCHANGED <<socket, first>>

WriteFails_NoTimeout(c) ==
  /\ \/ WriterAt(c, "opening")
     \/ WriterAt(c, "top") /\ due[c]
     \/ WriterAt(c, "writing")
  /\ ~ stalled[c]
  /\ LeaveWriteLoop(c)

\* write_all fails, at the latest after WRITE_TIMEOUT without progress.
WriteFails(c) ==
  /\ \/ WriterAt(c, "opening")
     \/ WriterAt(c, "top") /\ due[c]
     \/ WriterAt(c, "writing")
  /\ LeaveWriteLoop(c)

\* The only sender is gone and the buffer is drained.
Disconnected(c) ==
  /\ WriterAt(c, "recv")
  /\ queue[c] = <<>> /\ ~ HasSender(c)
  /\ LeaveWriteLoop(c)

ShutDown_LeavesSocket(c) ==
  /\ WriterAt(c, "closing")
  /\ WriterGoTo(c, "ended")
  /\ NotWriting /\ UNCHANGED <<tableVars, hand, socket, due, owed, first>>

\* ShutdownOnDrop, when the thread's closure is dropped.
ShutDown(c) ==
  /\ WriterAt(c, "closing")
  /\ WriterGoTo(c, "ended")
  /\ socket' = [socket EXCEPT ![c] = "shut"]
  /\ NotWriting /\ UNCHANGED <<tableVars, hand, due, owed, first>>

-----------------------------------------------------------------------------
(* Time, the peers' reading, and the rest of the node.                     *)

PingFallsDue(c) ==
  /\ writer[c] \in {"top", "recv", "writing"} /\ ~ due[c]
  /\ due' = [due EXCEPT ![c] = TRUE]
  /\ UNCHANGED <<tableVars, nodeVars, guardVars, stage, loopVars, writerVars,
                 late, stalled, history>>

\* Only while it can matter: a settled connection no longer looks.
HandshakeFallsLate(c) ==
  /\ stage[c] \in InReadLoop /\ ~ ready[c] /\ ~ late[c]
  /\ late' = [late EXCEPT ![c] = TRUE]
  /\ UNCHANGED <<tableVars, nodeVars, guardVars, stage, loopVars, writerVars,
                 due, stalled, history>>

PeerStalls(c) ==
  /\ c \in Stallers
  /\ writer[c] \in {"opening", "top", "recv", "writing"} /\ ~ stalled[c]
  /\ stalled' = [stalled EXCEPT ![c] = TRUE]
  /\ UNCHANGED <<tableVars, nodeVars, guardVars, stage, loopVars, writerVars,
                 due, late, history>>

Broadcast ==
  /\ casts < MaxBroadcasts
  /\ casts' = casts + 1
  /\ broadcast(Block)
  /\ UNCHANGED <<dials, guardVars, stage, loopVars, writerVars, envVars, history>>

\* Nothing left to do: main is parked on the listener and no peer connects.
Quiet ==
  /\ dials = <<>>
  /\ \A c \in Conn : At(c, "done") /\ writer[c] \in {"none", "ended"}
  /\ UNCHANGED vars

-----------------------------------------------------------------------------
Init ==
  /\ TableInit
  /\ dials = Dials
  /\ casts = 0
  /\ who = [c \in Conn |-> Nobody]
  /\ pid = [c \in Conn |-> NoPeer]
  /\ stage = [c \in Conn |-> "idle"]
  /\ ready = [c \in Conn |-> FALSE]
  /\ reply = [c \in Conn |-> <<>>]
  /\ writer = [c \in Conn |-> "none"]
  /\ hand = [c \in Conn |-> <<>>]
  /\ socket = [c \in Conn |-> "open"]
  /\ due = [c \in Conn |-> FALSE]
  /\ late = [c \in Conn |-> FALSE]
  /\ stalled = [c \in Conn |-> FALSE]
  /\ owed = [c \in Conn |-> <<>>]
  /\ greeted = [c \in Conn |-> <<>>]
  /\ first = [c \in Conn |-> "nothing"]

Read(c) == ReadData(c) \/ ReadNothing(c) \/ ReadEof(c) \/ ReadFails(c)

Handle(c) ==
  \/ HandleVersion(c) \/ HandleVerack(c) \/ HandleOutOfTurn(c)
  \/ HandlePing(c) \/ HandlePong(c)
  \/ Deliver(c) \/ BadFrame(c) \/ ParsedAll(c)

Reader(c) ==
  \/ NoPeerAddr(c) \/ Open(c) \/ SetUp(c) \/ SetUpFails(c)
  \/ Read(c) \/ Handle(c) \/ CheckHandshake(c)
  \/ Release(c) \/ Join(c) \/ Unwind(c)

Writer(c) ==
  \/ WriteOpening(c) \/ WritePing(c) \/ SkipPing(c)
  \/ Receive(c) \/ ReceiveTimeout(c) \/ WriteQueued(c)
  \/ WriteFails(c) \/ Disconnected(c) \/ ShutDown(c)

Next ==
  \/ \E c \in Conn : \/ Dial(c) \/ Accept(c) \/ Reader(c) \/ Writer(c)
                     \/ PingFallsDue(c) \/ HandshakeFallsLate(c) \/ PeerStalls(c)
  \/ DialFails
  \/ Broadcast
  \/ Quiet

\* Threads are scheduled.  A blocked read returns within HANDSHAKE_TIMEOUT
\* and a blocked write within WRITE_TIMEOUT, so their steps are never held
\* up for ever, and time passes.  The strong fairness says that data is
\* finite: one read brings at most a buffer of messages, and a socket that
\* we shut has an end.  Nothing is assumed of a peer.
Fairness ==
  \A c \in Conn :
    /\ WF_vars(Reader(c))
    /\ WF_vars(Writer(c))
    /\ WF_vars(PingFallsDue(c))
    /\ WF_vars(HandshakeFallsLate(c))
    /\ SF_vars(ParsedAll(c))
    /\ SF_vars(socket[c] = "shut" /\ (ReadEof(c) \/ ReadFails(c)))

Spec == Init /\ [][Next]_vars

FairSpec == Spec /\ Fairness

-----------------------------------------------------------------------------
(* Properties.                                                             *)

\* Where the threads are and whom they serve.
ControlTypeOK ==
  /\ dials \in Seq(Address) /\ casts \in Nat
  /\ who \in [Conn -> [address : Address, origin : Origin] \cup {Nobody}]
  /\ pid \in [Conn -> Nat \cup {NoPeer}]
  /\ stage \in [Conn -> Stages] /\ writer \in [Conn -> WriterStages]
  /\ socket \in [Conn -> {"open", "shut"}]

FlagsTypeOK ==
  /\ ready \in [Conn -> BOOLEAN] /\ stalled \in [Conn -> BOOLEAN]
  /\ due \in [Conn -> BOOLEAN] /\ late \in [Conn -> BOOLEAN]

\* The messages the threads hold: the reader a reply while it delivers one,
\* the writer a message just while it writes it.
BuffersTypeOK ==
  /\ reply \in [Conn -> Seq(Message)] /\ hand \in [Conn -> Seq(Message)]
  /\ owed \in [Conn -> Seq(Message)] /\ greeted \in [Conn -> Seq(HandshakeEvent)]
  /\ \A c \in Conn : hand[c] = <<>> <=> writer[c] # "writing"
  /\ \A c \in Conn : stage[c] = "replying" => reply[c] # <<>>

\* The shape of the table, the channels and the threads.
TypeOK == TableTypeOK /\ ControlTypeOK /\ FlagsTypeOK /\ BuffersTypeOK

\* Every entry of the table belongs to a connection whose thread still holds
\* the guard that will remove it: whatever ended a connection, it left no
\* entry behind to hold a slot, block a redial or keep a writer alive.
NoOrphanEntry ==
  \A id \in DOMAIN peers :
    LET c == peers[id].outbound
    IN  /\ pid[c] = id
        /\ stage[c] \in Registered
        /\ peers[id].address = who[c].address
        /\ peers[id].origin = who[c].origin

\* Our version goes out ahead of anything else, ping, reply or broadcast,
\* although a peer may be answered and broadcast to before it is written.
OpeningFirst == \A c \in Conn : first[c] \in {"nothing", "version"}

\* How many of the first i messages of s are answers, not broadcasts.
Answers(s, i) == Cardinality({k \in 1 .. i : s[k] # Block})

\* Broadcasts aside, s is the front of what is owed.
OldestOwed(s, debt) ==
  \A i \in DOMAIN s :
    s[i] # Block => Answers(s, i) <= Len(debt) /\ s[i] = debt[Answers(s, i)]

\* What is owed is the answers in s and those in rest behind them, no more.
AllOwed(s, rest, debt) ==
  /\ Len(debt) = Answers(s, Len(s)) + Len(rest)
  /\ \A i \in DOMAIN rest : rest[i] = debt[Answers(s, Len(s)) + i]

\* What the writer still has for a peer is, broadcasts aside, the oldest
\* answers it is owed, in the order of its questions, even while it drains
\* the queue of a connection that has lost its entry.  While both halves of a
\* registered connection live it is all of them: every answer is in the
\* writer's hand, queued or about to be delivered, exactly once.
RepliesInOrder ==
  \A c \in Conn :
    LET kept == hand[c] \o queue[c]
    IN  /\ OldestOwed(kept, owed[c])
        /\ stage[c] \in InReadLoop /\ HasSender(c) /\ receiver[c] = "live"
             => AllOwed(kept, reply[c], owed[c])

\* The handshake a node shows for a peer is what that peer actually sent:
\* one version, then one verack; the reader's latch agrees.
HandshakeIsEarned ==
  /\ \A id \in DOMAIN peers :
       LET g == greeted[peers[id].outbound]
       IN  /\ peers[id].handshake = "AwaitingVersion" => g = <<>>
           /\ peers[id].handshake = "AwaitingVerack" => g = <<"Version">>
           /\ peers[id].handshake = "Ready" => g = <<"Version", "Verack">>
  /\ \A c \in Conn : ready[c] => greeted[c] = <<"Version", "Verack">>

\* The handshake deadline never costs a peer its entry once that peer has
\* completed the handshake, however late the reader comes to look.
DeadlineSparesReadyPeers ==
  [][\A c \in Conn :
        stage[c] = "checking" /\ stage'[c] = "dropping" /\ HasSender(c)
          => greeted[c] # <<"Version", "Verack">>]_vars

\* An entry leaves the table only through its own connection's teardown or
\* because its own channel refuses a message, never through what another
\* connection does.
OnlyOwnTeardown ==
  [][\A id \in DOMAIN peers \ DOMAIN peers' :
        LET c == peers[id].outbound
        IN  stage[c] \in {"dropping", "unwinding"} \/ ~ Accepts(c)]_vars

\* A connection that has lost its entry, by its own teardown or by a
\* broadcast that evicts it behind its reader's back, is finished with: all
\* its writer still sends is what was queued before, although the reader may
\* be about to deliver an answer, and no handshake message that comes in
\* meanwhile is taken for a step forward.
EvictedPeerIsDone ==
  [][\A c \in Conn :
        pid[c] # NoPeer /\ ~ HasSender(c) =>
          /\ \/ queue'[c] \in {queue[c], <<>>}
             \/ queue[c] # <<>> /\ queue'[c] = Tail(queue[c])
          /\ greeted'[c] \in {greeted[c], <<>>}]_vars

\* Whichever half of a connection goes first, by losing its entry or its
\* receiver, the other follows: both threads end and the entry is gone.
BothHalvesEnd ==
  \A c \in Conn :
    pid[c] # NoPeer /\ (~ HasSender(c) \/ receiver[c] = "dropped")
      ~> At(c, "done") /\ writer[c] \in {"none", "ended"} /\ ~ HasSender(c)

\* A peer that stops reading loses its slot, even if nothing is broadcast.
StalledPeerDropped == \A c \in Conn : stalled[c] ~> ~ HasSender(c)

\* Only connections in the table read: until a broadcast evicts one behind
\* its back (nothing calls broadcast today), a reader, and the receive buffer
\* that MAX_PEERS is there to multiply, never runs without its entry.
ReadersAreRegistered ==
  casts = 0 => \A c \in Conn : stage[c] \in InReadLoop => HasSender(c)

-----------------------------------------------------------------------------
(* What the connections implement.                                         *)

Standing ==
  [c \in Conn |->
     IF HasSender(c)
       THEN IF handshake_of(pid[c]) = "Ready" THEN "ready" ELSE "greeting"
       ELSE IF pid[c] = NoPeer THEN "out" ELSE "gone"]

DialledTo ==
  [c \in Conn |-> IF HasSender(c) /\ who[c].origin = "Dialled"
                   THEN who[c].address ELSE "none"]

Lifecycle == INSTANCE PeerLifecycle
               WITH standing <- Standing, dialledTo <- DialledTo

\* The threads, the table and the channels together implement PeerLifecycle:
\* seats are counted and dials deduplicated, what left stays gone, and no
\* seat is held for ever without a handshake.
ImplementsLifecycle == Lifecycle!LiveSpec

\* The safety half of the same.
LifecycleSafety == Lifecycle!Spec
=============================================================================
