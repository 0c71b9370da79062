------------------------------ MODULE Loopback ------------------------------
(***************************************************************************)
(* Both ends of one TCP connection run this code: a node that dials itself *)
(* (nothing stops it, directly or through an address a peer advertised).   *)
(* Connections leaves what a peer sends to the environment; here what one  *)
(* end writes is what the other reads, through a wire of bounded capacity. *)
(*                                                                         *)
(* Two ends that are two nodes do the same, with a table each.  Bound: the *)
(* keep-alive ping that each end sends at once is the only one.            *)
(***************************************************************************)
EXTENDS Connections

CONSTANTS
  Near,       \* the end that dials
  Far,        \* the end that accepts
  CAPACITY    \* the messages the two socket buffers hold, each way

ASSUME LoopbackAssumption ==
  /\ Conn = {Near, Far} /\ Near # Far /\ Talkers = Conn
  /\ CAPACITY \in Nat \ {0}

VARIABLES
  wire,          \* what each end has written and the other has not read
  recv_buffer,   \* what each end has read and not yet parsed
  faulty         \* panics, failed calls and expired timeouts may happen

loopbackVars == <<vars, wire, recv_buffer, faulty>>

Other(c) == IF c = Near THEN Far ELSE Near

Untouched == UNCHANGED <<wire, recv_buffer, faulty>>

-----------------------------------------------------------------------------
\* The accepted end exists once the dialled one does.
Connect ==
  /\ Dial(Near) \/ (~ At(Near, "idle") /\ Accept(Far))
  /\ Untouched

Carry(c, type) ==
  /\ Len(wire[c]) < CAPACITY
  /\ wire' = [wire EXCEPT ![c] = Append(@, type)]
  /\ UNCHANGED <<recv_buffer, faulty>>

Write(c) ==
  \/ WriteOpening(c) /\ Carry(c, "version")
  \/ WritePing(c) /\ Carry(c, "ping")
  \/ WriteQueued(c) /\ Carry(c, Head(hand[c]).type)

\* The other end is gone, or the timeout expires on a wire it does not empty.
CannotWrite(c) ==
  /\ \/ faulty \/ socket[Other(c)] = "shut"
     \/ Len(wire[c]) = CAPACITY /\ stage[Other(c)] \notin InReadLoop
  /\ WriteFails(c) /\ Untouched

\* One read takes what has arrived, or part of it.
Receives(c) ==
  /\ ReadData(c)
  /\ \E n \in 1 .. Len(wire[Other(c)]) :
       /\ recv_buffer' = [recv_buffer EXCEPT ![c] = @ \o SubSeq(wire[Other(c)], 1, n)]
       /\ wire' = [wire EXCEPT ![Other(c)] = SubSeq(@, n + 1, Len(@))]
  /\ UNCHANGED faulty

\* A read waits, is told of the end, or fails.
ReceivesNothing(c) ==
  /\ \/ wire[Other(c)] = <<>> /\ ReadNothing(c)
     \/ wire[Other(c)] = <<>> /\ "shut" \in {socket[c], socket[Other(c)]} /\ ReadEof(c)
     \/ (faulty \/ "shut" \in {socket[c], socket[Other(c)]}) /\ ReadFails(c)
  /\ Untouched

Drains(c, type) ==
  /\ recv_buffer[c] # <<>> /\ Head(recv_buffer[c]) = type
  /\ recv_buffer' = [recv_buffer EXCEPT ![c] = Tail(@)]
  /\ UNCHANGED <<wire, faulty>>

OutOfTurn(c, type, event) ==
  /\ ~ Advances(pid[c], event)
  /\ HandleOutOfTurn(c) /\ Drains(c, type)

HandlesNext(c) ==
  \/ HandleVersion(c) /\ Drains(c, "version")
  \/ HandleVerack(c) /\ Drains(c, "verack")
  \/ HandlePing(c) /\ Drains(c, "ping")
  \/ HandlePong(c) /\ Drains(c, "pong")
  \/ OutOfTurn(c, "version", "Version") \/ OutOfTurn(c, "verack", "Verack")
  \/ recv_buffer[c] = <<>> /\ ParsedAll(c) /\ Untouched

\* One end's reader and one end's writer.
ReaderStep(c) ==
  /\ \/ Receives(c) \/ ReceivesNothing(c) \/ HandlesNext(c)
     \/ /\ \/ Open(c) \/ SetUp(c) \/ Deliver(c) \/ CheckHandshake(c)
           \/ Release(c) \/ Join(c) \/ Unwind(c)
        /\ Untouched
  /\ faulty \/ stage'[c] # "unwinding"

WriterStep(c) ==
  \/ Write(c) \/ CannotWrite(c)
  \/ /\ SkipPing(c) \/ Receive(c) \/ Disconnected(c) \/ ShutDown(c)
     /\ Untouched

Fault(c) ==
  /\ faulty
  /\ NoPeerAddr(c) \/ SetUpFails(c) \/ HandshakeFallsLate(c)
  /\ Untouched

LoopbackInit ==
  /\ Init
  /\ wire = [c \in Conn |-> <<>>]
  /\ recv_buffer = [c \in Conn |-> <<>>]
  /\ faulty \in BOOLEAN

LoopbackNext ==
  \/ Connect
  \/ \E c \in Conn : ReaderStep(c) \/ WriterStep(c) \/ Fault(c)
  \/ Quiet /\ Untouched

LoopbackSpec == LoopbackInit /\ [][LoopbackNext]_loopbackVars

\* The dial and the accept happen, and every thread is scheduled.
FairLoopback ==
  /\ LoopbackSpec
  /\ WF_loopbackVars(Connect)
  /\ \A c \in Conn : WF_loopbackVars(ReaderStep(c)) /\ WF_loopbackVars(WriterStep(c))

-----------------------------------------------------------------------------
(* Properties.                                                             *)

Event == [version |-> "Version", verack |-> "Verack"]

\* What this code sends its peer never refuses: whatever the two readers and
\* the two writers interleave, a version or a verack that a registered end
\* comes to parse is in turn.
HonestPeersInTurn ==
  \A c \in Conn :
    Framed(c) /\ HasSender(c) /\ recv_buffer[c] # <<>> /\ Head(recv_buffer[c]) \in DOMAIN Event
      => Advances(pid[c], Event[Head(recv_buffer[c])])

\* Ready is mutual: an end that has its peer for Ready is known to that peer,
\* which has handled its version unless it has already gone.
ReadyMeansHeard ==
  \A c \in Conn :
    HasSender(c) /\ handshake_of(pid[c]) = "Ready" /\ stage[Other(c)] \in InReadLoop
      => greeted[Other(c)] # <<>>

\* Two ends that run this code, with nothing failing and no deadline missed,
\* come to have each other for Ready and stay so: neither waits for the other
\* to speak first, and no queue or wire of that size stops them both.
HandshakeCompletes ==
  ~ faulty => <>[](\A c \in Conn : HasSender(c) /\ handshake_of(pid[c]) = "Ready")

\* src/node.rs on the nonce: "so a node can recognise a connection to itself".
\* Here the peer always is the node itself, and must not become Ready.
SelfConnectionRecognised ==
  \A c \in Conn : HasSender(c) => handshake_of(pid[c]) # "Ready"
=============================================================================
