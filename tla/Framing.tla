------------------------------ MODULE Framing ------------------------------
(***************************************************************************)
(* How the reader of one connection cuts the byte stream of its peer into  *)
(* messages: read_loop's receive buffer, process_incoming_bytes and        *)
(* try_parse_message, with the encoder the other end uses.                 *)
(*                                                                         *)
(* A stream is a sequence of units.  Every field of the 24-byte header     *)
(* (magic, command, payload size, checksum) is one unit, so reads still    *)
(* split headers as well as payloads; a nonce and a socket address are one *)
(* unit each, and the protocol version, which is read and never judged, is *)
(* left out of the version payload.                                        *)
(*                                                                         *)
(* The peer may use this code's own encoder or send anything at all.       *)
(* sent, said, babbled and handled are history variables.                  *)
(***************************************************************************)
EXTENDS Integers, SequencesExt

CONSTANTS
  MaxUnit,            \* the largest unit
  MAX_PAYLOAD_SIZE,   \* the largest payload size a header may claim
  READ_SIZE,          \* the length of read_loop's buffer
  Checksum(_),        \* the checksum of a payload
  MaxSent,            \* bound: units the peer sends
  MaxOwn,             \* bound: the same while an encoder wrote them all
  MaxBabble,          \* bound: units that no encoder wrote
  MaxWire             \* bound: the peer sends more when this few are in flight

Unit == 0 .. MaxUnit

Payload == UNION {[1 .. n -> Unit] : n \in 0 .. MAX_PAYLOAD_SIZE}

NONCE_LENGTH == 1
VERSION_PAYLOAD_LENGTH == 2

ASSUME FramingAssumption ==
  /\ READ_SIZE \in Nat \ {0}
  /\ MAX_PAYLOAD_SIZE \in Nat /\ MAX_PAYLOAD_SIZE >= VERSION_PAYLOAD_LENGTH
  /\ MaxUnit \in Nat /\ MaxUnit > MAX_PAYLOAD_SIZE /\ MaxUnit >= 4
  /\ \A p \in Payload : Checksum(p) \in Unit
  /\ MaxSent \in Nat /\ MaxOwn \in Nat /\ MaxBabble \in Nat /\ MaxWire \in Nat

VARIABLES
  wire,          \* units the peer has sent and the reader has not read
  recv_buffer,   \* read_loop's recv_buffer
  stage,         \* where the reader is
  sent,          \* history: every unit read so far
  said,          \* history: the messages the peer encoded
  babbled,       \* history: how many other units it sent
  handled        \* history: the frames given to handle_messages

peerVars == <<wire, said, babbled>>
readerVars == <<recv_buffer, stage, sent, handled>>
vars == <<peerVars, readerVars>>

-----------------------------------------------------------------------------
(* The encoder.                                                            *)

MAGIC_BYTES == 1

HEADER_LENGTH == 4

\* The four command names; every other unit is an unknown or ill-padded one.
PING_COMMAND_NAME == 0
PONG_COMMAND_NAME == 1
VERSION_COMMAND_NAME == 2
VERACK_COMMAND_NAME == 3

Commands == {PING_COMMAND_NAME, PONG_COMMAND_NAME,
             VERSION_COMMAND_NAME, VERACK_COMMAND_NAME}

\* Header::from_payload and Message::get_raw_format.
Frame(command, payload) ==
  <<MAGIC_BYTES, command, Len(payload), Checksum(payload)>> \o payload

\* The IPv6 addresses that carry an IPv4 one.  An IPv4 address is numbered
\* by the IPv6 address it is mapped to.
Mapped == {u \in Unit : u >= 3}

SocketAddr == [family : {"V4"}, ip : Mapped] \cup [family : {"V6"}, ip : Unit]

write_address(address) == address.ip

read_address_AlwaysV6(unit) == [family |-> "V6", ip |-> unit]

read_address(unit) ==
  [family |-> IF unit \in Mapped THEN "V4" ELSE "V6", ip |-> unit]

\* What the peer may say; a verack has neither nonce nor address.
Ping(n) == [command |-> PING_COMMAND_NAME, nonce |-> n]
Pong(n) == [command |-> PONG_COMMAND_NAME, nonce |-> n]
Version(n, a) == [command |-> VERSION_COMMAND_NAME, nonce |-> n, listen_address |-> a]
Verack == [command |-> VERACK_COMMAND_NAME]

Messages ==
  {Ping(n) : n \in Unit} \cup {Pong(n) : n \in Unit} \cup {Verack}
    \cup {Version(n, a) : n \in Unit, a \in SocketAddr}

\* The payload of each message.
PingFormat(m) == <<m.nonce>>
PongFormat(m) == <<m.nonce>>
VersionFormat(m) == <<m.nonce, write_address(m.listen_address)>>
VerackFormat == <<>>

get_raw_format(m) ==
  CASE m.command = PING_COMMAND_NAME -> PingFormat(m)
    [] m.command = PONG_COMMAND_NAME -> PongFormat(m)
    [] m.command = VERSION_COMMAND_NAME -> VersionFormat(m)
    [] OTHER -> VerackFormat

-----------------------------------------------------------------------------
(* The parser.                                                             *)

parse_raw_format(command, bytes) ==
  CASE command = PING_COMMAND_NAME -> Ping(bytes[1])
    [] command = PONG_COMMAND_NAME -> Pong(bytes[1])
    [] command = VERSION_COMMAND_NAME -> Version(bytes[1], read_address(bytes[2]))
    [] OTHER -> Verack

\* parse_raw_format returns Ok.  A ping or a pong may be longer than its
\* nonce: the rest is not looked at.
ParsesPing(bytes) == Len(bytes) >= NONCE_LENGTH
ParsesPong(bytes) == Len(bytes) >= NONCE_LENGTH
ParsesVersion(bytes) == Len(bytes) = VERSION_PAYLOAD_LENGTH
ParsesVerack(bytes) == bytes = <<>>

\* The match on the command: an unknown one is refused.
Parses(command, bytes) ==
  \/ command = PING_COMMAND_NAME /\ ParsesPing(bytes)
  \/ command = PONG_COMMAND_NAME /\ ParsesPong(bytes)
  \/ command = VERSION_COMMAND_NAME /\ ParsesVersion(bytes)
  \/ command = VERACK_COMMAND_NAME /\ ParsesVerack(bytes)

\* Header::from_raw_format.
magic_bytes(buffer) == buffer[1]
command_name(buffer) == buffer[2]
payload_size(buffer) == buffer[3]
checksum(buffer) == buffer[4]

bytes_read(buffer) == HEADER_LENGTH + payload_size(buffer)

PayloadOf(buffer) == SubSeq(buffer, HEADER_LENGTH + 1, bytes_read(buffer))

\* The checks that need the whole frame.
Valid(buffer) ==
  /\ checksum(buffer) = Checksum(PayloadOf(buffer))
  /\ Parses(command_name(buffer), PayloadOf(buffer))

try_parse_message_SizeLast(buffer) ==
  IF Len(buffer) < HEADER_LENGTH THEN "None"
  ELSE IF magic_bytes(buffer) # MAGIC_BYTES THEN "Err"
  ELSE IF Len(buffer) < bytes_read(buffer) THEN "None"
  ELSE IF payload_size(buffer) > MAX_PAYLOAD_SIZE THEN "Err"
  ELSE IF Valid(buffer) THEN "Some" ELSE "Err"

try_parse_message_OffByOne(buffer) ==
  IF Len(buffer) < HEADER_LENGTH THEN "None"
  ELSE IF magic_bytes(buffer) # MAGIC_BYTES THEN "Err"
  ELSE IF payload_size(buffer) > MAX_PAYLOAD_SIZE THEN "Err"
  ELSE IF Len(buffer) <= bytes_read(buffer) THEN "None"
  ELSE IF Valid(buffer) THEN "Some" ELSE "Err"

\* The size is judged before completeness: an absurd claim is refused, not
\* awaited.
try_parse_message(buffer) ==
  IF Len(buffer) < HEADER_LENGTH THEN "None"
  ELSE IF magic_bytes(buffer) # MAGIC_BYTES THEN "Err"
  ELSE IF payload_size(buffer) > MAX_PAYLOAD_SIZE THEN "Err"
  ELSE IF Len(buffer) < bytes_read(buffer) THEN "None"
  ELSE IF Valid(buffer) THEN "Some" ELSE "Err"

-----------------------------------------------------------------------------
(* The peer.                                                               *)

Room(n, limit) == Len(wire) <= MaxWire /\ Len(sent) + Len(wire) + n <= limit

Say(m) ==
  LET frame == Frame(m.command, get_raw_format(m))
  IN  /\ Room(Len(frame), IF babbled = 0 THEN MaxOwn ELSE MaxSent)
      /\ wire' = wire \o frame
      /\ said' = Append(said, m)
      /\ UNCHANGED <<babbled, readerVars>>

Babble(u) ==
  /\ Room(1, MaxSent)
  /\ babbled < MaxBabble
  /\ wire' = Append(wire, u)
  /\ babbled' = babbled + 1
  /\ UNCHANGED <<said, readerVars>>

-----------------------------------------------------------------------------
(* The reader.                                                             *)

\* One read, of whatever part of the stream has arrived.
Read(n) ==
  /\ stage = "reading"
  /\ n \in 1 .. Len(wire) /\ n <= READ_SIZE
  /\ recv_buffer' = recv_buffer \o SubSeq(wire, 1, n)
  /\ sent' = sent \o SubSeq(wire, 1, n)
  /\ wire' = SubSeq(wire, n + 1, Len(wire))
  /\ stage' = "parsing"
  /\ UNCHANGED <<said, babbled, handled>>

\* The end of the stream, an error, or the handshake deadline.
ReadEnds ==
  /\ stage = "reading"
  /\ stage' = "ended"
  /\ UNCHANGED <<peerVars, recv_buffer, sent, handled>>

AwaitMore ==
  /\ stage = "parsing"
  /\ try_parse_message(recv_buffer) = "None"
  /\ stage' = "reading"
  /\ UNCHANGED <<peerVars, recv_buffer, sent, handled>>

Refuse ==
  /\ stage = "parsing"
  /\ try_parse_message(recv_buffer) = "Err"
  /\ stage' = "refused"
  /\ UNCHANGED <<peerVars, recv_buffer, sent, handled>>

HandleFrame_ClearsBuffer ==
  /\ stage = "parsing"
  /\ try_parse_message(recv_buffer) = "Some"
  /\ recv_buffer' = <<>>
  /\ handled' = Append(handled, [command |-> command_name(recv_buffer),
                                 payload |-> PayloadOf(recv_buffer)])
  /\ stage' \in {"parsing", "ended"}
  /\ UNCHANGED <<peerVars, sent>>

\* The frame is drained before it is handled, and its handler may fail.
HandleFrame ==
  /\ stage = "parsing"
  /\ try_parse_message(recv_buffer) = "Some"
  /\ recv_buffer' = SubSeq(recv_buffer, bytes_read(recv_buffer) + 1, Len(recv_buffer))
  /\ handled' = Append(handled, [command |-> command_name(recv_buffer),
                                 payload |-> PayloadOf(recv_buffer)])
  /\ stage' \in {"parsing", "ended"}
  /\ UNCHANGED <<peerVars, sent>>

Gone == stage \in {"ended", "refused"} /\ UNCHANGED vars

-----------------------------------------------------------------------------
Init ==
  /\ wire = <<>> /\ recv_buffer = <<>> /\ stage = "reading"
  /\ sent = <<>> /\ said = <<>> /\ babbled = 0 /\ handled = <<>>

Next ==
  \/ \E m \in Messages : Say(m)
  \/ \E u \in Unit : Babble(u)
  \/ \E n \in 1 .. READ_SIZE : Read(n)
  \/ ReadEnds \/ AwaitMore \/ Refuse \/ HandleFrame \/ Gone

Spec == Init /\ [][Next]_vars

-----------------------------------------------------------------------------
(* Properties.                                                             *)

\* However reads split or join messages, the handled ones, encoded again and
\* followed by what is still buffered, are the stream: drain loses no unit
\* and consumes none twice, and only what the encoder could have produced
\* is handled.
StreamIsCovered ==
  FlattenSeq([i \in DOMAIN handled |-> Frame(handled[i].command, handled[i].payload)])
    \o recv_buffer = sent

\* The reader goes back to read, or gives up, only when no valid message is
\* left at the front of its buffer: a message is handled with the read that
\* completes it, also when one read brings several.
NoFrameLeft ==
  stage \in {"reading", "refused"} =>
    \A command \in Commands, payload \in Payload :
      Parses(command, payload) => ~ IsPrefix(Frame(command, payload), recv_buffer)

\* A buffer that awaits more can still become a message within the limit,
\* so a connection never holds a whole header and payload between reads
\* (the exposure MAX_PEERS multiplies), nor more than one read beyond that.
BufferBound ==
  /\ stage = "reading" => Len(recv_buffer) < HEADER_LENGTH + MAX_PAYLOAD_SIZE
  /\ Len(recv_buffer) < HEADER_LENGTH + MAX_PAYLOAD_SIZE + READ_SIZE

\* What the other end reads out of a message: the address an IPv6 socket
\* address maps, if it maps one.
AsRead(m) ==
  IF m.command = VERSION_COMMAND_NAME
    THEN [m EXCEPT !.listen_address.family = IF m.listen_address.ip \in Mapped THEN "V4" ELSE "V6"]
    ELSE m

\* A peer that only sends what this code encodes is never refused, and its
\* messages are handled in order, each with the nonce and the address it
\* was written with.
OwnEncodingUnderstood ==
  babbled = 0 =>
    /\ stage # "refused"
    /\ IsPrefix([i \in DOMAIN handled |-> parse_raw_format(handled[i].command, handled[i].payload)],
                [i \in DOMAIN said |-> AsRead(said[i])])
=============================================================================
