----------------------------- MODULE WireProofs ----------------------------
(***************************************************************************)
(* What is read is what was written, at the three levels of the wire       *)
(* format: the messages of a stream, the fields of a payload and the       *)
(* transactions of a block, for every payload limit, read size, checksum   *)
(* and set of values.                                                      *)
(*                                                                         *)
(* The messages.  The receive buffer is bounded and no valid message is    *)
(* left in it, by an invariant about what the last parse said: a reader    *)
(* that reads again was told that the buffer is incomplete, one that gave  *)
(* up that it is in error.  That the frames handled and the buffer are     *)
(* together the stream, and that this code's own encoding is understood,   *)
(* are about sequences of frames joined, so the module first proves what   *)
(* FlattenSeq computes.                                                    *)
(*                                                                         *)
(* The fields.  Every read gives the cursor back inside the bytes it was   *)
(* given (CursorInv), and the padding that parsing a name strips is the    *)
(* padding that writing one adds.  A number is read from its last byte     *)
(* down, and what has been read is the number divided by the power of the  *)
(* base that is left.                                                      *)
(*                                                                         *)
(* The transactions.  WhatWasRead follows a parse backwards: what has been *)
(* read is the encoding of what has been found.  OwnFollowed follows one   *)
(* forwards: in an encoding of this code, what has been found is a part of *)
(* what was written, and what is left is the encoding of the rest.         *)
(***************************************************************************)
EXTENDS Framing, ByteReader, Transaction, SequenceTheorems, WellFoundedInduction, TLAPS

(* Joining sequences.                                                      *)

\* A set of numbers has a least element: every induction below looks at the
\* least counterexample.
LEMMA LeastNumber ==
  ASSUME NEW T \in SUBSET Nat, T # {}
  PROVE  \E k \in T : \A j \in T : k <= j
<1>1. PICK k \in T : \A j \in T : ~ (<<j, k>> \in OpToRel(<, Nat))
  BY NatLessThanWellFounded, WFMin
<1>2. \A j \in T : <<j, k>> \in Nat \X Nat /\ <<j, k>>[1] = j /\ <<j, k>>[2] = k
  OBVIOUS
<1>3. \A j \in T : ~ (j < k)
  BY <1>1, <1>2 DEF OpToRel
<1> QED BY <1>3

\* f holds, at every place up to n, what seqs up to that place joins to: what
\* the recursion of FlattenSeq computes.
Joins(f, seqs, n) ==
  \A i \in 1 .. n : f[i] = IF i = 1 THEN seqs[1] ELSE f[i - 1] \o seqs[i]

\* There is such a function, so the recursion defines one.
LEMMA JoinsExist ==
  ASSUME NEW S, NEW seqs \in Seq(Seq(S))
  PROVE  \A n \in 0 .. Len(seqs) : \E f \in [1 .. n -> Seq(S)] : Joins(f, seqs, n)
<1> DEFINE Good(n) == \E f \in [1 .. n -> Seq(S)] : Joins(f, seqs, n)
           Bad == {n \in 0 .. Len(seqs) : ~ Good(n)}
<1>1. SUFFICES ASSUME Bad # {} PROVE FALSE
  OBVIOUS
<1>2. Len(seqs) \in Nat /\ Bad \subseteq Nat
  OBVIOUS
<1>3. PICK n \in Bad : \A j \in Bad : n <= j
  <2> HIDE DEF Bad
  <2> QED BY <1>1, <1>2, LeastNumber
<1>4. n # 0
  <2>1. Good(0)
    <3>1. [i \in 1 .. 0 |-> seqs] \in [1 .. 0 -> Seq(S)] /\ Joins([i \in 1 .. 0 |-> seqs], seqs, 0)
      BY DEF Joins
    <3> QED BY <3>1
  <2> QED BY <2>1
<1>5. n - 1 \in 0 .. Len(seqs) /\ n \in 1 .. Len(seqs)
  BY <1>2, <1>3, <1>4
<1>6. Good(n - 1)
  <2>1. n - 1 \notin Bad
    <3> HIDE DEF Bad
    <3>1. ~ (n <= n - 1)
      BY <1>5
    <3> QED BY <1>3, <3>1
  <2> QED BY <1>5, <2>1
<1>7. PICK f \in [1 .. n - 1 -> Seq(S)] : Joins(f, seqs, n - 1)
  BY <1>6
<1> DEFINE g == [i \in 1 .. n |-> IF i < n THEN f[i] ELSE IF n = 1 THEN seqs[1] ELSE f[n - 1] \o seqs[n]]
<1>8. seqs[n] \in Seq(S) /\ seqs[1] \in Seq(S)
  BY <1>5
<1>9. g \in [1 .. n -> Seq(S)]
  BY <1>5, <1>7, <1>8
<1>10. Joins(g, seqs, n)
  <2>1. ASSUME NEW i \in 1 .. n, i < n
        PROVE  g[i] = IF i = 1 THEN seqs[1] ELSE g[i - 1] \o seqs[i]
    <3>1. i \in 1 .. n - 1 /\ (i # 1 => i - 1 \in 1 .. n - 1 /\ i - 1 \in 1 .. n /\ i - 1 < n)
      BY <1>5, <2>1
    <3>2. f[i] = IF i = 1 THEN seqs[1] ELSE f[i - 1] \o seqs[i]
      BY <1>7, <3>1 DEF Joins
    <3> QED BY <2>1, <3>1, <3>2
  <2>2. g[n] = IF n = 1 THEN seqs[1] ELSE g[n - 1] \o seqs[n]
    BY <1>5
  <2>3. \A i \in 1 .. n : i < n \/ i = n
    BY <1>5
  <2> QED BY <2>1, <2>2, <2>3 DEF Joins
<1> QED BY <1>3, <1>9, <1>10

\* And only one.
LEMMA FlattenIs ==
  ASSUME NEW S, NEW seqs \in Seq(Seq(S)), Len(seqs) > 0,
         NEW f \in [1 .. Len(seqs) -> Seq(S)], Joins(f, seqs, Len(seqs))
  PROVE  FlattenSeq(seqs) = f[Len(seqs)]
<1> DEFINE n == Len(seqs)
           h == CHOOSE g : g = [i \in 1 .. n |-> IF i = 1 THEN seqs[i] ELSE g[i - 1] \o seqs[i]]
<1>1. FlattenSeq(seqs) = h[n]
  BY DEF FlattenSeq
<1>2. f = [i \in 1 .. n |-> IF i = 1 THEN seqs[i] ELSE f[i - 1] \o seqs[i]]
  BY DEF Joins
<1>3. h = [i \in 1 .. n |-> IF i = 1 THEN seqs[i] ELSE h[i - 1] \o seqs[i]]
  BY <1>2
<1> HIDE DEF h
<1> DEFINE Bad == {i \in 1 .. n : h[i] # f[i]}
<1>4. ASSUME Bad # {}
      PROVE  FALSE
  <2>1. PICK i \in Bad : \A j \in Bad : i <= j
    <3>1. Bad \subseteq Nat
      OBVIOUS
    <3> HIDE DEF Bad
    <3> QED BY <1>4, <3>1, LeastNumber
  <2>2. i \in 1 .. n /\ h[i] # f[i] /\ n \in Nat
    BY <2>1
  <2>3. h[i] = IF i = 1 THEN seqs[1] ELSE h[i - 1] \o seqs[i]
    BY <1>3, <2>2
  <2>4. f[i] = IF i = 1 THEN seqs[1] ELSE f[i - 1] \o seqs[i]
    BY <2>2 DEF Joins
  <2>5. i # 1 => h[i - 1] = f[i - 1]
    BY <2>1, <2>2
  <2> QED BY <2>2, <2>3, <2>4, <2>5
<1>5. n \in 1 .. n
  OBVIOUS
<1> QED BY <1>1, <1>4, <1>5

\* One sequence more at the back is joined to the back.
LEMMA FlattenAppend ==
  ASSUME NEW S, NEW seqs \in Seq(Seq(S)), NEW x \in Seq(S)
  PROVE  /\ FlattenSeq(seqs) \in Seq(S)
         /\ FlattenSeq(Append(seqs, x)) = FlattenSeq(seqs) \o x
<1> DEFINE more == Append(seqs, x)
           n == Len(seqs)
<1>1. /\ more \in Seq(Seq(S)) /\ Len(more) = n + 1 /\ more[n + 1] = x
      /\ n \in Nat /\ \A i \in 1 .. n : more[i] = seqs[i]
  OBVIOUS
<1> HIDE DEF more
<1>2. PICK f \in [1 .. n + 1 -> Seq(S)] : Joins(f, more, n + 1)
  <2>1. n + 1 \in 0 .. Len(more)
    BY <1>1
  <2> QED BY <1>1, <2>1, JoinsExist
<1>3. FlattenSeq(more) = f[n + 1]
  BY <1>1, <1>2, FlattenIs
<1>4. CASE n = 0
  <2>1. FlattenSeq(seqs) = <<>>
    BY <1>4 DEF FlattenSeq
  <2>2. f[n + 1] = x
    BY <1>1, <1>2, <1>4 DEF Joins
  <2> QED BY <1>3, <2>1, <2>2 DEF more
<1>5. CASE n # 0
  <2> DEFINE g == [i \in 1 .. n |-> f[i]]
  <2>1. \A i \in 1 .. n + 1 : f[i] = IF i = 1 THEN more[1] ELSE f[i - 1] \o more[i]
    BY <1>2 DEF Joins
  <2>2. n > 0 /\ \A i \in 1 .. n : i \in 1 .. n + 1 /\ more[i] = seqs[i] /\ (i # 1 => i - 1 \in 1 .. n)
    BY <1>1, <1>5
  <2> HIDE DEF n
  <2>3. g \in [1 .. n -> Seq(S)]
    BY <2>2
  <2>4. ASSUME NEW i \in 1 .. n
        PROVE  g[i] = IF i = 1 THEN seqs[1] ELSE g[i - 1] \o seqs[i]
    BY <2>1, <2>2
  <2>5. FlattenSeq(seqs) = g[n]
    BY <2>2, <2>3, <2>4, FlattenIs DEF Joins, n
  <2>6. g[n] = f[n] /\ f[n] \in Seq(S)
    BY <1>1, <2>2
  <2>7. f[n + 1] = f[n] \o x
    <3>1. n + 1 \in 1 .. n + 1 /\ n + 1 # 1 /\ (n + 1) - 1 = n
      BY <1>1, <2>2
    <3> QED BY <1>1, <2>1, <3>1
  <2> QED BY <1>3, <2>5, <2>6, <2>7 DEF more
<1> QED BY <1>4, <1>5

\* What is joined so far is the front of what is joined in the end.
LEMMA FlattenFront ==
  ASSUME NEW S, NEW seqs \in Seq(Seq(S)), NEW k \in 0 .. Len(seqs)
  PROVE  \E t \in Seq(S) : FlattenSeq(seqs) = FlattenSeq(SubSeq(seqs, 1, k)) \o t
<1> DEFINE Upto(j) == FlattenSeq(SubSeq(seqs, 1, j))
           Good(j) == \E t \in Seq(S) : Upto(j) = Upto(k) \o t
           Bad == {j \in k .. Len(seqs) : ~ Good(j)}
<1>1. /\ Len(seqs) \in Nat
      /\ \A j \in 0 .. Len(seqs) : SubSeq(seqs, 1, j) \in Seq(Seq(S))
  OBVIOUS
<1>2. \A j \in 0 .. Len(seqs) : Upto(j) \in Seq(S)
  <2>1. <<>> \in Seq(S)
    OBVIOUS
  <2> QED BY <1>1, <2>1, FlattenAppend
<1>3. ASSUME NEW j \in 0 .. Len(seqs) - 1
      PROVE  Upto(j + 1) = Upto(j) \o seqs[j + 1] /\ seqs[j + 1] \in Seq(S)
  <2>1. SubSeq(seqs, 1, j + 1) = Append(SubSeq(seqs, 1, j), seqs[j + 1])
    BY <1>1
  <2>2. SubSeq(seqs, 1, j) \in Seq(Seq(S)) /\ seqs[j + 1] \in Seq(S)
    BY <1>1
  <2> QED BY <2>1, <2>2, FlattenAppend
<1> HIDE DEF Upto
<1>4. ASSUME Bad # {}
      PROVE  FALSE
  <2>1. PICK j \in Bad : \A i \in Bad : j <= i
    <3>1. Bad \subseteq Nat
      BY <1>1
    <3> HIDE DEF Bad
    <3> QED BY <1>4, <3>1, LeastNumber
  <2>2. j \in k .. Len(seqs) /\ ~ Good(j)
    BY <2>1
  <2>3. j # k
    <3>1. Upto(k) = Upto(k) \o <<>> /\ <<>> \in Seq(S)
      BY <1>2
    <3> QED BY <2>2, <3>1
  <2>4. j - 1 \in k .. Len(seqs) /\ j - 1 \in 0 .. Len(seqs) - 1 /\ (j - 1) + 1 = j /\ ~ (j <= j - 1)
    BY <1>1, <2>2, <2>3
  <2>5. Good(j - 1)
    <3>1. j - 1 \notin Bad
      <4> HIDE DEF Bad
      <4> QED BY <2>1, <2>4
    <3> QED BY <2>4, <3>1
  <2>6. PICK t \in Seq(S) : Upto(j - 1) = Upto(k) \o t
    BY <2>5
  <2>7. Upto(j) = Upto(j - 1) \o seqs[j] /\ seqs[j] \in Seq(S)
    BY <1>3, <2>4
  <2>8. Upto(j) = Upto(k) \o (t \o seqs[j]) /\ t \o seqs[j] \in Seq(S)
    <3>1. PICK u \in Seq(S), v \in Seq(S) : u = Upto(k) /\ v = seqs[j]
      BY <1>2, <2>7
    <3>2. (u \o t) \o v = u \o (t \o v) /\ t \o v \in Seq(S)
      BY ConcatAssociative, ConcatProperties, SMTT(60)
    <3>3. Upto(j) = (u \o t) \o v
      BY <2>6, <2>7, <3>1
    <3> QED BY <3>1, <3>2, <3>3
  <2> QED BY <2>2, <2>8
<1>5. Good(Len(seqs))
  <2>1. Len(seqs) \in k .. Len(seqs)
    BY <1>1
  <2> QED BY <1>4, <2>1
<1>6. SubSeq(seqs, 1, Len(seqs)) = seqs
  OBVIOUS
<1> QED BY <1>5, <1>6 DEF Upto

-----------------------------------------------------------------------------
(* The receive buffer.                                                     *)

BuffersTypeOK ==
  /\ wire \in Seq(Unit)
  /\ recv_buffer \in Seq(Unit)
  /\ stage \in {"reading", "parsing", "refused", "ended"}

\* The stage agrees with the parser's verdict on what is buffered.
VerdictStands ==
  /\ stage = "reading" => try_parse_message(recv_buffer) = "None"
  /\ stage = "refused" => try_parse_message(recv_buffer) = "Err"

BufferInv == BuffersTypeOK /\ VerdictStands /\ BufferBound

\* The payload of a message this code encodes is within the limit.
LEMMA RawFormatType ==
  ASSUME NEW m \in Messages
  PROVE  m.command \in Unit /\ get_raw_format(m) \in Seq(Unit) /\ Len(get_raw_format(m)) <= 2
<1> USE FramingAssumption DEF Unit, PING_COMMAND_NAME, PONG_COMMAND_NAME, VERSION_COMMAND_NAME,
        VERACK_COMMAND_NAME, get_raw_format, PingFormat, PongFormat, VersionFormat, VerackFormat
<1>1. CASE \E n \in Unit : m = Ping(n)
  BY <1>1 DEF Ping
<1>2. CASE \E n \in Unit : m = Pong(n)
  BY <1>2 DEF Pong
<1>3. CASE m = Verack
  BY <1>3 DEF Verack
<1>4. CASE \E n \in Unit, a \in SocketAddr : m = Version(n, a)
  <2>1. PICK n \in Unit, a \in SocketAddr : m = Version(n, a)
    BY <1>4
  <2>2. a.ip \in Unit
    BY DEF SocketAddr, Mapped
  <2> QED BY <2>1, <2>2 DEF Version, write_address
<1> QED BY <1>1, <1>2, <1>3, <1>4 DEF Messages

\* A header before a short payload is units.
LEMMA FrameOfUnits ==
  ASSUME NEW command \in Unit, NEW p \in Seq(Unit), Len(p) <= 2
  PROVE  Frame(command, p) \in Seq(Unit)
<1>1. MAX_PAYLOAD_SIZE \in Nat /\ MAX_PAYLOAD_SIZE >= 2
  BY FramingAssumption DEF VERSION_PAYLOAD_LENGTH
<1>2. Len(p) \in 0 .. MAX_PAYLOAD_SIZE
  <2>1. Len(p) \in Nat /\ Len(p) <= 2
    OBVIOUS
  <2> QED BY <1>1, <2>1
<1>3. p \in [1 .. Len(p) -> Unit]
  BY LenProperties
<1>4. Checksum(p) \in Unit
  BY <1>2, <1>3, FramingAssumption DEF Payload
<1>5. MAGIC_BYTES \in Unit /\ Len(p) \in Unit
  BY <1>2, FramingAssumption DEF MAGIC_BYTES, Unit
<1>6. <<MAGIC_BYTES, command, Len(p), Checksum(p)>> \in Seq(Unit)
  BY <1>4, <1>5
<1> QED BY <1>6 DEF Frame

\* Message::get_raw_format yields units.
LEMMA FrameType ==
  ASSUME NEW m \in Messages
  PROVE  Frame(m.command, get_raw_format(m)) \in Seq(Unit)
BY RawFormatType, FrameOfUnits

\* A buffer that the parser calls incomplete is shorter than a largest frame.
LEMMA IncompleteIsShort ==
  ASSUME NEW b \in Seq(Unit), try_parse_message(b) = "None"
  PROVE  Len(b) < HEADER_LENGTH + MAX_PAYLOAD_SIZE
<1>1. CASE Len(b) < HEADER_LENGTH
  BY <1>1, FramingAssumption DEF HEADER_LENGTH
<1>2. CASE Len(b) >= HEADER_LENGTH
  <2>1. b[3] \in Nat
    BY <1>2, FramingAssumption DEF HEADER_LENGTH, Unit
  <2>2. Len(b) < bytes_read(b) /\ payload_size(b) <= MAX_PAYLOAD_SIZE
    BY <1>2, <2>1, FramingAssumption DEF try_parse_message, payload_size, HEADER_LENGTH
  <2> QED BY <2>1, <2>2, FramingAssumption DEF bytes_read, payload_size, HEADER_LENGTH
<1> QED BY <1>1, <1>2 DEF HEADER_LENGTH

\* A buffer that begins with a valid frame parses, as that frame: neither
\* incomplete nor in error.
LEMMA FrameParses ==
  ASSUME NEW b \in Seq(Unit), NEW command \in Commands, NEW payload \in Payload,
         Parses(command, payload), IsPrefix(Frame(command, payload), b)
  PROVE  /\ try_parse_message(b) = "Some"
         /\ command_name(b) = command /\ PayloadOf(b) = payload
<1> DEFINE f == Frame(command, payload)
<1>1. payload \in Seq(Unit) /\ Len(payload) \in 0 .. MAX_PAYLOAD_SIZE
  BY FramingAssumption DEF Payload
<1>2. /\ Len(f) = HEADER_LENGTH + Len(payload)
      /\ f[1] = MAGIC_BYTES /\ f[2] = command
      /\ f[3] = Len(payload) /\ f[4] = Checksum(payload)
      /\ \A i \in 1 .. Len(payload) : f[HEADER_LENGTH + i] = payload[i]
  BY <1>1 DEF Frame, HEADER_LENGTH
<1>3. Len(f) <= Len(b) /\ \A i \in 1 .. Len(f) : f[i] = b[i]
  <2>1. Len(f) <= Len(b) /\ SubSeq(f, 1, Len(f)) = SubSeq(b, 1, Len(f))
    BY DEF IsPrefix
  <2>2. Len(f) \in Nat
    BY <1>1, <1>2 DEF HEADER_LENGTH
  <2>3. ASSUME NEW i \in 1 .. Len(f)
        PROVE  f[i] = b[i]
    <3> HIDE DEF f
    <3>1. SubSeq(f, 1, Len(f))[i] = f[i] /\ SubSeq(b, 1, Len(f))[i] = b[i]
      BY <2>1, <2>2, <2>3
    <3> QED BY <2>1, <3>1
  <2> QED BY <2>1, <2>3
<1> HIDE DEF f
<1>4. /\ Len(b) >= HEADER_LENGTH /\ b[1] = MAGIC_BYTES /\ b[2] = command
      /\ b[3] = Len(payload) /\ b[4] = Checksum(payload)
      /\ \A i \in 1 .. Len(payload) : b[HEADER_LENGTH + i] = payload[i]
  BY <1>1, <1>2, <1>3 DEF HEADER_LENGTH
<1>5. bytes_read(b) = HEADER_LENGTH + Len(payload) /\ bytes_read(b) <= Len(b)
  BY <1>2, <1>3, <1>4 DEF bytes_read, payload_size
<1>6. PayloadOf(b) = payload
  BY <1>1, <1>4, <1>5 DEF PayloadOf, HEADER_LENGTH
<1>7. Valid(b)
  BY <1>4, <1>6 DEF Valid, checksum, command_name
<1>8. try_parse_message(b) = "Some"
  BY <1>1, <1>4, <1>5, <1>7, FramingAssumption
  DEF try_parse_message, magic_bytes, payload_size, HEADER_LENGTH
<1> QED BY <1>4, <1>6, <1>8 DEF command_name

\* The buffer invariant is inductive.
LEMMA BufferStep ==
  ASSUME BufferInv, [Next]_vars
  PROVE  BufferInv'
<1> USE DEF BufferInv, BuffersTypeOK, VerdictStands
<1>1. ASSUME NEW m \in Messages, Say(m)
      PROVE  BufferInv'
  <2>1. wire' \in Seq(Unit)
    BY <1>1, FrameType DEF Say
  <2> QED BY <1>1, <2>1 DEF Say, readerVars, BufferBound
<1>2. ASSUME NEW u \in Unit, Babble(u)
      PROVE  BufferInv'
  BY <1>2 DEF Babble, readerVars, BufferBound
<1>3. ASSUME NEW n \in 1 .. READ_SIZE, Read(n)
      PROVE  BufferInv'
  <2>1. Len(recv_buffer) < HEADER_LENGTH + MAX_PAYLOAD_SIZE
    BY <1>3 DEF Read, BufferBound
  <2>2. SubSeq(wire, 1, n) \in Seq(Unit) /\ Len(SubSeq(wire, 1, n)) = n
    BY <1>3 DEF Read
  <2>3. recv_buffer' \in Seq(Unit) /\ Len(recv_buffer') = Len(recv_buffer) + n
    BY <1>3, <2>2 DEF Read
  <2>4. wire' \in Seq(Unit) /\ stage' = "parsing"
    BY <1>3 DEF Read
  <2>5. Len(recv_buffer') < HEADER_LENGTH + MAX_PAYLOAD_SIZE + READ_SIZE
    BY <2>1, <2>3, FramingAssumption DEF HEADER_LENGTH
  <2> QED BY <2>3, <2>4, <2>5 DEF BufferBound
<1>4. CASE ReadEnds
  BY <1>4 DEF ReadEnds, peerVars, BufferBound
<1>5. CASE AwaitMore
  BY <1>5, IncompleteIsShort DEF AwaitMore, peerVars, BufferBound
<1>6. CASE Refuse
  BY <1>6 DEF Refuse, peerVars, BufferBound
<1>7. CASE HandleFrame
  <2>1. Len(recv_buffer) >= HEADER_LENGTH /\ recv_buffer[3] \in Nat
    BY <1>7, FramingAssumption DEF HandleFrame, try_parse_message, HEADER_LENGTH, Unit
  <2>2. bytes_read(recv_buffer) \in Nat /\ bytes_read(recv_buffer) <= Len(recv_buffer)
    BY <1>7, <2>1 DEF HandleFrame, try_parse_message, bytes_read, payload_size, HEADER_LENGTH
  <2>3. recv_buffer' \in Seq(Unit) /\ Len(recv_buffer') <= Len(recv_buffer)
    BY <1>7, <2>2 DEF HandleFrame
  <2>4. stage' \in {"parsing", "ended"} /\ wire' \in Seq(Unit)
    BY <1>7 DEF HandleFrame, peerVars
  <2>5. Len(recv_buffer') < HEADER_LENGTH + MAX_PAYLOAD_SIZE + READ_SIZE
    BY <2>3, FramingAssumption DEF BufferBound, HEADER_LENGTH
  <2> QED BY <2>3, <2>4, <2>5 DEF BufferBound
<1>8. CASE UNCHANGED vars
  BY <1>8 DEF vars, peerVars, readerVars, BufferBound
<1> QED BY <1>1, <1>2, <1>3, <1>4, <1>5, <1>6, <1>7, <1>8 DEF Next, Gone

\* The verdict invariant holds throughout.
THEOREM BufferInvHolds == Spec => []BufferInv
<1>1. Init => BufferInv
  BY FramingAssumption DEF Init, BufferInv, BuffersTypeOK, VerdictStands, BufferBound,
     try_parse_message, HEADER_LENGTH
<1>2. BufferInv /\ [Next]_vars => BufferInv'
  BY BufferStep
<1> QED BY <1>1, <1>2, PTL DEF Spec

\* read_loop's receive buffer never grows beyond one largest frame and one
\* read, and is below a whole largest frame whenever it reads again.
THEOREM BufferBoundHolds == Spec => []BufferBound
<1>1. BufferInv => BufferBound
  BY DEF BufferInv
<1> QED BY <1>1, BufferInvHolds, PTL

\* No valid message waits in the buffer while the reader waits for bytes,
\* and none is lost to a refusal.
THEOREM NoFrameLeftHolds == Spec => []NoFrameLeft
<1>1. BufferInv => NoFrameLeft
  BY FrameParses DEF BufferInv, BuffersTypeOK, VerdictStands, NoFrameLeft
<1> QED BY <1>1, BufferInvHolds, PTL

-----------------------------------------------------------------------------
(* The stream.                                                             *)

HandledFrame == [command : Unit, payload : Payload]

\* What the frames handled are encoded as.
Frames(hs) == [i \in DOMAIN hs |-> Frame(hs[i].command, hs[i].payload)]

HistoryTypeOK ==
  /\ sent \in Seq(Unit) /\ said \in Seq(Messages) /\ babbled \in Nat
  /\ handled \in Seq(HandledFrame)

StreamInv == HistoryTypeOK /\ StreamIsCovered

LEMMA PayloadFrame ==
  ASSUME NEW command \in Unit, NEW p \in Payload
  PROVE  /\ p \in Seq(Unit) /\ Len(p) \in 0 .. MAX_PAYLOAD_SIZE
         /\ Frame(command, p) \in Seq(Unit)
<1>1. PICK n \in 0 .. MAX_PAYLOAD_SIZE : p \in [1 .. n -> Unit]
  BY DEF Payload
<1>2. p \in Seq(Unit) /\ Len(p) = n
  BY <1>1, FramingAssumption
<1>3. Checksum(p) \in Unit
  BY FramingAssumption
<1>4. MAGIC_BYTES \in Unit /\ Len(p) \in Unit
  BY <1>2, FramingAssumption DEF MAGIC_BYTES, Unit
<1>5. <<MAGIC_BYTES, command, Len(p), Checksum(p)>> \in Seq(Unit)
  BY <1>3, <1>4
<1> QED BY <1>2, <1>5 DEF Frame

\* What parses is a frame, and drain takes exactly that frame.
LEMMA FrameAtFront ==
  ASSUME NEW b \in Seq(Unit), try_parse_message(b) = "Some"
  PROVE  /\ [command |-> command_name(b), payload |-> PayloadOf(b)] \in HandledFrame
         /\ b = Frame(command_name(b), PayloadOf(b)) \o SubSeq(b, bytes_read(b) + 1, Len(b))
         /\ SubSeq(b, bytes_read(b) + 1, Len(b)) \in Seq(Unit)
<1>1. /\ Len(b) >= HEADER_LENGTH /\ magic_bytes(b) = MAGIC_BYTES
      /\ payload_size(b) <= MAX_PAYLOAD_SIZE /\ bytes_read(b) <= Len(b) /\ Valid(b)
  <2>1. b[3] \in Nat \/ Len(b) < 4
    BY FramingAssumption DEF Unit
  <2> QED BY <2>1, FramingAssumption DEF try_parse_message, HEADER_LENGTH, payload_size, bytes_read
<1> DEFINE n == payload_size(b)
<1>2. /\ n \in 0 .. MAX_PAYLOAD_SIZE /\ n \in Nat /\ b[1] \in Unit /\ b[2] \in Unit
      /\ 4 + n <= Len(b) /\ bytes_read(b) = 4 + n
  BY <1>1, FramingAssumption, SMTT(60) DEF payload_size, HEADER_LENGTH, bytes_read, Unit
<1> DEFINE q == PayloadOf(b)
<1>3. q = SubSeq(b, 5, 4 + n)
  BY <1>2 DEF PayloadOf, HEADER_LENGTH
<1>4. q \in Seq(Unit) /\ Len(q) = n /\ \A i \in 1 .. n : q[i] = b[4 + i]
  <2> HIDE DEF n, q
  <2> QED BY <1>2, <1>3
<1>5. q \in Payload
  <2>1. q \in [1 .. n -> Unit]
    BY <1>4
  <2> QED BY <1>2, <2>1 DEF Payload
<1> DEFINE r == SubSeq(b, 4 + n + 1, Len(b))
<1>6. r \in Seq(Unit) /\ Len(r) = Len(b) - (4 + n) /\ \A i \in 1 .. Len(r) : r[i] = b[4 + n + i]
  <2> HIDE DEF n
  <2> QED BY <1>2
<1> DEFINE f == Frame(command_name(b), q)
<1>7. /\ f \in Seq(Unit) /\ Len(f) = 4 + n
      /\ f[1] = b[1] /\ f[2] = b[2] /\ f[3] = b[3] /\ f[4] = b[4]
      /\ \A i \in 1 .. n : f[4 + i] = q[i]
  <2>1. f \in Seq(Unit)
    BY <1>2, <1>5, PayloadFrame DEF command_name
  <2>2. f = <<b[1], b[2], b[3], b[4]>> \o q
    BY <1>1, <1>4 DEF Frame, Valid, checksum, magic_bytes, command_name, payload_size
  <2> HIDE DEF f, q, n
  <2> QED BY <1>2, <1>4, <2>1, <2>2
<1>8. b = f \o r
  <2> HIDE DEF f, q, n, r
  <2>1. f \o r \in Seq(Unit) /\ Len(f \o r) = Len(b)
    BY <1>2, <1>6, <1>7
  <2>2. ASSUME NEW i \in 1 .. Len(b)
        PROVE  b[i] = (f \o r)[i]
    <3>1. CASE i \in 1 .. 4
      <4>1. (f \o r)[i] = f[i]
        BY <1>2, <1>6, <1>7, <3>1
      <4>2. i = 1 \/ i = 2 \/ i = 3 \/ i = 4
        BY <3>1
      <4> QED BY <1>7, <4>1, <4>2
    <3>2. CASE i \in 5 .. 4 + n
      <4>1. (f \o r)[i] = f[i] /\ i - 4 \in 1 .. n /\ 4 + (i - 4) = i
        BY <1>2, <1>6, <1>7, <3>2
      <4>2. f[4 + (i - 4)] = b[4 + (i - 4)]
        BY <1>4, <1>7, <4>1
      <4> QED BY <4>1, <4>2
    <3>3. CASE i > 4 + n
      <4>1. (f \o r)[i] = r[i - (4 + n)] /\ i - (4 + n) \in 1 .. Len(r) /\ 4 + n + (i - (4 + n)) = i
        BY <1>2, <1>6, <1>7, <3>3
      <4>2. r[i - (4 + n)] = b[4 + n + (i - (4 + n))]
        BY <1>6, <4>1
      <4> QED BY <4>1, <4>2
    <3>4. i \in 1 .. 4 \/ i \in 5 .. 4 + n \/ i > 4 + n
      BY <1>2
    <3> QED BY <3>1, <3>2, <3>3, <3>4
  <2> QED BY <2>1, <2>2, SeqEqual
<1> QED BY <1>2, <1>5, <1>6, <1>8 DEF HandledFrame, command_name

LEMMA FramesType ==
  ASSUME NEW hs \in Seq(HandledFrame)
  PROVE  Frames(hs) \in Seq(Seq(Unit)) /\ Len(Frames(hs)) = Len(hs)
<1>1. \A g \in HandledFrame : Frame(g.command, g.payload) \in Seq(Unit)
  BY PayloadFrame DEF HandledFrame
<1>2. /\ DOMAIN hs = 1 .. Len(hs) /\ Len(hs) \in Nat
      /\ \A i \in 1 .. Len(hs) : Frame(hs[i].command, hs[i].payload) \in Seq(Unit)
  BY <1>1
<1> QED BY <1>2 DEF Frames

\* One frame more is handled.
LEMMA FramesMore ==
  ASSUME NEW hs \in Seq(HandledFrame), NEW h \in HandledFrame
  PROVE  /\ Frames(hs) \in Seq(Seq(Unit)) /\ Frame(h.command, h.payload) \in Seq(Unit)
         /\ Frames(Append(hs, h)) = Append(Frames(hs), Frame(h.command, h.payload))
<1>1. \A g \in HandledFrame : Frame(g.command, g.payload) \in Seq(Unit)
  BY PayloadFrame DEF HandledFrame
<1>2. Frames(hs) \in Seq(Seq(Unit)) /\ Len(Frames(hs)) = Len(hs)
  BY FramesType
<1> DEFINE more == Append(hs, h)
           x == Frame(h.command, h.payload)
<1>3. /\ more \in Seq(HandledFrame) /\ Len(more) = Len(hs) + 1
      /\ more[Len(hs) + 1] = h /\ \A i \in 1 .. Len(hs) : more[i] = hs[i]
  OBVIOUS
<1>4. \A i \in 1 .. Len(hs) + 1 :
        Frames(more)[i] = IF i <= Len(hs) THEN Frames(hs)[i] ELSE x
  <2> HIDE DEF more
  <2> QED BY <1>3 DEF Frames
<1>5. Frames(more) \in Seq(Seq(Unit)) /\ Len(Frames(more)) = Len(hs) + 1
  <2> HIDE DEF more
  <2>1. /\ DOMAIN more = 1 .. Len(hs) + 1
        /\ \A i \in 1 .. Len(hs) + 1 : Frame(more[i].command, more[i].payload) \in Seq(Unit)
    BY <1>1, <1>3
  <2> QED BY <2>1 DEF Frames
<1>6. /\ Append(Frames(hs), x) \in Seq(Seq(Unit))
      /\ Len(Append(Frames(hs), x)) = Len(hs) + 1
      /\ \A i \in 1 .. Len(hs) + 1 :
           Append(Frames(hs), x)[i] = IF i <= Len(hs) THEN Frames(hs)[i] ELSE x
  <2> HIDE DEF x
  <2>1. x \in Seq(Unit)
    BY <1>1 DEF x
  <2> QED BY <1>2, <2>1
<1> HIDE DEF more
<1>7. Frames(more) = Append(Frames(hs), x)
  <2> HIDE DEF x
  <2> QED BY <1>4, <1>5, <1>6, SeqEqual
<1> QED BY <1>1, <1>2, <1>7 DEF more

LEMMA UnitsJoin == \A a, b, c \in Seq(Unit) : (a \o b) \o c = a \o (b \o c)
BY ConcatAssociative

\* StreamIsCovered in terms of Frames.
LEMMA Covered == StreamIsCovered <=> FlattenSeq(Frames(handled)) \o recv_buffer = sent
BY DEF StreamIsCovered, Frames

\* drain moves the frame from the buffer to the frames handled.
LEMMA StreamStep ==
  ASSUME BufferInv, StreamInv, [Next]_vars
  PROVE  StreamInv'
<1> USE DEF StreamInv, HistoryTypeOK
<1>0. wire \in Seq(Unit) /\ recv_buffer \in Seq(Unit)
  BY DEF BufferInv, BuffersTypeOK
<1>1. ASSUME NEW m \in Messages, Say(m)
      PROVE  StreamInv'
  BY <1>1 DEF Say, readerVars, StreamIsCovered
<1>2. ASSUME NEW u \in Unit, Babble(u)
      PROVE  StreamInv'
  BY <1>2 DEF Babble, readerVars, StreamIsCovered
<1>3. ASSUME NEW n \in 1 .. READ_SIZE, Read(n)
      PROVE  StreamInv'
  <2>1. PICK x \in Seq(Unit) : x = SubSeq(wire, 1, n)
    <3>1. SubSeq(wire, 1, n) \in Seq(Unit)
      BY <1>0, <1>3 DEF Read
    <3> QED BY <3>1
  <2>2. PICK all : all = FlattenSeq(Frames(handled))
    OBVIOUS
  <2>3. all \in Seq(Unit)
    <3>1. Frames(handled) \in Seq(Seq(Unit))
      BY FramesType
    <3>2. <<>> \in Seq(Unit)
      OBVIOUS
    <3> QED BY <2>2, <3>1, <3>2, FlattenAppend
  <2>4. all \o recv_buffer = sent
    BY <2>2, Covered
  <2>5. all \o (recv_buffer \o x) = sent \o x
    <3>1. all \o (recv_buffer \o x) = (all \o recv_buffer) \o x
      BY <1>0, <2>3, UnitsJoin
    <3> QED BY <2>4, <3>1
  <2>6. /\ sent' = sent \o x /\ recv_buffer' = recv_buffer \o x
        /\ handled' = handled /\ said' = said /\ babbled' = babbled
    BY <1>3, <2>1 DEF Read
  <2>7. StreamIsCovered'
    <3>1. FlattenSeq(Frames(handled')) \o recv_buffer' = sent'
      BY <2>2, <2>5, <2>6
    <3> QED BY <3>1 DEF StreamIsCovered, Frames
  <2>8. sent' \in Seq(Unit)
    BY <2>6
  <2> QED BY <2>6, <2>7, <2>8
<1>4. CASE ReadEnds \/ AwaitMore \/ Refuse
  BY <1>4 DEF ReadEnds, AwaitMore, Refuse, peerVars, StreamIsCovered
<1>5. CASE HandleFrame
  <2> DEFINE h == [command |-> command_name(recv_buffer), payload |-> PayloadOf(recv_buffer)]
             f == Frame(h.command, h.payload)
  <2>1. /\ h \in HandledFrame /\ recv_buffer = f \o recv_buffer'
        /\ recv_buffer' \in Seq(Unit)
    BY <1>0, <1>5, FrameAtFront DEF HandleFrame
  <2>2. /\ handled' = Append(handled, h) /\ sent' = sent
        /\ said' = said /\ babbled' = babbled
    BY <1>5 DEF HandleFrame, peerVars
  <2> HIDE DEF h
  <2>3. /\ Frames(handled) \in Seq(Seq(Unit)) /\ f \in Seq(Unit)
        /\ Frames(handled') = Append(Frames(handled), f)
    BY <2>1, <2>2, FramesMore
  <2> HIDE DEF f
  <2>4. PICK all : all = FlattenSeq(Frames(handled))
    OBVIOUS
  <2>5. all \in Seq(Unit) /\ FlattenSeq(Frames(handled')) = all \o f
    BY <2>3, <2>4, FlattenAppend
  <2>6. all \o (f \o recv_buffer') = sent
    BY <2>1, <2>4, Covered
  <2>7. (all \o f) \o recv_buffer' = sent'
    <3>1. (all \o f) \o recv_buffer' = all \o (f \o recv_buffer')
      BY <2>1, <2>3, <2>5, UnitsJoin
    <3> QED BY <2>2, <2>6, <3>1
  <2>8. StreamIsCovered'
    BY <2>5, <2>7 DEF StreamIsCovered, Frames
  <2> QED BY <2>1, <2>2, <2>8
<1>6. CASE UNCHANGED vars
  BY <1>6 DEF vars, peerVars, readerVars, StreamIsCovered
<1> QED BY <1>1, <1>2, <1>3, <1>4, <1>5, <1>6 DEF Next, Gone

THEOREM StreamInvHolds == Spec => []StreamInv
<1>1. Init => StreamInv
  <2> SUFFICES ASSUME Init PROVE StreamInv
    OBVIOUS
  <2>1. Frames(handled) = <<>>
    BY DEF Init, Frames
  <2>2. FlattenSeq(<<>>) = <<>>
    BY DEF FlattenSeq
  <2>3. StreamIsCovered
    BY <2>1, <2>2, Covered DEF Init
  <2> QED BY <2>3 DEF Init, StreamInv, HistoryTypeOK
<1>2. BufferInv /\ StreamInv /\ [Next]_vars => StreamInv'
  BY StreamStep
<1> QED BY <1>1, <1>2, BufferInvHolds, PTL DEF Spec

\* process_incoming_bytes loses no unit of the stream, takes none twice and
\* handles only frames that the encoder could have written, however reads
\* cut the stream.
THEOREM StreamIsCoveredHolds == Spec => []StreamIsCovered
<1>1. StreamInv => StreamIsCovered
  BY DEF StreamInv
<1> QED BY <1>1, StreamInvHolds, PTL

-----------------------------------------------------------------------------
(* What this code's own encoder wrote.                                     *)

\* The frame a message is handled as, and the frames of several.
AsHandled(m) == [command |-> m.command, payload |-> get_raw_format(m)]

Spoken(ms) == [i \in DOMAIN ms |-> AsHandled(ms[i])]

LEMMA HandledAs ==
  \A m : AsHandled(m).command = m.command /\ AsHandled(m).payload = get_raw_format(m)
BY DEF AsHandled

\* As long as nothing else was sent, the frames handled are those of the
\* first messages said, and the rest of the stream those of the others.
OwnInv ==
  babbled = 0 =>
    /\ stage # "refused"
    /\ Len(handled) <= Len(said)
    /\ \A i \in 1 .. Len(handled) : handled[i] = AsHandled(said[i])
    /\ FlattenSeq(Frames(Spoken(said))) = sent \o wire

\* The encoder and the parser of each message agree.
LEMMA OwnParses ==
  ASSUME NEW m \in Messages
  PROVE  /\ m.command \in Commands /\ AsHandled(m) \in HandledFrame
         /\ Parses(m.command, get_raw_format(m))
         /\ parse_raw_format(m.command, get_raw_format(m)) = AsRead(m)
<1>1. AsHandled(m) \in HandledFrame
  <2>1. m.command \in Unit /\ get_raw_format(m) \in Seq(Unit) /\ Len(get_raw_format(m)) <= 2
    BY RawFormatType
  <2>2. Len(get_raw_format(m)) \in 0 .. MAX_PAYLOAD_SIZE
    BY <2>1, FramingAssumption DEF VERSION_PAYLOAD_LENGTH
  <2>3. get_raw_format(m) \in [1 .. Len(get_raw_format(m)) -> Unit]
    BY <2>1, LenProperties
  <2> QED BY <2>1, <2>2, <2>3 DEF AsHandled, HandledFrame, Payload
<1> USE DEF PING_COMMAND_NAME, PONG_COMMAND_NAME, VERSION_COMMAND_NAME, VERACK_COMMAND_NAME,
      Commands, get_raw_format, parse_raw_format, AsRead, Parses
<1>2. CASE \E n \in Unit : m = Ping(n)
  BY <1>1, <1>2 DEF Ping, PingFormat, ParsesPing, NONCE_LENGTH
<1>3. CASE \E n \in Unit : m = Pong(n)
  BY <1>1, <1>3 DEF Pong, PongFormat, ParsesPong, NONCE_LENGTH
<1>4. CASE m = Verack
  BY <1>1, <1>4 DEF Verack, VerackFormat, ParsesVerack
<1>5. CASE \E n \in Unit, a \in SocketAddr : m = Version(n, a)
  <2>1. PICK n \in Unit, a \in SocketAddr : m = Version(n, a)
    BY <1>5
  <2>2. a \in [family : {"V4", "V6"}, ip : Unit]
    BY DEF SocketAddr, Mapped
  <2>3. get_raw_format(m) = <<n, a.ip>>
    BY <2>1 DEF Version, VersionFormat, write_address
  <2>4. m.command = VERSION_COMMAND_NAME /\ Parses(m.command, get_raw_format(m))
    BY <2>1, <2>3 DEF Version, ParsesVersion, VERSION_PAYLOAD_LENGTH
  <2>5. parse_raw_format(m.command, get_raw_format(m)) = Version(n, read_address(a.ip))
    BY <2>3, <2>4
  <2>6. AsRead(m) = Version(n, read_address(a.ip))
    BY <2>1, <2>2 DEF Version, read_address
  <2> QED BY <1>1, <2>4, <2>5, <2>6
<1> QED BY <1>2, <1>3, <1>4, <1>5 DEF Messages

\* A buffer that holds the front of a stream which begins with an own message
\* is not refused, and what parses is that message.
LEMMA OwnFront ==
  ASSUME NEW b \in Seq(Unit), NEW w \in Seq(Unit), NEW t \in Seq(Unit), NEW m \in Messages,
         b \o w = Frame(m.command, get_raw_format(m)) \o t
  PROVE  /\ try_parse_message(b) # "Err"
         /\ try_parse_message(b) = "Some" =>
              [command |-> command_name(b), payload |-> PayloadOf(b)] = AsHandled(m)
<1> DEFINE p == get_raw_format(m)
           f == Frame(m.command, p)
<1>1. /\ m.command \in Commands /\ m.command \in Unit /\ p \in Payload /\ Parses(m.command, p)
  BY OwnParses DEF AsHandled, HandledFrame
<1>2. p \in Seq(Unit) /\ Len(p) \in 0 .. MAX_PAYLOAD_SIZE /\ f \in Seq(Unit)
  BY <1>1, PayloadFrame
<1>3. f[1] = MAGIC_BYTES /\ f[3] = Len(p) /\ Len(f) = 4 + Len(p)
  <2> HIDE DEF p
  <2> QED BY <1>2 DEF Frame
<1> HIDE DEF p, f
<1>4. \A i \in 1 .. Len(b) : i <= Len(f) => b[i] = f[i]
  <2> SUFFICES ASSUME NEW i \in 1 .. Len(b), i <= Len(f) PROVE b[i] = f[i]
    OBVIOUS
  <2>1. (b \o w)[i] = b[i] /\ (f \o t)[i] = f[i]
    BY <1>2
  <2> QED BY <2>1 DEF f, p
<1>5. CASE Len(b) < HEADER_LENGTH
  BY <1>5 DEF try_parse_message
<1>6. CASE HEADER_LENGTH <= Len(b) /\ Len(b) < Len(f)
  <2>1. b[1] = MAGIC_BYTES /\ b[3] = Len(p)
    BY <1>2, <1>3, <1>4, <1>6 DEF HEADER_LENGTH
  <2> QED BY <1>2, <1>3, <1>6, <2>1, FramingAssumption
          DEF try_parse_message, magic_bytes, payload_size, bytes_read, HEADER_LENGTH
<1>7. CASE Len(f) <= Len(b)
  <2>1. IsPrefix(f, b)
    <3>1. /\ SubSeq(f, 1, Len(f)) \in Seq(Unit) /\ SubSeq(b, 1, Len(f)) \in Seq(Unit)
          /\ Len(SubSeq(f, 1, Len(f))) = Len(f) /\ Len(SubSeq(b, 1, Len(f))) = Len(f)
          /\ \A i \in 1 .. Len(f) : SubSeq(f, 1, Len(f))[i] = SubSeq(b, 1, Len(f))[i]
      BY <1>2, <1>4, <1>7
    <3>2. SubSeq(f, 1, Len(f)) = SubSeq(b, 1, Len(f))
      BY <3>1, SeqEqual
    <3> QED BY <1>7, <3>2 DEF IsPrefix
  <2>2. /\ try_parse_message(b) = "Some"
        /\ command_name(b) = m.command /\ PayloadOf(b) = p
    BY <1>1, <2>1, FrameParses DEF f
  <2> QED BY <2>2 DEF AsHandled, p
<1> QED BY <1>2, <1>5, <1>6, <1>7 DEF HEADER_LENGTH

\* The frames of own messages, one by one.
LEMMA SpokenFrames ==
  ASSUME NEW ms \in Seq(Messages)
  PROVE  /\ Spoken(ms) \in Seq(HandledFrame) /\ Len(Spoken(ms)) = Len(ms)
         /\ \A i \in 1 .. Len(ms) : Spoken(ms)[i] = AsHandled(ms[i])
<1>1. /\ DOMAIN ms = 1 .. Len(ms) /\ Len(ms) \in Nat
      /\ \A i \in 1 .. Len(ms) : AsHandled(ms[i]) \in HandledFrame
  BY OwnParses
<1> HIDE DEF AsHandled
<1> QED BY <1>1 DEF Spoken

LEMMA SpokenMore ==
  ASSUME NEW ms \in Seq(Messages), NEW m \in Messages
  PROVE  Spoken(Append(ms, m)) = Append(Spoken(ms), AsHandled(m))
<1>1. AsHandled(m) \in HandledFrame
  BY OwnParses
<1>2. PICK more \in Seq(Messages) :
        /\ more = Append(ms, m) /\ Len(more) = Len(ms) + 1 /\ more[Len(ms) + 1] = m
        /\ \A i \in 1 .. Len(ms) : more[i] = ms[i]
  <2>1. /\ Append(ms, m) \in Seq(Messages) /\ Len(Append(ms, m)) = Len(ms) + 1
        /\ Append(ms, m)[Len(ms) + 1] = m /\ \A i \in 1 .. Len(ms) : Append(ms, m)[i] = ms[i]
    OBVIOUS
  <2> QED BY <2>1
<1>3. PICK old \in Seq(HandledFrame) :
        /\ old = Spoken(ms) /\ Len(old) = Len(ms)
        /\ \A i \in 1 .. Len(ms) : old[i] = AsHandled(ms[i])
  BY SpokenFrames
<1>4. /\ Spoken(more) \in Seq(HandledFrame) /\ Len(Spoken(more)) = Len(ms) + 1
      /\ \A i \in 1 .. Len(ms) + 1 : Spoken(more)[i] = AsHandled(more[i])
  BY <1>2, SpokenFrames
<1>5. PICK new \in Seq(HandledFrame) :
        /\ new = Append(old, AsHandled(m)) /\ Len(new) = Len(ms) + 1
        /\ \A i \in 1 .. Len(ms) : new[i] = old[i]
        /\ new[Len(ms) + 1] = AsHandled(m)
  <2>1. ASSUME NEW h \in HandledFrame
        PROVE  /\ Append(old, h) \in Seq(HandledFrame) /\ Len(Append(old, h)) = Len(ms) + 1
               /\ Append(old, h)[Len(ms) + 1] = h
               /\ \A i \in 1 .. Len(ms) : Append(old, h)[i] = old[i]
    BY <1>3
  <2> QED BY <1>1, <2>1
<1>6. Len(ms) \in Nat /\ \A i \in 1 .. Len(ms) + 1 : i \in 1 .. Len(ms) \/ i = Len(ms) + 1
  OBVIOUS
<1>7. \A i \in 1 .. Len(ms) + 1 : Spoken(more)[i] = new[i]
  BY <1>2, <1>3, <1>4, <1>5, <1>6
<1>8. Spoken(more) = new
  BY <1>4, <1>5, <1>7, SeqEqual
<1> QED BY <1>2, <1>3, <1>5, <1>8

\* What is still to be parsed begins with the first message not yet handled,
\* or there is nothing.
LEMMA NextIsOwn ==
  ASSUME BuffersTypeOK, StreamInv, OwnInv, babbled = 0
  PROVE  IF Len(handled) = Len(said)
           THEN recv_buffer = <<>>
           ELSE /\ said[Len(handled) + 1] \in Messages
                /\ \E t \in Seq(Unit) :
                     LET m == said[Len(handled) + 1]
                     IN  recv_buffer \o wire = Frame(m.command, get_raw_format(m)) \o t
<1>1. /\ wire \in Seq(Unit) /\ recv_buffer \in Seq(Unit) /\ sent \in Seq(Unit)
      /\ said \in Seq(Messages) /\ handled \in Seq(HandledFrame)
  BY DEF BuffersTypeOK, StreamInv, HistoryTypeOK
<1>2. /\ Len(handled) <= Len(said) /\ FlattenSeq(Frames(Spoken(said))) = sent \o wire
      /\ \A i \in 1 .. Len(handled) : handled[i] = AsHandled(said[i])
  BY DEF OwnInv
<1> DEFINE k == Len(handled)
           n == Len(said)
<1>3. k \in Nat /\ n \in Nat /\ k \in 0 .. n
  BY <1>1, <1>2
<1>4. PICK all \in Seq(Seq(Unit)) :
        /\ all = Frames(Spoken(said)) /\ Len(all) = n
        /\ \A i \in 1 .. n : all[i] = Frame(said[i].command, get_raw_format(said[i]))
  <2>1. PICK hs \in Seq(HandledFrame) :
          hs = Spoken(said) /\ Len(hs) = n /\ \A i \in 1 .. n : hs[i] = AsHandled(said[i])
    BY <1>1, SpokenFrames
  <2>2. Frames(hs) \in Seq(Seq(Unit)) /\ Len(Frames(hs)) = n
    BY <2>1, FramesType
  <2>3. \A i \in 1 .. n : Frames(hs)[i] = Frame(hs[i].command, hs[i].payload)
    BY <2>1 DEF Frames
  <2>4. \A i \in 1 .. n : Frames(hs)[i] = Frame(said[i].command, get_raw_format(said[i]))
    <3>1. \A i \in 1 .. n : hs[i].command = said[i].command /\ hs[i].payload = get_raw_format(said[i])
      BY <2>1, HandledAs
    <3> QED BY <2>3, <3>1
  <2> QED BY <2>1, <2>2, <2>4
<1>5. PICK done \in Seq(Seq(Unit)) : done = Frames(handled) /\ done = SubSeq(all, 1, k)
  <2>1. Frames(handled) \in Seq(Seq(Unit)) /\ Len(Frames(handled)) = k
    BY <1>1, FramesType
  <2>2. \A i \in 1 .. k : Frames(handled)[i] = Frame(said[i].command, get_raw_format(said[i]))
    <3>1. /\ \A i \in 1 .. k : handled[i].command = said[i].command
                              /\ handled[i].payload = get_raw_format(said[i])
          /\ DOMAIN handled = 1 .. k
      BY <1>1, <1>2, HandledAs
    <3> QED BY <3>1 DEF Frames
  <2>3. /\ SubSeq(all, 1, k) \in Seq(Seq(Unit)) /\ Len(SubSeq(all, 1, k)) = k
        /\ \A i \in 1 .. k : SubSeq(all, 1, k)[i] = all[i] /\ i \in 1 .. n
    BY <1>3, <1>4
  <2>4. \A i \in 1 .. k : Frames(handled)[i] = SubSeq(all, 1, k)[i]
    BY <1>4, <2>2, <2>3
  <2>5. Frames(handled) = SubSeq(all, 1, k)
    BY <2>1, <2>3, <2>4, SeqEqual
  <2> QED BY <2>1, <2>5
<1>6. PICK x \in Seq(Unit) : x = FlattenSeq(done)
  <2>1. <<>> \in Seq(Unit)
    OBVIOUS
  <2> QED BY <2>1, FlattenAppend
<1>7. FlattenSeq(all) = x \o (recv_buffer \o wire)
  <2>1. sent = x \o recv_buffer
    BY <1>5, <1>6, Covered DEF StreamInv
  <2>2. (x \o recv_buffer) \o wire = x \o (recv_buffer \o wire)
    BY <1>1, UnitsJoin
  <2> QED BY <1>2, <1>4, <2>1, <2>2
<1>8. PICK y \in Seq(Unit) : y = recv_buffer \o wire
  <2>1. recv_buffer \o wire \in Seq(Unit)
    BY <1>1, ConcatProperties
  <2> QED BY <2>1
<1>9. CASE k = n
  <2>1. done = all
    BY <1>4, <1>5, <1>9, SubSeqFull
  <2>2. x \o y = x
    BY <1>6, <1>7, <1>8, <2>1
  <2>3. y = <<>>
    BY <2>2, ConcatSimplifications!idRight
  <2>4. recv_buffer = <<>>
    BY <1>1, <1>8, <2>3, ConcatSimplifications!concIsEmpty
  <2> QED BY <1>9, <2>4
<1>10. CASE k # n
  <2>1. k + 1 \in 1 .. n /\ k + 1 \in 0 .. n
    BY <1>3, <1>10
  <2>2. said[k + 1] \in Messages
    BY <1>1, <2>1
  <2>3. PICK f \in Seq(Unit) :
          f = Frame(said[k + 1].command, get_raw_format(said[k + 1])) /\ f = all[k + 1]
    BY <1>4, <2>1
  <2>4. PICK t \in Seq(Unit) : FlattenSeq(all) = FlattenSeq(SubSeq(all, 1, k + 1)) \o t
    <3>1. k + 1 \in 0 .. Len(all)
      BY <1>4, <2>1
    <3> HIDE DEF k
    <3>2. \E t \in Seq(Unit) : FlattenSeq(all) = FlattenSeq(SubSeq(all, 1, k + 1)) \o t
      BY <3>1, FlattenFront
    <3> QED BY <3>2
  <2>5. SubSeq(all, 1, k + 1) = Append(done, f)
    BY <1>3, <1>4, <1>5, <2>1, <2>3
  <2>6. FlattenSeq(SubSeq(all, 1, k + 1)) = x \o f
    BY <1>6, <2>5, FlattenAppend
  <2>7. x \o y = x \o (f \o t)
    <3>1. (x \o f) \o t = x \o (f \o t)
      BY UnitsJoin, ZenonT(60)
    <3> QED BY <1>7, <1>8, <2>4, <2>6, <3>1
  <2>8. y = f \o t
    <3>1. PICK z \in Seq(Unit) : z = f \o t
      <4>1. f \o t \in Seq(Unit)
        BY ConcatProperties
      <4> QED BY <4>1
    <3>2. x \o y = x \o z
      BY <2>7, <3>1
    <3>3. y = z
      BY <3>2, ConcatSimplifications
    <3> QED BY <3>1, <3>3
  <2> QED BY <1>8, <1>10, <2>2, <2>3, <2>8
<1> QED BY <1>9, <1>10

\* A message said is one frame more at the end of the stream; a frame handled
\* is that of the next message said.
LEMMA OwnStep ==
  ASSUME BufferInv, StreamInv, OwnInv, [Next]_vars
  PROVE  OwnInv'
<1>0. /\ wire \in Seq(Unit) /\ recv_buffer \in Seq(Unit) /\ sent \in Seq(Unit)
      /\ said \in Seq(Messages) /\ handled \in Seq(HandledFrame) /\ babbled \in Nat
      /\ BuffersTypeOK
  BY DEF BufferInv, BuffersTypeOK, StreamInv, HistoryTypeOK
<1>1. ASSUME NEW m \in Messages, Say(m)
      PROVE  OwnInv'
  <2>1. /\ wire' = wire \o Frame(m.command, get_raw_format(m)) /\ said' = Append(said, m)
        /\ babbled' = babbled /\ stage' = stage /\ sent' = sent /\ handled' = handled
    BY <1>1 DEF Say, readerVars
  <2> SUFFICES ASSUME babbled = 0 PROVE OwnInv'
    BY <2>1 DEF OwnInv
  <2>2. /\ stage # "refused" /\ Len(handled) <= Len(said)
        /\ \A i \in 1 .. Len(handled) : handled[i] = AsHandled(said[i])
        /\ FlattenSeq(Frames(Spoken(said))) = sent \o wire
    BY DEF OwnInv
  <2>3. /\ Len(said') = Len(said) + 1 /\ Len(said) \in Nat /\ Len(handled) \in Nat
        /\ \A i \in 1 .. Len(handled) : said'[i] = said[i]
    BY <1>0, <2>1, <2>2
  <2>4. PICK f \in Seq(Unit) : f = Frame(m.command, get_raw_format(m))
    BY FrameType
  <2>5. PICK old \in Seq(HandledFrame) : old = Spoken(said)
    BY <1>0, SpokenFrames
  <2>6. PICK h \in HandledFrame : h = AsHandled(m)
    BY OwnParses
  <2>7. Spoken(said') = Append(old, h)
    BY <1>0, <2>1, <2>5, <2>6, SpokenMore
  <2>8. /\ Frames(old) \in Seq(Seq(Unit)) /\ Frames(Append(old, h)) = Append(Frames(old), f)
    <3>1. Frame(h.command, h.payload) = f
      BY <2>4, <2>6, HandledAs
    <3> QED BY <3>1, FramesMore
  <2>9. FlattenSeq(Frames(Spoken(said'))) = (sent \o wire) \o f
    BY <2>2, <2>5, <2>7, <2>8, FlattenAppend, ZenonT(60)
  <2>10. (sent \o wire) \o f = sent' \o wire'
    <3>1. (sent \o wire) \o f = sent \o (wire \o f)
      BY <1>0, UnitsJoin
    <3> QED BY <2>1, <2>4, <3>1
  <2>11. \A i \in 1 .. Len(handled') : handled'[i] = AsHandled(said'[i])
    BY <2>1, <2>2, <2>3
  <2>12. Len(handled') <= Len(said') /\ stage' # "refused"
    BY <2>1, <2>2, <2>3
  <2> QED BY <2>9, <2>10, <2>11, <2>12 DEF OwnInv
<1>2. ASSUME NEW u \in Unit, Babble(u)
      PROVE  OwnInv'
  <2>1. babbled' # 0
    BY <1>0, <1>2 DEF Babble
  <2> QED BY <2>1 DEF OwnInv
<1>3. ASSUME NEW n \in 1 .. READ_SIZE, Read(n)
      PROVE  OwnInv'
  <2>1. /\ sent' = sent \o SubSeq(wire, 1, n) /\ wire' = SubSeq(wire, n + 1, Len(wire))
        /\ n \in 1 .. Len(wire) /\ said' = said /\ babbled' = babbled /\ handled' = handled
        /\ stage' = "parsing"
    BY <1>3 DEF Read
  <2>2. PICK x \in Seq(Unit) : x = SubSeq(wire, 1, n)
    <3>1. SubSeq(wire, 1, n) \in Seq(Unit)
      BY <1>0, <2>1
    <3> QED BY <3>1
  <2>3. PICK y \in Seq(Unit) : y = SubSeq(wire, n + 1, Len(wire))
    <3>1. SubSeq(wire, n + 1, Len(wire)) \in Seq(Unit)
      BY <1>0, <2>1
    <3> QED BY <3>1
  <2>4. wire = x \o y
    BY <1>0, <2>1, <2>2, <2>3
  <2>5. (sent \o x) \o y = sent \o (x \o y)
    BY <1>0, UnitsJoin, SMTT(60)
  <2>6. sent' \o wire' = sent \o wire
    BY <2>1, <2>2, <2>3, <2>4, <2>5
  <2> QED BY <2>1, <2>6 DEF OwnInv
<1>4. CASE ReadEnds \/ AwaitMore
  BY <1>4 DEF ReadEnds, AwaitMore, peerVars, OwnInv
<1>5. CASE Refuse
  <2>1. /\ stage = "parsing" /\ try_parse_message(recv_buffer) = "Err"
        /\ babbled' = babbled
    BY <1>5 DEF Refuse, peerVars
  <2>2. ASSUME babbled = 0 PROVE FALSE
    <3>1. CASE Len(handled) = Len(said)
      <4>1. recv_buffer = <<>>
        BY <1>0, <2>2, <3>1, NextIsOwn
      <4> QED BY <2>1, <4>1 DEF try_parse_message, HEADER_LENGTH
    <3>2. CASE Len(handled) # Len(said)
      <4>1. PICK m \in Messages, t \in Seq(Unit) :
              recv_buffer \o wire = Frame(m.command, get_raw_format(m)) \o t
        BY <1>0, <2>2, <3>2, NextIsOwn
      <4> QED BY <1>0, <2>1, <4>1, OwnFront
    <3> QED BY <3>1, <3>2
  <2> QED BY <2>1, <2>2 DEF OwnInv
<1>6. CASE HandleFrame
  <2> DEFINE h == [command |-> command_name(recv_buffer), payload |-> PayloadOf(recv_buffer)]
  <2>1. /\ try_parse_message(recv_buffer) = "Some" /\ handled' = Append(handled, h)
        /\ stage' # "refused" /\ sent' = sent /\ wire' = wire /\ said' = said /\ babbled' = babbled
    BY <1>6 DEF HandleFrame, peerVars
  <2> SUFFICES ASSUME babbled = 0 PROVE OwnInv'
    BY <2>1 DEF OwnInv
  <2>2. /\ Len(handled) <= Len(said)
        /\ \A i \in 1 .. Len(handled) : handled[i] = AsHandled(said[i])
        /\ FlattenSeq(Frames(Spoken(said))) = sent \o wire
    BY DEF OwnInv
  <2>3. Len(handled) # Len(said)
    <3>1. ASSUME Len(handled) = Len(said) PROVE FALSE
      <4>1. recv_buffer = <<>>
        BY <1>0, <3>1, NextIsOwn
      <4> QED BY <2>1, <4>1 DEF try_parse_message, HEADER_LENGTH
    <3> QED BY <3>1
  <2>4. h = AsHandled(said[Len(handled) + 1])
    <3>1. PICK m \in Messages : m = said[Len(handled) + 1]
      BY <1>0, <2>3, NextIsOwn
    <3>2. PICK t \in Seq(Unit) : recv_buffer \o wire = Frame(m.command, get_raw_format(m)) \o t
      BY <1>0, <2>3, <3>1, NextIsOwn
    <3>3. h = AsHandled(m)
      BY <1>0, <2>1, <3>2, OwnFront
    <3> QED BY <3>1, <3>3
  <2> HIDE DEF h
  <2>5. PICK k \in Nat : k = Len(handled)
    BY <1>0
  <2>6. /\ Len(handled') = k + 1 /\ handled'[k + 1] = h
        /\ \A i \in 1 .. k : handled'[i] = handled[i]
    BY <1>0, <2>1, <2>5
  <2>7. \A i \in 1 .. k + 1 : i \in 1 .. k \/ i = k + 1
    OBVIOUS
  <2>8. \A i \in 1 .. Len(handled') : handled'[i] = AsHandled(said'[i])
    BY <2>1, <2>2, <2>4, <2>5, <2>6, <2>7
  <2>9. Len(handled') <= Len(said')
    <3>1. Len(said) \in Nat
      BY <1>0
    <3> QED BY <2>1, <2>2, <2>3, <2>5, <2>6, <3>1
  <2> QED BY <2>1, <2>2, <2>8, <2>9 DEF OwnInv
<1>7. CASE UNCHANGED vars
  BY <1>7 DEF vars, peerVars, readerVars, OwnInv
<1> QED BY <1>1, <1>2, <1>3, <1>4, <1>5, <1>6, <1>7 DEF Next, Gone

THEOREM OwnInvHolds == Spec => []OwnInv
<1>1. Init => OwnInv
  <2> SUFFICES ASSUME Init PROVE OwnInv
    OBVIOUS
  <2>1. Spoken(said) = <<>> /\ Frames(<<>>) = <<>>
    BY DEF Init, Spoken, Frames
  <2>2. FlattenSeq(<<>>) = <<>>
    BY DEF FlattenSeq
  <2> QED BY <2>1, <2>2 DEF Init, OwnInv
<1>2. BufferInv /\ StreamInv /\ OwnInv /\ [Next]_vars => OwnInv'
  BY OwnStep
<1> QED BY <1>1, <1>2, BufferInvHolds, StreamInvHolds, PTL DEF Spec

\* A peer whose every unit this code's encoder wrote is never refused, and
\* what process_incoming_bytes hands on is its messages, in order, each with
\* its nonce and address.
THEOREM OwnEncodingHolds == Spec => []OwnEncodingUnderstood
<1>1. StreamInv /\ OwnInv => OwnEncodingUnderstood
  <2> SUFFICES ASSUME StreamInv, OwnInv, babbled = 0
               PROVE  OwnEncodingUnderstood
    BY DEF OwnEncodingUnderstood
  <2>1. said \in Seq(Messages) /\ handled \in Seq(HandledFrame)
    BY DEF StreamInv, HistoryTypeOK
  <2>2. /\ stage # "refused" /\ Len(handled) <= Len(said)
        /\ \A i \in 1 .. Len(handled) : handled[i] = AsHandled(said[i])
    BY DEF OwnInv
  <2> DEFINE heard == [i \in DOMAIN handled |-> parse_raw_format(handled[i].command, handled[i].payload)]
             meant == [i \in DOMAIN said |-> AsRead(said[i])]
  <2>3. /\ DOMAIN handled = 1 .. Len(handled) /\ Len(handled) \in Nat
        /\ DOMAIN said = 1 .. Len(said) /\ Len(said) \in Nat
        /\ \A i \in 1 .. Len(handled) : i \in 1 .. Len(said) /\ said[i] \in Messages
    BY <2>1, <2>2
  <2>4. ASSUME NEW i \in 1 .. Len(handled)
        PROVE  heard[i] = meant[i]
    <3>1. PICK m \in Messages : m = said[i]
      BY <2>3
    <3>2. handled[i].command = m.command /\ handled[i].payload = get_raw_format(m)
      BY <2>2, <3>1, HandledAs
    <3>3. heard[i] = AsRead(m)
      BY <2>3, <3>2, OwnParses
    <3> QED BY <2>3, <3>1, <3>3
  <2>5. /\ Len(heard) = Len(handled) /\ Len(meant) = Len(said)
    BY <2>3
  <2> HIDE DEF heard, meant
  <2>6. SubSeq(heard, 1, Len(heard)) = SubSeq(meant, 1, Len(heard))
    <3>1. PICK k \in Nat : k = Len(handled)
      BY <2>3
    <3>2. \A i \in 1 .. k : heard[i] = meant[i]
      BY <2>4, <3>1
    <3> QED BY <2>5, <3>1, <3>2
  <2>7. IsPrefix(heard, meant)
    BY <2>2, <2>5, <2>6 DEF IsPrefix
  <2> QED BY <2>2, <2>7 DEF OwnEncodingUnderstood, heard, meant
<1> QED BY <1>1, StreamInvHolds, OwnInvHolds, PTL

-----------------------------------------------------------------------------
(* The byte reader.                                                        *)

\* The sequences up to a length.
LEMMA BoundedIsSeq ==
  ASSUME NEW S, NEW n \in Nat, NEW b \in BoundedSeq(S, n)
  PROVE  b \in Seq(S) /\ Len(b) <= n
<1>1. PICK m \in 0 .. n : b \in [1 .. m -> S]
  BY DEF BoundedSeq, SeqOf
<1>2. m \in Nat /\ m <= n
  OBVIOUS
<1> QED BY <1>1, <1>2

\* What ReadCommand gives at a place.
CommandAt(from) ==
  LET field == SubSeq(bytes, from + 1, from + FIELD_LENGTH)
  IN  [Fixed(from, FIELD_LENGTH) EXCEPT !.result =
         IF @.ok /\ ParsesCommand(field) THEN Ok(parse_command_12(field)) ELSE Err]

\* The cursor is within the input, and what was read last is what is there.
CursorInv ==
  /\ bytes \in Seq(AnyByte) /\ Len(bytes) <= MaxLength
  /\ position \in 0 .. Len(bytes)
  /\ last.kind = "command" =>
       /\ last.from \in 0 .. Len(bytes)
       /\ last.result = CommandAt(last.from).result
       /\ position = CommandAt(last.from).position
  /\ last.kind = "compact" =>
       /\ last.from \in 0 .. Len(bytes)
       /\ last.result = Compact(last.from).result
       /\ position = Compact(last.from).position

\* take gives a slice of the input or leaves the cursor alone.
LEMMA FixedOnward ==
  ASSUME bytes \in Seq(AnyByte), NEW from \in 0 .. Len(bytes), NEW count \in Nat
  PROVE  Fixed(from, count).position \in from .. Len(bytes)
<1>1. Len(bytes) \in Nat
  OBVIOUS
<1> QED BY <1>1 DEF Fixed, Takes, End

\* A compact integer is at most two such reads.
LEMMA CompactOnward ==
  ASSUME bytes \in Seq(AnyByte), NEW from \in 0 .. Len(bytes)
  PROVE  Compact(from).position \in from .. Len(bytes)
<1> DEFINE first == Fixed(from, 1)
           width == [u \in BASE - 3 .. BASE - 1 |-> <<U16, U32, U64>>[u - (BASE - 4)]]
<1>1. first.position \in from .. Len(bytes)
  BY FixedOnward
<1>2. Len(bytes) \in Nat /\ first.position \in 0 .. Len(bytes)
  BY <1>1
<1>3. \A u \in DOMAIN width : width[u] \in Nat
  <2>1. <<U16, U32, U64>> \in [1 .. 3 -> Nat]
    BY ReaderAssumption
  <2>2. \A u \in BASE - 3 .. BASE - 1 : u - (BASE - 4) \in 1 .. 3
    BY ReaderAssumption
  <2> QED BY <2>1, <2>2
<1>4. CASE first.result.ok /\ first.result.value \in DOMAIN width
  <2>1. Compact(from) = Fixed(first.position, width[first.result.value])
    BY <1>4 DEF Compact
  <2>2. width[first.result.value] \in Nat
    BY <1>3, <1>4
  <2> HIDE DEF first, width
  <2>3. Fixed(first.position, width[first.result.value]).position \in first.position .. Len(bytes)
    BY <1>2, <2>2, FixedOnward
  <2> QED BY <1>1, <1>2, <2>1, <2>3
<1>5. CASE ~ (first.result.ok /\ first.result.value \in DOMAIN width)
  BY <1>1, <1>5 DEF Compact
<1> QED BY <1>4, <1>5

\* The name is parsed from the array read, so the cursor is where that left it.
LEMMA CommandOnward ==
  ASSUME bytes \in Seq(AnyByte), NEW from \in 0 .. Len(bytes)
  PROVE  CommandAt(from).position \in from .. Len(bytes)
<1>1. CommandAt(from).position = Fixed(from, FIELD_LENGTH).position
  BY DEF CommandAt, Fixed
<1> QED BY <1>1, FixedOnward, FieldAssumption

\* What a read does to the cursor.
LEMMA ReaderStep ==
  ASSUME CursorInv, ReaderNext
  PROVE  /\ bytes' = bytes
         /\ position' \in position .. Len(bytes)
         /\ last'.kind = "command" =>
              /\ last'.from = position
              /\ last'.result = CommandAt(position).result
              /\ position' = CommandAt(position).position
         /\ last'.kind = "compact" =>
              /\ last'.from = position
              /\ last'.result = Compact(position).result
              /\ position' = Compact(position).position
<1> USE DEF CursorInv
<1>1. ASSUME NEW kind, NEW count, NEW read,
             Returns(kind, count, read), read.position \in position .. Len(bytes)
      PROVE  /\ bytes' = bytes /\ position' \in position .. Len(bytes)
             /\ last'.kind = kind /\ last'.from = position
             /\ last'.result = read.result /\ position' = read.position
  BY <1>1 DEF Returns
<1>2. ASSUME NEW width \in {1, U16, U32, U64}, ReadFixed(width)
      PROVE  bytes' = bytes /\ position' \in position .. Len(bytes) /\ last'.kind = "fixed"
  <2>1. width \in Nat
    BY ReaderAssumption
  <2> QED BY <1>1, <1>2, <2>1, FixedOnward DEF ReadFixed
<1>3. ASSUME NEW count \in 0 .. USIZE_MAX, ReadBytes(count)
      PROVE  bytes' = bytes /\ position' \in position .. Len(bytes) /\ last'.kind = "bytes"
  <2>1. count \in Nat
    BY ReaderAssumption
  <2> QED BY <1>1, <1>3, <2>1, FixedOnward DEF ReadBytes
<1>4. CASE ReadCompact
  <2>1. Returns("compact", 0, Compact(position))
    BY <1>4 DEF ReadCompact
  <2>2. Compact(position).position \in position .. Len(bytes)
    BY CompactOnward
  <2> QED BY <1>1, <2>1, <2>2
<1>5. CASE ReadCommand
  <2>1. Returns("command", FIELD_LENGTH, CommandAt(position))
    BY <1>5 DEF ReadCommand, CommandAt
  <2>2. CommandAt(position).position \in position .. Len(bytes)
    BY CommandOnward
  <2> QED BY <1>1, <2>1, <2>2
<1> QED BY <1>2, <1>3, <1>4, <1>5 DEF ReaderNext

\* CursorInv is an invariant of every sequence of reads.
LEMMA CursorInvHolds ==
  ReaderSpec => []CursorInv
<1>1. ReaderInit => CursorInv
  <2>1. \A b \in BoundedSeq(AnyByte, MaxLength) : b \in Seq(AnyByte) /\ Len(b) <= MaxLength
    BY BoundedIsSeq, ReaderAssumption
  <2> QED BY <2>1 DEF ReaderInit, CursorInv, Nothing
<1>2. CursorInv /\ [ReaderNext]_cursorVars => CursorInv'
  <2> SUFFICES ASSUME CursorInv, [ReaderNext]_cursorVars
               PROVE  CursorInv'
    OBVIOUS
  <2>1. ASSUME bytes' = bytes
        PROVE  \A from : CommandAt(from)' = CommandAt(from) /\ Compact(from)' = Compact(from)
    BY <2>1 DEF CommandAt, Compact, Fixed, Takes
  <2>2. CASE ReaderNext
    <3>1. /\ bytes' = bytes
          /\ position' \in position .. Len(bytes)
          /\ last'.kind = "command" =>
               /\ last'.from = position
               /\ last'.result = CommandAt(position).result
               /\ position' = CommandAt(position).position
          /\ last'.kind = "compact" =>
               /\ last'.from = position
               /\ last'.result = Compact(position).result
               /\ position' = Compact(position).position
      BY <2>2, ReaderStep
    <3>2. Len(bytes) \in Nat /\ position \in Nat
      BY DEF CursorInv
    <3> QED BY <2>1, <3>1, <3>2 DEF CursorInv
  <2>3. CASE UNCHANGED cursorVars
    BY <2>1, <2>3 DEF CursorInv, cursorVars
  <2> QED BY <2>2, <2>3
<1> QED BY <1>1, <1>2, PTL DEF ReaderSpec

\* No read of a byte_reader.rs cursor goes back or past the end of its input,
\* whatever the input and the lengths asked for.
THEOREM OnlyForwardHolds ==
  ReaderSpec => OnlyForward
<1>1. CursorInv /\ [ReaderNext]_cursorVars =>
        [position <= position' /\ position' <= Len(bytes)]_cursorVars
  <2> SUFFICES ASSUME CursorInv, ReaderNext
               PROVE  position <= position' /\ position' <= Len(bytes)
    OBVIOUS
  <2>1. position' \in position .. Len(bytes)
    BY ReaderStep
  <2>2. Len(bytes) \in Nat /\ position \in Nat
    BY DEF CursorInv
  <2> QED BY <2>1, <2>2
<1> QED BY <1>1, CursorInvHolds, PTL DEF ReaderSpec, OnlyForward

\* The units of a stream between two places.
LEMMA SliceIs ==
  ASSUME NEW S, NEW s \in Seq(S), NEW a \in 0 .. Len(s), NEW b \in a .. Len(s)
  PROVE  /\ SubSeq(s, a + 1, b) \in Seq(S)
         /\ Len(SubSeq(s, a + 1, b)) = b - a
         /\ \A i \in 1 .. b - a : SubSeq(s, a + 1, b)[i] = s[a + i]
<1>1. Len(s) \in Nat /\ a \in Nat /\ b \in Nat /\ a <= b /\ b <= Len(s)
  OBVIOUS
<1>2. SubSeq(s, a + 1, b) \in Seq(S) /\ Len(SubSeq(s, a + 1, b)) = b - a
  BY <1>1, SubSeqProperties
<1>3. ASSUME NEW i \in 1 .. b - a
      PROVE  SubSeq(s, a + 1, b)[i] = s[a + i]
  <2>1. (a + 1) + i - 1 = a + i /\ i \in 1 .. b - (a + 1) + 1
    BY <1>1
  <2> QED BY <1>1, <2>1, SubSeqProperties
<1> QED BY <1>2, <1>3

\* Where a field's padding begins.
FirstNull(b) == Min(Nulls(b) \cup {Len(b) + 1})

LEMMA FirstNullIs ==
  ASSUME NEW b \in Seq(Nat)
  PROVE  /\ FirstNull(b) \in 1 .. Len(b) + 1
         /\ FirstNull(b) <= Len(b) => b[FirstNull(b)] = 0
         /\ \A i \in 1 .. FirstNull(b) - 1 : b[i] # 0
<1> DEFINE S == Nulls(b) \cup {Len(b) + 1}
<1>1. Len(b) \in Nat /\ DOMAIN b = 1 .. Len(b) /\ S \subseteq 1 .. Len(b) + 1 /\ Len(b) + 1 \in S
  BY DEF Nulls
<1>2. \E k \in S : \A j \in S : k <= j
  <2>1. S \in SUBSET Nat /\ S # {}
    BY <1>1
  <2> HIDE DEF S
  <2> QED BY <2>1, LeastNumber
<1>3. FirstNull(b) \in S /\ \A j \in S : FirstNull(b) <= j
  BY <1>2 DEF FirstNull, Min
<1>4. ASSUME NEW i \in 1 .. FirstNull(b) - 1
      PROVE  b[i] # 0
  <2>1. FirstNull(b) \in 1 .. Len(b) + 1
    BY <1>1, <1>3
  <2>2. i \in DOMAIN b /\ ~ (FirstNull(b) <= i)
    BY <1>1, <2>1
  <2> QED BY <1>3, <2>2 DEF Nulls
<1>5. FirstNull(b) <= Len(b) => b[FirstNull(b)] = 0
  BY <1>1, <1>3 DEF Nulls
<1> QED BY <1>1, <1>3, <1>4, <1>5

\* What parse_command_12 takes off the padding of, up to where it begins.
LEMMA CleanedIs ==
  ASSUME NEW b \in Seq(Nat)
  PROVE  /\ Cleaned(b) \in Seq(Nat)
         /\ Len(Cleaned(b)) = FirstNull(b) - 1
         /\ \A i \in 1 .. FirstNull(b) - 1 : Cleaned(b)[i] = b[i]
<1>1. FirstNull(b) \in 1 .. Len(b) + 1 /\ Len(b) \in Nat
  BY FirstNullIs
<1>2. Cleaned(b) = SubSeq(b, 1, FirstNull(b) - 1)
  BY DEF Cleaned, FirstNull
<1> QED BY <1>1, <1>2

\* A field that parses is the field of the name it parses to.
LEMMA ParsedPadsBack ==
  ASSUME NEW b \in Seq(Nat), Len(b) = FIELD_LENGTH, ParsesCommand(b)
  PROVE  Legal(Cleaned(b)) /\ command_12(Cleaned(b)) = b
<1> DEFINE m == FirstNull(b)
<1>1. m \in 1 .. FIELD_LENGTH + 1 /\ FIELD_LENGTH \in Nat /\ DOMAIN b = 1 .. FIELD_LENGTH
  BY FirstNullIs, FieldAssumption
<1>2. Len(Cleaned(b)) = m - 1 /\ \A i \in 1 .. m - 1 : Cleaned(b)[i] = b[i]
  BY CleanedIs
<1>3. ASSUME NEW i \in m .. FIELD_LENGTH
      PROVE  b[i] = 0
  <2>1. m \in DOMAIN b /\ b[m] = 0
    BY <1>1, <1>3, FirstNullIs
  <2>2. m \in Nulls(b)
    BY <2>1 DEF Nulls
  <2>3. m .. Len(b) \subseteq Nulls(b)
    BY <2>2 DEF ParsesCommand
  <2> QED BY <1>1, <2>3 DEF Nulls
<1>4. ASSUME NEW i \in 1 .. FIELD_LENGTH
      PROVE  (IF i <= Len(Cleaned(b)) THEN Cleaned(b)[i] ELSE 0) = b[i]
  <2> HIDE DEF m
  <2>1. CASE i <= m - 1
    BY <1>1, <1>2, <2>1
  <2>2. CASE i >= m
    BY <1>1, <1>2, <1>3, <2>2
  <2> QED BY <1>1, <2>1, <2>2
<1>5. command_12(Cleaned(b)) = b
  <2>1. b = [i \in 1 .. FIELD_LENGTH |-> b[i]]
    BY <1>1
  <2> QED BY <1>4, <2>1 DEF command_12
<1>6. Legal(Cleaned(b))
  BY <1>1, <1>2 DEF Legal, ParsesCommand
<1> QED BY <1>5, <1>6

\* The field of a name without a NUL parses, to that name.
LEMMA PaddedParses ==
  ASSUME NEW name \in Seq(1 .. ASCII_BOUND - 1), Len(name) <= FIELD_LENGTH,
         NEW b \in Seq(Nat), b = command_12(name)
  PROVE  ParsesCommand(b) /\ parse_command_12(b) = name
<1> DEFINE n == Len(name)
           m == FirstNull(b)
<1>1. n \in Nat /\ \A i \in 1 .. n : name[i] \in 1 .. ASCII_BOUND - 1
  BY LenProperties, ElementOfSeq
<1>2. /\ FIELD_LENGTH \in Nat /\ ASCII_BOUND \in Nat
      /\ DOMAIN b = 1 .. FIELD_LENGTH
      /\ \A i \in 1 .. FIELD_LENGTH : b[i] = IF i <= n THEN name[i] ELSE 0
  BY FieldAssumption DEF command_12
<1>3. Len(b) = FIELD_LENGTH
  BY <1>2
<1> HIDE DEF n
<1>4. n <= FIELD_LENGTH
  BY DEF n
<1>5. \A i \in 1 .. n : b[i] # 0 /\ b[i] < ASCII_BOUND /\ i \in 1 .. FIELD_LENGTH
  BY <1>1, <1>2, <1>4, SMTT(60)
<1>6. \A i \in n + 1 .. FIELD_LENGTH : b[i] = 0 /\ i \in 1 .. FIELD_LENGTH
  BY <1>1, <1>2, <1>4
<1>7. /\ m \in 1 .. FIELD_LENGTH + 1
      /\ m <= FIELD_LENGTH => b[m] = 0
      /\ \A i \in 1 .. m - 1 : b[i] # 0
  BY <1>3, FirstNullIs
<1>8. m = n + 1
  <2> HIDE DEF m
  <2>1. ~ (m <= n)
    BY <1>1, <1>4, <1>5, <1>7, <1>2
  <2>2. ~ (m > n + 1)
    <3> SUFFICES ASSUME m > n + 1 PROVE FALSE
      OBVIOUS
    <3>1. n + 1 \in 1 .. m - 1 /\ n + 1 \in n + 1 .. FIELD_LENGTH
      BY <1>1, <1>2, <1>7
    <3> QED BY <1>6, <1>7, <3>1
  <2> QED BY <1>1, <1>2, <1>7, <2>1, <2>2
<1>9. /\ Cleaned(b) \in Seq(Nat) /\ Len(Cleaned(b)) = n
      /\ \A i \in 1 .. n : Cleaned(b)[i] = b[i]
  <2>1. m - 1 = n
    BY <1>1, <1>8
  <2> QED BY <2>1, CleanedIs
<1>10. Cleaned(b) = name
  <2>1. \A i \in 1 .. n : Cleaned(b)[i] = name[i]
    BY <1>1, <1>2, <1>4, <1>5, <1>9
  <2>2. name = [i \in 1 .. n |-> name[i]] /\ Cleaned(b) = [i \in 1 .. n |-> Cleaned(b)[i]]
    BY <1>9, LenProperties DEF n
  <2> QED BY <2>1, <2>2
<1>11. is_ascii(Cleaned(b))
  <2>1. DOMAIN name = 1 .. n
    BY DEF n
  <2> QED BY <1>1, <1>2, <1>10, <2>1 DEF is_ascii
<1>12. ASSUME NEW i \in Nulls(b)
       PROVE  i .. Len(b) \subseteq Nulls(b)
  <2>1. i \in 1 .. FIELD_LENGTH /\ i >= n + 1
    BY <1>1, <1>2, <1>5 DEF Nulls
  <2>2. ASSUME NEW j \in i .. Len(b)
        PROVE  j \in Nulls(b)
    BY <1>1, <1>2, <1>3, <1>6, <2>1 DEF Nulls
  <2> QED BY <2>2
<1> QED BY <1>10, <1>11, <1>12 DEF ParsesCommand, parse_command_12

\* The command of a header is read as one name only, written back as the bytes
\* it was read from, and every name this code writes is read as itself, for
\* every length of the field.
THEOREM OneFieldHolds ==
  ReaderSpec => []OneFieldPerName
<1>1. ASSUME CursorInv
      PROVE  OneFieldPerName
  <2> SUFFICES ASSUME last.kind = "command"
               PROVE  /\ last.result.ok =>
                           /\ Legal(last.result.value)
                           /\ command_12(last.result.value) = SubSeq(bytes, last.from + 1, position)
                      /\ \A name \in BoundedSeq(1 .. ASCII_BOUND - 1, FIELD_LENGTH) :
                           IsPrefix(command_12(name), Rest) => last.result.ok /\ last.result.value = name
    BY DEF OneFieldPerName
  <2> DEFINE from == last.from
             to == from + FIELD_LENGTH
             field == SubSeq(bytes, from + 1, to)
             array == Fixed(from, FIELD_LENGTH)
  <2>1. /\ bytes \in Seq(Nat) /\ Len(bytes) \in Nat /\ Len(bytes) <= USIZE_MAX
        /\ from \in 0 .. Len(bytes) /\ FIELD_LENGTH \in Nat
    <3>1. AnyByte \subseteq Nat
      BY ReaderAssumption DEF AnyByte
    <3>2. \A i \in 1 .. Len(bytes) : bytes[i] \in AnyByte
      BY <1>1 DEF CursorInv
    <3>3. bytes = [i \in 1 .. Len(bytes) |-> bytes[i]] /\ Len(bytes) \in Nat
      BY <1>1 DEF CursorInv
    <3>4. bytes \in Seq(Nat)
      BY <3>1, <3>2, <3>3
    <3> QED BY <1>1, <3>3, <3>4, ReaderAssumption, FieldAssumption DEF CursorInv
  <2>2. /\ last.result = IF array.result.ok /\ ParsesCommand(field) THEN Ok(Cleaned(field)) ELSE Err
        /\ position = array.position
    <3>1. CommandAt(from) = [array EXCEPT !.result =
            IF array.result.ok /\ ParsesCommand(field) THEN Ok(Cleaned(field)) ELSE Err]
      BY DEF CommandAt, Fixed, parse_command_12
    <3>2. last.result = CommandAt(from).result /\ position = CommandAt(from).position
      BY <1>1 DEF CursorInv
    <3> QED BY <3>1, <3>2 DEF Fixed
  <2>3. to <= Len(bytes) => array.result.ok /\ array.position = to
    BY <2>1, ReaderAssumption DEF Fixed, Takes, End, Ok
  <2>4. array.result.ok => to <= Len(bytes)
    BY DEF Fixed, Takes, End, Err
  <2>5. to <= Len(bytes) => field \in Seq(Nat) /\ Len(field) = FIELD_LENGTH
    BY <2>1, SMTT(60)
  <2> HIDE DEF array
  <2>6. ASSUME last.result.ok
        PROVE  /\ Legal(last.result.value)
               /\ command_12(last.result.value) = SubSeq(bytes, last.from + 1, position)
    <3>1. array.result.ok /\ ParsesCommand(field) /\ last.result.value = Cleaned(field)
      BY <2>2, <2>6 DEF Ok, Err
    <3>2. field \in Seq(Nat) /\ Len(field) = FIELD_LENGTH /\ position = to
      BY <2>2, <2>3, <2>4, <2>5, <3>1
    <3> HIDE DEF field, to
    <3>3. Legal(Cleaned(field)) /\ command_12(Cleaned(field)) = field
      BY <3>1, <3>2, ParsedPadsBack
    <3> QED BY <3>1, <3>2, <3>3 DEF field
  <2>7. ASSUME NEW name \in BoundedSeq(1 .. ASCII_BOUND - 1, FIELD_LENGTH),
               IsPrefix(command_12(name), Rest)
        PROVE  last.result.ok /\ last.result.value = name
    <3>1. name \in Seq(1 .. ASCII_BOUND - 1) /\ Len(name) <= FIELD_LENGTH
      BY <2>1, BoundedIsSeq
    <3>2. command_12(name) \in Seq(Nat) /\ Len(command_12(name)) = FIELD_LENGTH
      <4>1. ASSUME NEW i \in 1 .. FIELD_LENGTH
            PROVE  (IF i <= Len(name) THEN name[i] ELSE 0) \in Nat
        <5>1. Len(name) \in Nat /\ \A j \in 1 .. Len(name) : name[j] \in 1 .. ASCII_BOUND - 1
          BY <3>1, LenProperties, ElementOfSeq
        <5> QED BY <5>1, FieldAssumption
      <4>2. command_12(name) \in [1 .. FIELD_LENGTH -> Nat]
        BY <4>1 DEF command_12
      <4> QED BY <2>1, <4>2
    <3>3. Rest \in Seq(Nat) /\ Len(Rest) = Len(bytes) - from
          /\ \A i \in 1 .. Len(bytes) - from : Rest[i] = bytes[from + i]
      <4>1. Len(bytes) \in from .. Len(bytes)
        BY <2>1
      <4> QED BY <2>1, <4>1, SliceIs, SMTT(60) DEF Rest
    <3>4. FIELD_LENGTH <= Len(bytes) - from
          /\ SubSeq(command_12(name), 1, FIELD_LENGTH) = SubSeq(Rest, 1, FIELD_LENGTH)
      BY <2>7, <3>2, <3>3 DEF IsPrefix
    <3>5. to <= Len(bytes)
      BY <2>1, <3>4
    <3>6. field = SubSeq(Rest, 1, FIELD_LENGTH)
      <4>1. ASSUME NEW i \in 1 .. FIELD_LENGTH
            PROVE  field[i] = SubSeq(Rest, 1, FIELD_LENGTH)[i]
        <5>1. i \in 1 .. Len(bytes) - from /\ from + i = (from + 1) + i - 1
          BY <2>1, <3>4
        <5>2. SubSeq(Rest, 1, FIELD_LENGTH)[i] = Rest[i]
          BY <2>1, <3>3, <3>4, SMTT(60)
        <5>3. field[i] = bytes[from + i]
          <6>1. to \in from .. Len(bytes) /\ i \in 1 .. to - from
            BY <2>1, <3>5
          <6> QED BY <2>1, <6>1, SliceIs
        <5> QED BY <3>3, <5>1, <5>2, <5>3
      <4>2. SubSeq(Rest, 1, FIELD_LENGTH) \in Seq(Nat) /\ Len(SubSeq(Rest, 1, FIELD_LENGTH)) = FIELD_LENGTH
        BY <2>1, <3>3, <3>4, SMTT(60)
      <4> HIDE DEF field
      <4> QED BY <2>5, <3>5, <4>1, <4>2, SeqEqual
    <3>7. SubSeq(command_12(name), 1, FIELD_LENGTH) = command_12(name)
      BY <3>2
    <3>8. field \in Seq(Nat) /\ field = command_12(name)
      BY <2>5, <3>4, <3>5, <3>6, <3>7
    <3> HIDE DEF field
    <3>9. ParsesCommand(field) /\ Cleaned(field) = name
      BY <3>1, <3>8, PaddedParses DEF parse_command_12
    <3> QED BY <2>2, <2>3, <3>5, <3>9 DEF Ok
  <2> QED BY <2>6, <2>7
<1> QED BY <1>1, CursorInvHolds, PTL

-----------------------------------------------------------------------------
(* Compact integers.                                                       *)

\* f begins with a and goes on as step says.
Recurs(f, n, a, step) == f[0] = a /\ \A k \in 1 .. n : f[k] = step[k][f[k - 1]]

\* A recursion that goes up from 0 defines a function.
LEMMA Recursion ==
  ASSUME NEW S, NEW n \in Nat, NEW a \in S, NEW step \in [1 .. n -> [S -> S]]
  PROVE  \E f \in [0 .. n -> S] : Recurs(f, n, a, step)
<1> DEFINE Good(m) == \E f \in [0 .. m -> S] : Recurs(f, m, a, step)
           Bad == {m \in 0 .. n : ~ Good(m)}
<1>1. ASSUME Bad # {}
      PROVE  FALSE
  <2>1. PICK m \in Bad : \A j \in Bad : m <= j
    <3>1. Bad \subseteq Nat
      OBVIOUS
    <3> HIDE DEF Bad
    <3> QED BY <1>1, <3>1, LeastNumber
  <2>2. m \in 0 .. n /\ ~ Good(m)
    BY <2>1
  <2>3. m # 0
    <3>1. [k \in 0 .. 0 |-> a] \in [0 .. 0 -> S] /\ Recurs([k \in 0 .. 0 |-> a], 0, a, step)
      BY DEF Recurs
    <3>2. Good(0)
      BY <3>1
    <3> QED BY <2>2, <3>2
  <2>4. m - 1 \in 0 .. n /\ m \in 1 .. n /\ ~ (m <= m - 1)
    BY <2>2, <2>3
  <2>5. Good(m - 1)
    <3>1. m - 1 \notin Bad
      <4> HIDE DEF Bad
      <4> QED BY <2>1, <2>4
    <3> HIDE DEF Good
    <3> QED BY <2>4, <3>1
  <2>6. PICK f \in [0 .. m - 1 -> S] : Recurs(f, m - 1, a, step)
    BY <2>5
  <2> DEFINE g == [k \in 0 .. m |-> IF k < m THEN f[k] ELSE step[m][f[m - 1]]]
  <2>7. g \in [0 .. m -> S]
    <3>1. step[m] \in [S -> S] /\ f[m - 1] \in S
      BY <2>4
    <3> QED BY <2>4, <3>1
  <2>8. g[0] = a
    BY <2>4, <2>6 DEF Recurs
  <2>9. ASSUME NEW k \in 1 .. m
        PROVE  g[k] = step[k][g[k - 1]]
    <3>1. k - 1 \in 0 .. m /\ k - 1 < m /\ g[k - 1] = f[k - 1]
      BY <2>4
    <3>2. CASE k < m
      BY <2>4, <2>6, <3>1, <3>2 DEF Recurs
    <3>3. CASE k = m
      BY <2>4, <3>1, <3>3
    <3> QED BY <2>4, <3>2, <3>3
  <2>10. Good(m)
    <3> HIDE DEF g
    <3> QED BY <2>7, <2>8, <2>9 DEF Recurs
  <2> QED BY <2>2, <2>10
<1>2. n \in 0 .. n
  OBVIOUS
<1>3. Good(n)
  <2> HIDE DEF Good
  <2> QED BY <1>1, <1>2
<1> QED BY <1>3

\* The powers of the base.
LEMMA PowerIs ==
  /\ Power \in [0 .. U64 -> Nat \ {0}]
  /\ Power[0] = 1
  /\ \A k \in 1 .. U64 : Power[k] = BASE * Power[k - 1]
<1> DEFINE P == Nat \ {0}
           step == [k \in 1 .. U64 |-> [x \in P |-> BASE * x]]
<1>1. BASE \in Nat /\ BASE > 3 /\ U64 \in Nat
  BY ReaderAssumption
<1>2. \A x \in P : BASE * x \in P
  BY <1>1
<1>3. step \in [1 .. U64 -> [P -> P]] /\ 1 \in P
  BY <1>2
<1>4. PICK f \in [0 .. U64 -> P] : f[0] = 1 /\ \A k \in 1 .. U64 : f[k] = step[k][f[k - 1]]
  <2> HIDE DEF step, P
  <2>1. \E f \in [0 .. U64 -> P] : Recurs(f, U64, 1, step)
    BY <1>1, <1>3, Recursion
  <2> QED BY <2>1 DEF Recurs
<1>5. \A k \in 1 .. U64 : f[k] = BASE * f[k - 1] /\ k - 1 \in 0 .. U64
  <2>1. ASSUME NEW k \in 1 .. U64
        PROVE  f[k] = BASE * f[k - 1] /\ k - 1 \in 0 .. U64
    <3>1. k - 1 \in 0 .. U64
      BY <1>1
    <3>2. f[k - 1] \in P /\ f[k] = step[k][f[k - 1]]
      BY <1>4, <3>1
    <3> QED BY <3>1, <3>2
  <2> QED BY <2>1
<1>6. f = [k \in 0 .. U64 |-> IF k = 0 THEN 1 ELSE BASE * f[k - 1]]
  BY <1>1, <1>4, <1>5
<1>7. Power = [k \in 0 .. U64 |-> IF k = 0 THEN 1 ELSE BASE * Power[k - 1]]
  BY <1>6 DEF Power
<1> DEFINE Bad == {k \in 0 .. U64 : Power[k] # f[k]}
<1>8. ASSUME Bad # {}
      PROVE  FALSE
  <2>1. PICK k \in Bad : \A j \in Bad : k <= j
    <3>1. Bad \subseteq Nat
      BY <1>1
    <3> HIDE DEF Bad
    <3> QED BY <1>8, <3>1, LeastNumber
  <2>2. k \in 0 .. U64 /\ Power[k] # f[k]
    BY <2>1
  <2>3. k # 0
    BY <1>4, <1>7, <2>2
  <2>4. k - 1 \in 0 .. U64 /\ k \in 1 .. U64 /\ ~ (k <= k - 1)
    BY <1>1, <2>2, <2>3
  <2>5. Power[k - 1] = f[k - 1]
    BY <2>1, <2>4
  <2>6. Power[k] = BASE * Power[k - 1]
    BY <1>7, <2>2, <2>3
  <2> QED BY <1>5, <2>2, <2>4, <2>5, <2>6
<1>9. Power = f
  BY <1>4, <1>7, <1>8
<1> QED BY <1>4, <1>5, <1>9

\* A power is at least the base.
LEMMA PowerGrows ==
  ASSUME NEW w \in 1 .. U64
  PROVE  BASE <= Power[w]
<1>1. Power[w] = BASE * Power[w - 1] /\ Power[w - 1] \in Nat \ {0} /\ BASE \in Nat
  <2>1. w - 1 \in 0 .. U64
    BY ReaderAssumption
  <2> QED BY <2>1, PowerIs, ReaderAssumption
<1>2. PICK p \in Nat : p = Power[w - 1] /\ p >= 1
  BY <1>1
<1>3. BASE * p >= BASE
  BY <1>1, <1>2
<1> QED BY <1>1, <1>2, <1>3

\* Division with remainder.
LEMMA DivisionIs ==
  ASSUME NEW n \in Nat, NEW m \in Nat \ {0}
  PROVE  n \div m \in Nat /\ n % m \in 0 .. m - 1 /\ n = (n \div m) * m + (n % m)
OBVIOUS

LEMMA DivisionUnique ==
  ASSUME NEW m \in Nat \ {0}, NEW s \in Nat, NEW t \in 0 .. m - 1, NEW q \in Nat, NEW r \in 0 .. m - 1,
         s * m + t = q * m + r
  PROVE  s = q /\ t = r
<1>1. ASSUME NEW x \in Nat, NEW y \in Nat, x < y, NEW d \in 0 .. m - 1, NEW e \in 0 .. m - 1
      PROVE  x * m + d # y * m + e
  <2>1. PICK z \in Nat : y = x + 1 + z
    <3>1. y - x - 1 \in Nat /\ y = x + 1 + (y - x - 1)
      BY <1>1
    <3> QED BY <3>1
  <2>2. y * m = x * m + m + z * m
    BY <2>1
  <2>3. z * m >= 0 /\ x * m \in Nat
    OBVIOUS
  <2> QED BY <2>2, <2>3
<1>2. s = q
  <2>1. s < q \/ q < s \/ s = q
    OBVIOUS
  <2> QED BY <1>1, <2>1
<1> QED BY <1>2

\* Dividing by two numbers in turn is dividing by their product.
LEMMA DivisionInTurn ==
  ASSUME NEW n \in Nat, NEW p \in Nat \ {0}, NEW b \in Nat \ {0}
  PROVE  n \div (b * p) = (n \div p) \div b
<1>1. PICK q \in Nat, r \in 0 .. p - 1 : q = n \div p /\ n = q * p + r
  <2>1. n \div p \in Nat /\ n % p \in 0 .. p - 1 /\ n = (n \div p) * p + (n % p)
    BY DivisionIs
  <2> QED BY <2>1
<1>2. PICK s \in Nat, d \in 0 .. b - 1 : s = q \div b /\ q = s * b + d
  <2>1. q \div b \in Nat /\ q % b \in 0 .. b - 1 /\ q = (q \div b) * b + (q % b)
    BY DivisionIs
  <2> QED BY <2>1
<1>3. PICK m \in Nat \ {0} : m = b * p
  <2>1. b * p \in Nat \ {0}
    OBVIOUS
  <2> QED BY <2>1
<1>4. PICK t \in 0 .. m - 1 : t = d * p + r
  <2>1. d * p + r \in Nat
    OBVIOUS
  <2>2. PICK e \in Nat : b = d + 1 + e
    <3>1. b - d - 1 \in Nat /\ b = d + 1 + (b - d - 1)
      OBVIOUS
    <3> QED BY <3>1
  <2>3. b * p = d * p + p + e * p
    BY <2>2
  <2>4. e * p >= 0 /\ e * p \in Nat /\ d * p \in Nat
    OBVIOUS
  <2>5. d * p + r < m
    BY <1>3, <2>3, <2>4
  <2> QED BY <2>1, <2>5
<1>5. n = s * m + t
  <2>1. q * p = (s * b) * p + d * p
    <3>1. PICK c \in Nat : c = s * b
      OBVIOUS
    <3>2. (c + d) * p = c * p + d * p
      OBVIOUS
    <3> QED BY <1>2, <3>1, <3>2
  <2>2. (s * b) * p = s * m
    BY <1>3
  <2> QED BY <1>1, <1>4, <2>1, <2>2
<1>6. n \div m \in Nat /\ n % m \in 0 .. m - 1 /\ n = (n \div m) * m + (n % m)
  BY DivisionIs
<1>7. n \div m = s
  <2>1. PICK x \in Nat, y \in 0 .. m - 1 : x = n \div m /\ y = n % m
    BY <1>6
  <2>2. s * m + t = x * m + y
    BY <1>5, <1>6, <2>1
  <2>3. s = x
    BY <2>2, DivisionUnique
  <2> QED BY <2>1, <2>3
<1> QED BY <1>1, <1>2, <1>3, <1>7

\* What bytes are worth is what satisfies the recursion.
LEMMA ValueIs ==
  ASSUME NEW b, Len(b) \in Nat, NEW v,
         v = [k \in 0 .. Len(b) |-> IF k = 0 THEN 0 ELSE b[Len(b) - k + 1] + BASE * v[k - 1]]
  PROVE  from_le_bytes(b) = v[Len(b)]
<1> DEFINE n == Len(b)
           h == CHOOSE g : g = [k \in 0 .. n |-> IF k = 0 THEN 0 ELSE b[n - k + 1] + BASE * g[k - 1]]
<1>1. from_le_bytes(b) = h[n]
  BY DEF from_le_bytes
<1>2. h = [k \in 0 .. n |-> IF k = 0 THEN 0 ELSE b[n - k + 1] + BASE * h[k - 1]]
  OBVIOUS
<1> HIDE DEF h
<1> DEFINE Bad == {k \in 0 .. n : h[k] # v[k]}
<1>3. ASSUME Bad # {}
      PROVE  FALSE
  <2>1. PICK k \in Bad : \A j \in Bad : k <= j
    <3>1. Bad \subseteq Nat
      OBVIOUS
    <3> HIDE DEF Bad
    <3> QED BY <1>3, <3>1, LeastNumber
  <2>2. k \in 0 .. n /\ h[k] # v[k]
    BY <2>1
  <2>3. k # 0
    BY <1>2, <2>2
  <2>4. k - 1 \in 0 .. n /\ ~ (k <= k - 1)
    BY <2>2, <2>3
  <2>5. h[k - 1] = v[k - 1]
    BY <2>1, <2>4
  <2>6. h[k] = b[n - k + 1] + BASE * h[k - 1]
    BY <1>2, <2>2, <2>3
  <2>7. v[k] = b[n - k + 1] + BASE * v[k - 1]
    BY <2>2, <2>3
  <2> QED BY <2>2, <2>5, <2>6, <2>7
<1>4. n \in 0 .. n
  OBVIOUS
<1> QED BY <1>1, <1>3, <1>4

\* A number that a width holds is written in that width, and read back.
LEMMA BytesReadBack ==
  ASSUME NEW n \in Nat, NEW w \in 1 .. U64, n < Power[w]
  PROVE  /\ to_le_bytes(n, w) \in Seq(AnyByte) /\ Len(to_le_bytes(n, w)) = w
         /\ from_le_bytes(to_le_bytes(n, w)) = n
<1> DEFINE b == to_le_bytes(n, w)
           v == [k \in 0 .. w |-> n \div Power[w - k]]
<1>1. BASE \in Nat \ {0} /\ U64 \in Nat /\ w \in Nat
  BY ReaderAssumption
<1>2. \A k \in 0 .. U64 : Power[k] \in Nat \ {0}
  BY PowerIs
<1>3. \A i \in 1 .. w : i - 1 \in 0 .. U64 /\ (n \div Power[i - 1]) % BASE \in AnyByte
  <2>1. ASSUME NEW i \in 1 .. w
        PROVE  i - 1 \in 0 .. U64 /\ (n \div Power[i - 1]) % BASE \in AnyByte
    <3>1. i - 1 \in 0 .. U64
      BY <1>1
    <3>2. PICK p \in Nat \ {0} : p = Power[i - 1]
      BY <1>2, <3>1
    <3>3. n \div p \in Nat
      BY DivisionIs
    <3>4. (n \div p) % BASE \in 0 .. BASE - 1
      BY <1>1, <3>3, DivisionIs
    <3> QED BY <3>1, <3>2, <3>4 DEF AnyByte
  <2> QED BY <2>1
<1>4. b \in [1 .. w -> AnyByte] /\ \A i \in 1 .. w : b[i] = (n \div Power[i - 1]) % BASE
  BY <1>3 DEF to_le_bytes
<1>5. b \in Seq(AnyByte) /\ Len(b) = w
  BY <1>1, <1>4
<1> HIDE DEF b
<1>6. ASSUME NEW k \in 1 .. w
      PROVE  n \div Power[w - k] = b[w - k + 1] + BASE * (n \div Power[w - (k - 1)])
  <2>1. w - k \in 0 .. U64 /\ w - (k - 1) \in 1 .. U64 /\ (w - (k - 1)) - 1 = w - k /\ w - k + 1 \in 1 .. w
        /\ (w - k + 1) - 1 = w - k
    BY <1>1
  <2>2. PICK p \in Nat \ {0} : p = Power[w - k]
    BY <1>2, <2>1
  <2>3. Power[w - (k - 1)] = BASE * p
    BY <2>1, <2>2, PowerIs
  <2>4. PICK q \in Nat : q = n \div p
    BY DivisionIs
  <2>5. n \div (BASE * p) = q \div BASE
    BY <1>1, <2>4, DivisionInTurn
  <2>6. b[w - k + 1] = q % BASE
    BY <1>4, <2>1, <2>2, <2>4
  <2>7. q = (q \div BASE) * BASE + (q % BASE) /\ q \div BASE \in Nat /\ q % BASE \in 0 .. BASE - 1
    BY <1>1, DivisionIs
  <2>8. q = (q % BASE) + BASE * (q \div BASE)
    BY <1>1, <2>7
  <2> QED BY <2>2, <2>3, <2>4, <2>5, <2>6, <2>8
<1>7. n \div Power[w] = 0
  <2>1. PICK p \in Nat \ {0} : p = Power[w]
    BY <1>1, <1>2
  <2>2. n < p
    BY <2>1
  <2>3. n \div p = 0
    BY <2>2
  <2> QED BY <2>1, <2>3
<1>8. v = [k \in 0 .. w |-> IF k = 0 THEN 0 ELSE b[w - k + 1] + BASE * v[k - 1]]
  <2>1. ASSUME NEW k \in 0 .. w
        PROVE  v[k] = IF k = 0 THEN 0 ELSE b[w - k + 1] + BASE * v[k - 1]
    <3>1. CASE k = 0
      BY <1>1, <1>7, <3>1
    <3>2. CASE k # 0
      <4>1. k \in 1 .. w /\ k - 1 \in 0 .. w
        BY <1>1, <3>2
      <4>2. v[k] = n \div Power[w - k] /\ v[k - 1] = n \div Power[w - (k - 1)]
        BY <4>1
      <4> QED BY <1>6, <3>2, <4>1, <4>2
    <3> QED BY <3>1, <3>2
  <2> QED BY <2>1
<1>9. from_le_bytes(b) = v[w]
  <2> HIDE DEF v
  <2> QED BY <1>1, <1>5, <1>8, ValueIs
<1>10. v[w] = n
  <2>1. v[w] = n \div Power[0]
    BY <1>1
  <2>2. Power[0] = 1
    BY PowerIs
  <2>3. n \div 1 = n
    OBVIOUS
  <2> QED BY <2>1, <2>2, <2>3
<1> QED BY <1>5, <1>9, <1>10 DEF b

\* The encoding of a number: itself below the markers, otherwise the marker of
\* a width that holds it and its bytes.
LEMMA CompactForms ==
  ASSUME NEW n \in 0 .. Power[U64] - 1
  PROVE  \/ n < BASE - 3 /\ get_compact_int(n) = to_le_bytes(n, 1)
         \/ \E i \in 1 .. 3 :
              LET w == <<U16, U32, U64>>[i]
              IN  n < Power[w] /\ get_compact_int(n) = <<BASE - 4 + i>> \o to_le_bytes(n, w)
<1>1. /\ BASE \in Nat /\ BASE > 3 /\ U16 \in 1 .. U64 /\ U32 \in 1 .. U64 /\ U64 \in 1 .. U64
  BY ReaderAssumption
<1>2. PICK p \in Nat, q \in Nat, r \in Nat : p = Power[U16] /\ q = Power[U32] /\ r = Power[U64]
  <2>1. U16 \in 0 .. U64 /\ U32 \in 0 .. U64 /\ U64 \in 0 .. U64
    BY <1>1, ReaderAssumption
  <2>2. Power[U16] \in Nat /\ Power[U32] \in Nat /\ Power[U64] \in Nat
    BY <2>1, PowerIs
  <2> QED BY <2>2
<1>3. BASE <= p /\ BASE <= q /\ n \in Nat /\ n < r
  BY <1>1, <1>2, PowerGrows
<1>4. <<U16, U32, U64>>[1] = U16 /\ <<U16, U32, U64>>[2] = U32 /\ <<U16, U32, U64>>[3] = U64
  OBVIOUS
<1>5. /\ BASE - 4 + 1 = BASE - 3 /\ BASE - 4 + 2 = BASE - 2 /\ BASE - 4 + 3 = BASE - 1
      /\ 1 \in 1 .. 3 /\ 2 \in 1 .. 3 /\ 3 \in 1 .. 3
  BY <1>1
<1>6. CASE n < BASE - 3
  <2>1. ~ (n >= BASE - 3) /\ ~ (n >= p) /\ ~ (n >= q)
    BY <1>1, <1>3, <1>6
  <2> QED BY <1>2, <1>6, <2>1 DEF get_compact_int
<1>7. CASE n >= BASE - 3 /\ n < p
  <2>1. ~ (n < BASE - 3) /\ ~ (n >= p)
    BY <1>1, <1>2, <1>3, <1>7
  <2>2. get_compact_int(n) = <<BASE - 3>> \o to_le_bytes(n, U16)
    BY <1>2, <1>7, <2>1 DEF get_compact_int
  <2> QED BY <1>2, <1>4, <1>5, <1>7, <2>2
<1>8. CASE n >= p /\ n < q
  <2>1. ~ (n < BASE - 3) /\ ~ (n < p)
    BY <1>1, <1>2, <1>3, <1>8
  <2>2. get_compact_int(n) = <<BASE - 2>> \o to_le_bytes(n, U32)
    BY <1>2, <1>8, <2>1 DEF get_compact_int
  <2> QED BY <1>2, <1>4, <1>5, <1>8, <2>2
<1>9. CASE n >= p /\ n >= q
  <2>1. ~ (n < BASE - 3) /\ ~ (n < p) /\ ~ (n < q)
    BY <1>1, <1>2, <1>3, <1>9
  <2>2. get_compact_int(n) = <<BASE - 1>> \o to_le_bytes(n, U64)
    BY <1>2, <2>1 DEF get_compact_int
  <2> QED BY <1>2, <1>3, <1>4, <1>5, <2>2
<1>10. n < BASE - 3 \/ (n >= BASE - 3 /\ n < p) \/ (n >= p /\ n < q) \/ (n >= p /\ n >= q)
  BY <1>1, <1>2, <1>3
<1> QED BY <1>6, <1>7, <1>8, <1>9, <1>10

\* A read of bytes that are there gives what they are worth.
LEMMA FixedReads ==
  ASSUME CursorInv, NEW from \in Nat, NEW b \in Seq(AnyByte), from + Len(b) <= Len(bytes),
         \A i \in 1 .. Len(b) : bytes[from + i] = b[i]
  PROVE  Fixed(from, Len(b)) = [result |-> Ok(from_le_bytes(b)), position |-> from + Len(b)]
<1>1. bytes \in Seq(AnyByte) /\ Len(bytes) \in Nat /\ Len(bytes) <= USIZE_MAX /\ Len(b) \in Nat
  BY ReaderAssumption DEF CursorInv
<1>2. Takes(from, Len(b))
  BY <1>1, ReaderAssumption DEF Takes, End
<1> DEFINE slice == SubSeq(bytes, from + 1, from + Len(b))
<1>3. /\ slice \in Seq(AnyByte) /\ Len(slice) = Len(b)
      /\ \A i \in 1 .. Len(b) : slice[i] = bytes[from + i]
  <2>1. from \in 0 .. Len(bytes) /\ from + Len(b) \in from .. Len(bytes) /\ (from + Len(b)) - from = Len(b)
    BY <1>1
  <2> QED BY <1>1, <2>1, SliceIs
<1> HIDE DEF slice
<1>4. slice = b
  BY <1>3, SeqEqual
<1> QED BY <1>2, <1>4 DEF Fixed, End, slice

\* The first unit and the others of a sequence that begins with a unit.
LEMMA AfterTheFirst ==
  ASSUME NEW S, NEW x \in S, NEW s \in Seq(S)
  PROVE  /\ <<x>> \o s \in Seq(S) /\ Len(<<x>> \o s) = Len(s) + 1
         /\ (<<x>> \o s)[1] = x
         /\ \A i \in 1 .. Len(s) : (<<x>> \o s)[i + 1] = s[i]
OBVIOUS

\* One byte is worth itself.
LEMMA OneByte ==
  ASSUME NEW x \in AnyByte
  PROVE  from_le_bytes(<<x>>) = x
<1>1. BASE \in Nat /\ x \in Nat /\ BASE > 3
  BY ReaderAssumption DEF AnyByte
<1> DEFINE v == [k \in 0 .. 1 |-> IF k = 0 THEN 0 ELSE x]
<1>2. Len(<<x>>) = 1 /\ <<x>>[1] = x
  OBVIOUS
<1>3. v = [k \in 0 .. 1 |-> IF k = 0 THEN 0 ELSE <<x>>[1 - k + 1] + BASE * v[k - 1]]
  <2>1. ASSUME NEW k \in 0 .. 1
        PROVE  v[k] = IF k = 0 THEN 0 ELSE <<x>>[1 - k + 1] + BASE * v[k - 1]
    <3>1. CASE k = 0
      BY <3>1
    <3>2. CASE k = 1
      <4>1. 1 - k + 1 = 1 /\ k - 1 = 0 /\ v[0] = 0 /\ v[1] = x
        BY <3>2
      <4>2. x + BASE * 0 = x
        BY <1>1
      <4> QED BY <1>2, <3>2, <4>1, <4>2
    <3> QED BY <3>1, <3>2
  <2> QED BY <2>1
<1>4. v[1] = x
  OBVIOUS
<1> HIDE DEF v
<1>5. from_le_bytes(<<x>>) = v[1]
  BY <1>2, <1>3, ValueIs
<1> QED BY <1>4, <1>5

\* read_compact gives back the number that get_compact_int wrote, in every
\* base and for every three widths, whatever is before and after it.
THEOREM CompactHolds ==
  ReaderSpec => []CompactReadsBack
<1>1. ASSUME CursorInv
      PROVE  CompactReadsBack
  <2> SUFFICES ASSUME last.kind = "compact", NEW n \in 0 .. Power[U64] - 1, IsPrefix(get_compact_int(n), Rest)
               PROVE  last.result = Ok(n) /\ position = last.from + Len(get_compact_int(n))
    BY DEF CompactReadsBack
  <2> DEFINE from == last.from
             c == get_compact_int(n)
  <2>1. /\ bytes \in Seq(AnyByte) /\ Len(bytes) \in Nat /\ from \in 0 .. Len(bytes)
        /\ last.result = Compact(from).result /\ position = Compact(from).position
    BY <1>1 DEF CursorInv
  <2>2. /\ BASE \in Nat /\ BASE > 3 /\ U16 \in 1 .. U64 /\ U32 \in 1 .. U64 /\ U64 \in 1 .. U64 /\ n \in Nat
        /\ 1 \in 1 .. U64
    <3>1. Power[U64] \in Nat
      BY PowerIs, ReaderAssumption
    <3> QED BY <3>1, ReaderAssumption
  <2>3. Rest \in Seq(AnyByte) /\ Len(Rest) = Len(bytes) - from
        /\ \A i \in 1 .. Len(bytes) - from : Rest[i] = bytes[from + i]
    <3>1. Len(bytes) \in from .. Len(bytes)
      BY <2>1
    <3> QED BY <2>1, <3>1, SliceIs, ZenonT(60) DEF Rest
  <2> HIDE DEF from
  <2>4. ASSUME c \in Seq(AnyByte)
        PROVE  from + Len(c) <= Len(bytes) /\ \A i \in 1 .. Len(c) : bytes[from + i] = c[i]
    <3>1. Len(c) <= Len(Rest) /\ SubSeq(c, 1, Len(c)) = SubSeq(Rest, 1, Len(c)) /\ Len(c) \in Nat
      BY <2>4 DEF IsPrefix
    <3>2. \A i \in 1 .. Len(c) : SubSeq(c, 1, Len(c))[i] = c[i] /\ SubSeq(Rest, 1, Len(c))[i] = Rest[i]
      BY <2>1, <2>3, <2>4, <3>1
    <3> QED BY <2>1, <2>3, <3>1, <3>2
  <2>5. CASE n < BASE - 3 /\ c = to_le_bytes(n, 1)
    <3>1. n < Power[1]
      <4>1. Power[1] \in Nat /\ BASE <= Power[1]
        BY <2>2, PowerIs, PowerGrows
      <4> QED BY <2>2, <2>5, <4>1
    <3>2. c \in Seq(AnyByte) /\ Len(c) = 1 /\ from_le_bytes(c) = n
      BY <2>2, <2>5, <3>1, BytesReadBack
    <3> HIDE DEF c
    <3>3. Fixed(from, 1) = [result |-> Ok(n), position |-> from + 1]
      <4>1. /\ from \in Nat /\ from + Len(c) <= Len(bytes)
            /\ \A i \in 1 .. Len(c) : bytes[from + i] = c[i]
        BY <2>1, <2>4, <3>2
      <4>2. Fixed(from, Len(c)) = [result |-> Ok(from_le_bytes(c)), position |-> from + Len(c)]
        BY <1>1, <3>2, <4>1, FixedReads
      <4> QED BY <3>2, <4>2
    <3>4. n \notin BASE - 3 .. BASE - 1
      BY <2>2, <2>5
    <3>5. Compact(from) = Fixed(from, 1)
      BY <3>3, <3>4 DEF Compact, Ok
    <3> QED BY <2>1, <3>2, <3>3, <3>5 DEF from, c
  <2>6. ASSUME NEW i \in 1 .. 3, n < Power[<<U16, U32, U64>>[i]],
               c = <<BASE - 4 + i>> \o to_le_bytes(n, <<U16, U32, U64>>[i])
        PROVE  last.result = Ok(n) /\ position = last.from + Len(c)
    <3>1. PICK w \in 1 .. U64 : w = <<U16, U32, U64>>[i]
      <4>1. i = 1 \/ i = 2 \/ i = 3
        OBVIOUS
      <4> QED BY <2>2, <4>1
    <3>2. PICK x \in AnyByte : x = BASE - 4 + i
      BY <2>2 DEF AnyByte
    <3>3. PICK b \in Seq(AnyByte) : b = to_le_bytes(n, w) /\ Len(b) = w /\ from_le_bytes(b) = n
      BY <2>2, <2>6, <3>1, BytesReadBack
    <3>4. c = <<x>> \o b
      BY <2>6, <3>1, <3>2, <3>3
    <3> HIDE DEF c
    <3>5. /\ c \in Seq(AnyByte) /\ Len(c) = w + 1 /\ c[1] = x
          /\ \A k \in 1 .. w : c[k + 1] = b[k]
      BY <3>3, <3>4, AfterTheFirst
    <3>6. from + Len(c) <= Len(bytes) /\ \A k \in 1 .. Len(c) : bytes[from + k] = c[k]
      BY <2>4, <3>5
    <3>7. Fixed(from, 1) = [result |-> Ok(x), position |-> from + 1]
      <4>1. <<x>> \in Seq(AnyByte) /\ Len(<<x>>) = 1 /\ <<x>>[1] = x
        OBVIOUS
      <4>2. from + 1 <= Len(bytes) /\ \A k \in 1 .. 1 : bytes[from + k] = <<x>>[k]
        <5>1. 1 \in 1 .. Len(c) /\ from + 1 <= Len(bytes)
          <6>1. w \in Nat /\ 1 <= w /\ from \in Nat /\ Len(bytes) \in Nat
            BY <2>1, <3>1, ReaderAssumption
          <6> QED BY <3>5, <3>6, <6>1
        <5>2. bytes[from + 1] = x
          BY <3>5, <3>6, <5>1
        <5>3. \A k \in 1 .. 1 : k = 1
          OBVIOUS
        <5> QED BY <4>1, <5>1, <5>2, <5>3
      <4>3. PICK s \in Seq(AnyByte) : s = <<x>>
        BY <4>1
      <4>4. Len(s) = 1 /\ from + Len(s) <= Len(bytes) /\ \A k \in 1 .. Len(s) : bytes[from + k] = s[k]
        BY <4>1, <4>2, <4>3
      <4>5. Fixed(from, Len(s)) = [result |-> Ok(from_le_bytes(s)), position |-> from + Len(s)]
        <5>1. from \in Nat
          BY <2>1
        <5> QED BY <1>1, <4>4, <5>1, FixedReads
      <4>6. from_le_bytes(s) = x
        BY <4>3, OneByte
      <4> QED BY <4>4, <4>5, <4>6
    <3>8. Fixed(from + 1, w) = [result |-> Ok(n), position |-> (from + 1) + w]
      <4>1. from + 1 \in Nat /\ (from + 1) + w <= Len(bytes)
        BY <2>1, <3>1, <3>5, <3>6, SMTT(60)
      <4>2. ASSUME NEW k \in 1 .. w
            PROVE  bytes[(from + 1) + k] = b[k]
        <5>1. k + 1 \in 1 .. Len(c) /\ from + (k + 1) = (from + 1) + k
          BY <2>1, <3>1, <3>5, SMTT(60)
        <5> QED BY <3>5, <3>6, <5>1
      <4> QED BY <1>1, <3>3, <4>1, <4>2, FixedReads
    <3>9. x \in BASE - 3 .. BASE - 1 /\ x - (BASE - 4) = i
      BY <2>2, <3>2
    <3>10. Compact(from) = Fixed(from + 1, w)
      BY <3>1, <3>7, <3>9 DEF Compact, Ok
    <3>11. (from + 1) + w = from + Len(c)
      <4>1. w \in Nat /\ from \in Nat
        BY <2>1, <3>1, ReaderAssumption
      <4> QED BY <3>5, <4>1
    <3> QED BY <2>1, <3>8, <3>10, <3>11 DEF from
  <2> QED BY <2>5, <2>6, CompactForms
<1> QED BY <1>1, CursorInvHolds, PTL

-----------------------------------------------------------------------------
(* The transactions of a block.                                            *)

\* What a parsed structure may hold: nothing is assumed of its values.
Piece == Field \cup Byte \cup Nat

AnyIn == [tx_id : Piece, v_out : Piece, signature : Seq(Piece), sequence : Piece]
AnyOut == [value : Piece, destiny_pub_key : Seq(Piece)]
AnyTransaction == [version : Piece, inputs : Seq(AnyIn), outputs : Seq(AnyOut), lock_time : Piece]

Stages ==
  DOMAIN Loop \cup DOMAIN NextRead
    \cup {"signature", "sequence", "pub_key", "output", "lock_time", "done", "refused", "panicked", "eof"}

ParserTypeOK ==
  /\ parser \in Stages
  /\ input \in Seq(Piece)
  /\ found \in [DOMAIN Loop \cup DOMAIN NextRead -> Piece]
  /\ \A loop \in DOMAIN Loop : found[loop] \in Nat
  /\ items = [loop \in DOMAIN Loop |-> items[loop]]
  /\ items.tx_count \in Seq(AnyTransaction)
  /\ items.input_count \in Seq(AnyIn) /\ items.output_count \in Seq(AnyOut)
  /\ items.signature_length \in Seq(Piece) /\ items.pub_length \in Seq(Piece)

\* The encodings of the elements of each vector, joined.
Txs(ts) == FlattenSeq([i \in DOMAIN ts |-> TxFormat(ts[i])])
Ins(is) == FlattenSeq([i \in DOMAIN is |-> InFormat(is[i])])
Outs(os) == FlattenSeq([i \in DOMAIN os |-> OutFormat(os[i])])

\* The encoding of what has been found, as far as each of the loops.
Whole == <<found.tx_count>> \o Txs(items.tx_count)
ToInputs == Append(Append(Whole, found.version), found.input_count) \o Ins(items.input_count)
ToSignature == Append(Append(Append(ToInputs, found.tx_id), found.v_out), found.signature_length)
                 \o items.signature_length
ToOutputs == Append(ToInputs, found.output_count) \o Outs(items.output_count)
ToPubKey == Append(Append(ToOutputs, found.value), found.pub_length) \o items.pub_length

Partly(loop) == Len(items[loop]) < found[loop]
Filled(loop) == Len(items[loop]) = found[loop]

\* At every read, the input is the encoding of what has been found, and the
\* loops the parser is in have elements to go.
WhatWasRead ==
  /\ parser = "tx_count" => input = <<>>
  /\ parser \in {"version", "done"} => input = Whole
  /\ parser = "input_count" => input = Append(Whole, found.version)
  /\ parser \in {"tx_id", "v_out", "signature_length", "signature", "sequence"} => Partly("input_count")
  /\ parser = "tx_id" => input = ToInputs
  /\ parser = "v_out" => input = Append(ToInputs, found.tx_id)
  /\ parser = "signature_length" => input = Append(Append(ToInputs, found.tx_id), found.v_out)
  /\ parser = "signature" => input = ToSignature /\ Partly("signature_length")
  /\ parser = "sequence" => input = ToSignature /\ Filled("signature_length")
  /\ parser \in {"output_count", "value", "pub_length", "pub_key", "output", "lock_time"} =>
       Filled("input_count")
  /\ parser = "output_count" => input = ToInputs
  /\ parser \in {"value", "pub_length", "pub_key", "output"} => Partly("output_count")
  /\ parser = "value" => input = ToOutputs
  /\ parser = "pub_length" => input = Append(ToOutputs, found.value)
  /\ parser = "pub_key" => input = ToPubKey /\ Partly("pub_length")
  /\ parser = "output" => input = ToPubKey /\ Filled("pub_length")
  /\ parser = "lock_time" => input = ToOutputs /\ Filled("output_count")

ParserInv == ParserTypeOK /\ WhatWasRead

\* A unit read after two parts is read after the second.
LEMMA LastJoins ==
  ASSUME NEW S, NEW s \in Seq(S), NEW t \in Seq(S), NEW x \in S
  PROVE  Append(s \o t, x) = s \o (t \o <<x>>)
<1>1. s \o t \in Seq(S) /\ <<x>> \in Seq(S)
  OBVIOUS
<1>2. Append(s \o t, x) = (s \o t) \o <<x>>
  BY <1>1, AppendIsConcat
<1>3. (s \o t) \o <<x>> = s \o (t \o <<x>>)
  BY <1>1, ConcatAssociative
<1> QED BY <1>2, <1>3

\* What two units in turn add is the pair.
LEMMA PairJoins ==
  ASSUME NEW S, NEW a \in Seq(S), NEW x \in S, NEW y \in S
  PROVE  <<x, y>> \in Seq(S) /\ Append(Append(a, x), y) = a \o <<x, y>>
<1>1. Append(a, x) = a \o <<x>> /\ <<x>> \in Seq(S)
  BY AppendIsConcat
<1>2. Append(a \o <<x>>, y) = a \o Append(<<x>>, y)
  BY <1>1
<1>3. Append(<<x>>, y) = <<x, y>> /\ <<x, y>> \in Seq(S)
  <2>1. PICK h \in Seq(S) : h = <<x>> /\ Len(h) = 1 /\ h[1] = x
    BY <1>1
  <2>2. Append(h, y) \in Seq(S) /\ Len(Append(h, y)) = 2 /\ Append(h, y)[1] = x /\ Append(h, y)[2] = y
    BY <2>1
  <2>3. <<x, y>> \in Seq(S) /\ Len(<<x, y>>) = 2 /\ <<x, y>>[1] = x /\ <<x, y>>[2] = y
    OBVIOUS
  <2>4. \A i \in 1 .. 2 : i = 1 \/ i = 2
    OBVIOUS
  <2>5. \A i \in 1 .. Len(Append(h, y)) : Append(h, y)[i] = <<x, y>>[i]
    BY <2>2, <2>3, <2>4
  <2> QED BY <2>1, <2>2, <2>3, <2>5, SeqEqual
<1> QED BY <1>1, <1>2, <1>3

\* What a pair and a sequence add to what is before them.
LEMMA OutJoins ==
  ASSUME NEW S, NEW a \in Seq(S), NEW x \in S, NEW l \in S, NEW s \in Seq(S)
  PROVE  /\ <<x, l>> \o s \in Seq(S)
         /\ Append(Append(a, x), l) \o s = a \o (<<x, l>> \o s)
<1>1. Append(Append(a, x), l) = a \o <<x, l>> /\ <<x, l>> \in Seq(S)
  BY PairJoins
<1>2. (a \o <<x, l>>) \o s = a \o (<<x, l>> \o s)
  BY <1>1, ConcatAssociative
<1> QED BY <1>1, <1>2, ConcatProperties

\* The encodings are units, and one element more adds its own.
LEMMA InsJoin ==
  ASSUME NEW is \in Seq(AnyIn), NEW i \in AnyIn
  PROVE  Ins(is) \in Seq(Piece) /\ InFormat(i) \in Seq(Piece) /\ Ins(Append(is, i)) = Ins(is) \o InFormat(i)
<1> DEFINE f(s) == [k \in DOMAIN s |-> InFormat(s[k])]
<1>1. \A x \in AnyIn : InFormat(x) \in Seq(Piece)
  BY DEF AnyIn, InFormat, Piece
<1>2. f(is) \in Seq(Seq(Piece))
  <2>1. Len(is) \in Nat /\ DOMAIN is = 1 .. Len(is) /\ \A k \in 1 .. Len(is) : is[k] \in AnyIn
    OBVIOUS
  <2>2. f(is) \in [1 .. Len(is) -> Seq(Piece)]
    BY <1>1, <2>1
  <2> QED BY <2>1, <2>2
<1>3. f(Append(is, i)) = Append(f(is), InFormat(i))
  OBVIOUS
<1> HIDE DEF f
<1> QED BY <1>1, <1>2, <1>3, FlattenAppend DEF Ins, f

LEMMA OutsJoin ==
  ASSUME NEW os \in Seq(AnyOut), NEW o \in AnyOut
  PROVE  Outs(os) \in Seq(Piece) /\ OutFormat(o) \in Seq(Piece) /\ Outs(Append(os, o)) = Outs(os) \o OutFormat(o)
<1> DEFINE f(s) == [k \in DOMAIN s |-> OutFormat(s[k])]
<1>1. \A x \in AnyOut : OutFormat(x) \in Seq(Piece)
  BY DEF AnyOut, OutFormat, Piece
<1>2. f(os) \in Seq(Seq(Piece))
  <2>1. Len(os) \in Nat /\ DOMAIN os = 1 .. Len(os) /\ \A k \in 1 .. Len(os) : os[k] \in AnyOut
    OBVIOUS
  <2>2. f(os) \in [1 .. Len(os) -> Seq(Piece)]
    BY <1>1, <2>1
  <2> QED BY <2>1, <2>2
<1>3. f(Append(os, o)) = Append(f(os), OutFormat(o))
  OBVIOUS
<1> HIDE DEF f
<1> QED BY <1>1, <1>2, <1>3, FlattenAppend DEF Outs, f

LEMMA TxsJoin ==
  ASSUME NEW ts \in Seq(AnyTransaction), NEW t \in AnyTransaction
  PROVE  Txs(ts) \in Seq(Piece) /\ TxFormat(t) \in Seq(Piece) /\ Txs(Append(ts, t)) = Txs(ts) \o TxFormat(t)
<1> DEFINE f(s) == [k \in DOMAIN s |-> TxFormat(s[k])]
<1>1. ASSUME NEW x \in AnyTransaction
      PROVE  TxFormat(x) \in Seq(Piece)
  <2>1. x.version \in Piece /\ x.inputs \in Seq(AnyIn) /\ x.outputs \in Seq(AnyOut) /\ x.lock_time \in Piece
    BY DEF AnyTransaction
  <2>2. \E i \in AnyIn, o \in AnyOut : TRUE
    <3>1. 0 \in Piece /\ <<>> \in Seq(Piece)
      BY DEF Piece
    <3>2. [tx_id |-> 0, v_out |-> 0, signature |-> <<>>, sequence |-> 0] \in AnyIn
      BY <3>1 DEF AnyIn
    <3>3. [value |-> 0, destiny_pub_key |-> <<>>] \in AnyOut
      BY <3>1 DEF AnyOut
    <3> QED BY <3>2, <3>3
  <2>3. Ins(x.inputs) \in Seq(Piece) /\ Outs(x.outputs) \in Seq(Piece)
    BY <2>1, <2>2, InsJoin, OutsJoin
  <2>4. Len(x.inputs) \in Piece /\ Len(x.outputs) \in Piece
    BY <2>1 DEF Piece
  <2>5. TxFormat(x) = <<x.version, Len(x.inputs)>> \o Ins(x.inputs) \o <<Len(x.outputs)>>
                        \o Outs(x.outputs) \o <<x.lock_time>>
    BY DEF TxFormat, Ins, Outs
  <2> QED BY <2>1, <2>3, <2>4, <2>5
<1>2. f(ts) \in Seq(Seq(Piece))
  <2>1. Len(ts) \in Nat /\ DOMAIN ts = 1 .. Len(ts) /\ \A k \in 1 .. Len(ts) : ts[k] \in AnyTransaction
    OBVIOUS
  <2>2. f(ts) \in [1 .. Len(ts) -> Seq(Piece)]
    BY <1>1, <2>1
  <2> QED BY <2>1, <2>2
<1>3. f(Append(ts, t)) = Append(f(ts), TxFormat(t))
  OBVIOUS
<1> HIDE DEF f
<1> QED BY <1>1, <1>2, <1>3, FlattenAppend DEF Txs, f

\* The encodings of what has been found are units.
LEMMA SoFarType ==
  ASSUME ParserTypeOK
  PROVE  /\ Txs(items.tx_count) \in Seq(Piece) /\ Whole \in Seq(Piece)
         /\ Ins(items.input_count) \in Seq(Piece) /\ ToInputs \in Seq(Piece)
         /\ Outs(items.output_count) \in Seq(Piece) /\ ToOutputs \in Seq(Piece)
<1> USE DEF ParserTypeOK
<1>1. \E i \in AnyIn, o \in AnyOut, t \in AnyTransaction : TRUE
  <2>1. 0 \in Piece /\ <<>> \in Seq(Piece) /\ <<>> \in Seq(AnyIn) /\ <<>> \in Seq(AnyOut)
    BY DEF Piece
  <2>2. [tx_id |-> 0, v_out |-> 0, signature |-> <<>>, sequence |-> 0] \in AnyIn
    BY <2>1 DEF AnyIn
  <2>3. [value |-> 0, destiny_pub_key |-> <<>>] \in AnyOut
    BY <2>1 DEF AnyOut
  <2>4. [version |-> 0, inputs |-> <<>>, outputs |-> <<>>, lock_time |-> 0] \in AnyTransaction
    BY <2>1 DEF AnyTransaction
  <2> QED BY <2>2, <2>3, <2>4
<1>2. Txs(items.tx_count) \in Seq(Piece)
  BY <1>1, TxsJoin
<1>3. Ins(items.input_count) \in Seq(Piece)
  BY <1>1, InsJoin
<1>4. Outs(items.output_count) \in Seq(Piece)
  BY <1>1, OutsJoin
<1>5. /\ found.tx_count \in Piece /\ found.version \in Piece
      /\ found.input_count \in Piece /\ found.output_count \in Piece
  BY DEF Loop, NextRead
<1>6. Whole \in Seq(Piece)
  BY <1>2, <1>5 DEF Whole
<1>7. ToInputs \in Seq(Piece)
  <2>1. Append(Append(Whole, found.version), found.input_count) \in Seq(Piece)
    BY <1>5, <1>6
  <2> QED BY <1>3, <2>1 DEF ToInputs
<1>8. ToOutputs \in Seq(Piece)
  <2>1. Append(ToInputs, found.output_count) \in Seq(Piece)
    BY <1>5, <1>7
  <2> QED BY <1>4, <2>1 DEF ToOutputs
<1> QED BY <1>2, <1>3, <1>4, <1>6, <1>7, <1>8

\* Steps keep the types.
LEMMA ParserTypeStep ==
  ASSUME ParserTypeOK, [TransactionNext]_transactionVars
  PROVE  ParserTypeOK'
<1> USE DEF ParserTypeOK
<1>1. /\ DOMAIN Loop = {"tx_count", "input_count", "signature_length", "output_count", "pub_length"}
      /\ DOMAIN NextRead = {"version", "tx_id", "v_out", "value"}
  BY DEF Loop, NextRead
<1>2. ASSUME NEW loop \in DOMAIN Loop, NEW got, NEW claimed
      PROVE  Turn(loop, got, claimed) \in Stages
  BY DEF Turn, Loop, NextRead, Stages
<1>3. ASSUME NEW u \in Piece, Reads(u)
      PROVE  input' \in Seq(Piece)
  BY <1>3 DEF Reads
<1>4. Count \subseteq Nat /\ Field \subseteq Piece /\ Byte \subseteq Piece /\ Nat \subseteq Piece
  BY TransactionAssumption DEF Piece
<1>5. ASSUME NEW n \in Count, ReadCount(n)
      PROVE  ParserTypeOK'
  <2>1. parser' \in Stages
    BY <1>2, <1>5 DEF ReadCount, Stages
  <2>2. input' \in Seq(Piece)
    BY <1>3, <1>4, <1>5 DEF ReadCount
  <2>3. /\ found' \in [DOMAIN Loop \cup DOMAIN NextRead -> Piece]
        /\ \A loop \in DOMAIN Loop : found'[loop] \in Nat
    BY <1>4, <1>5 DEF ReadCount
  <2>4. /\ items' = [loop \in DOMAIN Loop |-> items'[loop]]
        /\ \A loop \in DOMAIN Loop : items'[loop] = IF loop = parser THEN <<>> ELSE items[loop]
    BY <1>5 DEF ReadCount
  <2>5. <<>> \in Seq(AnyTransaction) /\ <<>> \in Seq(AnyIn) /\ <<>> \in Seq(AnyOut) /\ <<>> \in Seq(Piece)
    OBVIOUS
  <2> QED BY <1>1, <2>1, <2>2, <2>3, <2>4, <2>5
<1>6. ASSUME NEW u \in Field, ReadField(u)
      PROVE  ParserTypeOK'
  <2>1. parser' \in Stages
    BY <1>6 DEF ReadField, NextRead, Loop, Stages
  <2>2. input' \in Seq(Piece)
    BY <1>3, <1>4, <1>6 DEF ReadField
  <2>3. /\ found' \in [DOMAIN Loop \cup DOMAIN NextRead -> Piece]
        /\ \A loop \in DOMAIN Loop : found'[loop] \in Nat
    BY <1>1, <1>4, <1>6 DEF ReadField
  <2> QED BY <1>6, <2>1, <2>2, <2>3 DEF ReadField
<1>7. ASSUME NEW loop \in DOMAIN Loop, NEW element, Push(loop, element), input' \in Seq(Piece),
             \/ loop = "tx_count" /\ element \in AnyTransaction
             \/ loop = "input_count" /\ element \in AnyIn
             \/ loop = "output_count" /\ element \in AnyOut
             \/ loop \in {"signature_length", "pub_length"} /\ element \in Piece
      PROVE  ParserTypeOK'
  <2>1. parser' \in Stages
    BY <1>2, <1>7 DEF Push
  <2>2. /\ items' = [l \in DOMAIN Loop |-> items'[l]]
        /\ \A l \in DOMAIN Loop : items'[l] = IF l = loop THEN Append(items[loop], element) ELSE items[l]
    BY <1>7 DEF Push
  <2>3. found' = found
    BY <1>7 DEF Push
  <2>4. /\ items'.tx_count \in Seq(AnyTransaction)
        /\ items'.input_count \in Seq(AnyIn) /\ items'.output_count \in Seq(AnyOut)
        /\ items'.signature_length \in Seq(Piece) /\ items'.pub_length \in Seq(Piece)
    <3>1. CASE loop = "tx_count" /\ element \in AnyTransaction
      <4>1. items'.tx_count = Append(items.tx_count, element) /\ \A x \in DOMAIN Loop \ {loop} : items'[x] = items[x]
        BY <1>1, <2>2, <3>1
      <4>2. items'.tx_count \in Seq(AnyTransaction)
        BY <3>1, <4>1, AppendProperties
      <4> QED BY <1>1, <3>1, <4>1, <4>2
    <3>2. CASE loop = "input_count" /\ element \in AnyIn
      <4>1. items'.input_count = Append(items.input_count, element) /\ \A x \in DOMAIN Loop \ {loop} : items'[x] = items[x]
        BY <1>1, <2>2, <3>2
      <4>2. items'.input_count \in Seq(AnyIn)
        BY <3>2, <4>1, AppendProperties
      <4> QED BY <1>1, <3>2, <4>1, <4>2
    <3>3. CASE loop = "output_count" /\ element \in AnyOut
      <4>1. items'.output_count = Append(items.output_count, element) /\ \A x \in DOMAIN Loop \ {loop} : items'[x] = items[x]
        BY <1>1, <2>2, <3>3
      <4>2. items'.output_count \in Seq(AnyOut)
        BY <3>3, <4>1, AppendProperties
      <4> QED BY <1>1, <3>3, <4>1, <4>2
    <3>4. CASE loop \in {"signature_length", "pub_length"} /\ element \in Piece
      <4>1. items'[loop] = Append(items[loop], element) /\ \A x \in DOMAIN Loop \ {loop} : items'[x] = items[x]
        BY <1>1, <2>2, <3>4
      <4>2. items[loop] \in Seq(Piece)
        BY <3>4
      <4>3. items'[loop] \in Seq(Piece)
        BY <3>4, <4>1, <4>2, AppendProperties
      <4> QED BY <1>1, <3>4, <4>1, <4>3
    <3> QED BY <1>7, <3>1, <3>2, <3>3, <3>4
  <2> QED BY <1>7, <2>1, <2>2, <2>3, <2>4
<1>8. ASSUME NEW b \in Byte, ReadByte(b)
      PROVE  ParserTypeOK'
  <2>1. PICK loop \in {"signature_length", "pub_length"} : Push(loop, b)
    BY <1>8 DEF ReadByte
  <2> QED BY <1>1, <1>3, <1>4, <1>7, <1>8, <2>1 DEF ReadByte
<1>9. ASSUME NEW u \in Field, ReadSequence(u)
      PROVE  ParserTypeOK'
  <2> DEFINE i == [tx_id |-> found.tx_id, v_out |-> found.v_out,
                   signature |-> items.signature_length, sequence |-> u]
  <2>1. i \in AnyIn
    BY <1>1, <1>4 DEF AnyIn
  <2>2. Push("input_count", i) /\ Reads(u)
    BY <1>9 DEF ReadSequence
  <2> QED BY <1>1, <1>3, <1>4, <1>7, <2>1, <2>2
<1>10. ASSUME MakeOutput
       PROVE  ParserTypeOK'
  <2> DEFINE o == [value |-> found.value, destiny_pub_key |-> items.pub_length]
  <2>1. o \in AnyOut
    BY <1>1 DEF AnyOut
  <2>2. Push("output_count", o) /\ input' = input
    BY <1>10 DEF MakeOutput
  <2> QED BY <1>1, <1>7, <2>1, <2>2
<1>11. ASSUME NEW u \in Field, ReadLockTime(u)
       PROVE  ParserTypeOK'
  <2> DEFINE t == [version |-> found.version, inputs |-> items.input_count,
                   outputs |-> items.output_count, lock_time |-> u]
  <2>1. t \in AnyTransaction
    BY <1>1, <1>4 DEF AnyTransaction
  <2>2. Push("tx_count", t) /\ Reads(u)
    BY <1>11 DEF ReadLockTime
  <2> QED BY <1>1, <1>3, <1>4, <1>7, <2>1, <2>2
<1>12. CASE InvalidUtf8 \/ Eof
  BY <1>12 DEF InvalidUtf8, Eof, Stages
<1>13. CASE Over \/ UNCHANGED transactionVars
  BY <1>13 DEF Over, transactionVars
<1> QED BY <1>5, <1>6, <1>8, <1>9, <1>10, <1>11, <1>12, <1>13 DEF TransactionNext

\* Nothing is joined to nothing.
LEMMA JoinNothing ==
  ASSUME NEW s \in Seq(Piece)
  PROVE  /\ Txs(<<>>) = <<>> /\ Ins(<<>>) = <<>> /\ Outs(<<>>) = <<>>
         /\ s \o <<>> = s /\ <<>> \o s = s
<1>1. FlattenSeq(<<>>) = <<>>
  BY DEF FlattenSeq
<1>2. /\ [i \in DOMAIN <<>> |-> TxFormat(<<>>[i])] = <<>>
      /\ [i \in DOMAIN <<>> |-> InFormat(<<>>[i])] = <<>>
      /\ [i \in DOMAIN <<>> |-> OutFormat(<<>>[i])] = <<>>
  OBVIOUS
<1> QED BY <1>1, <1>2, ConcatEmptySeq DEF Txs, Ins, Outs

\* A count begins its loop, or ends it at once.
LEMMA CountsKeep ==
  ASSUME ParserInv, NEW n \in Count, ReadCount(n)
  PROVE  WhatWasRead'
<1> USE DEF ParserInv
<1>1. /\ DOMAIN Loop = {"tx_count", "input_count", "signature_length", "output_count", "pub_length"}
      /\ DOMAIN NextRead = {"version", "tx_id", "v_out", "value"}
      /\ n \in Nat /\ n \in Piece
  BY TransactionAssumption DEF Loop, NextRead, Piece
<1>2. /\ parser \in DOMAIN Loop
      /\ input' = Append(input, n) /\ input \in Seq(Piece)
      /\ \A name \in DOMAIN Loop \cup DOMAIN NextRead : found'[name] = IF name = parser THEN n ELSE found[name]
      /\ \A loop \in DOMAIN Loop : items'[loop] = IF loop = parser THEN <<>> ELSE items[loop]
      /\ parser' = "panicked" \/ parser' = Turn(parser, 0, n)
  BY DEF ReadCount, Reads, ParserTypeOK
<1>3. n = 0 \/ 0 < n
  BY <1>1
<1>4. ~ (0 < 0) /\ Len(<<>>) = 0
  OBVIOUS
<1>5. Append(input, n) \in Seq(Piece)
  BY <1>1, <1>2
<1>6. CASE parser = "tx_count"
  <2>1. parser' \in {"version", "done", "panicked"}
    BY <1>2, <1>6 DEF Turn, Loop
  <2>2. input' = <<n>>
    BY <1>2, <1>6 DEF WhatWasRead
  <2>3. Whole' = <<n>> \o Txs(<<>>)
    BY <1>1, <1>2, <1>6 DEF Whole, Txs
  <2>4. Whole' = <<n>>
    BY <1>5, <1>2, <2>2, <2>3, JoinNothing
  <2> QED BY <2>1, <2>2, <2>4 DEF WhatWasRead
<1>7. CASE parser = "input_count"
  <2>1. \/ parser' = "panicked"
        \/ parser' = "tx_id" /\ 0 < n
        \/ parser' = "output_count" /\ n = 0
    BY <1>2, <1>3, <1>4, <1>7 DEF Turn, Loop
  <2>2. Whole' = Whole
    BY <1>1, <1>2, <1>7 DEF Whole, Txs
  <2>3. ToInputs' = Append(Append(Whole, found.version), n) \o Ins(<<>>)
    BY <1>1, <1>2, <1>7, <2>2 DEF ToInputs, Ins
  <2>4. ToInputs' = input'
    BY <1>2, <1>5, <1>7, <2>3, JoinNothing DEF WhatWasRead
  <2>5. (0 < n => Partly("input_count")') /\ (n = 0 => Filled("input_count")')
    BY <1>1, <1>2, <1>4, <1>7 DEF Partly, Filled
  <2> QED BY <2>1, <2>4, <2>5 DEF WhatWasRead
<1>8. CASE parser = "signature_length"
  <2>1. \/ parser' = "panicked"
        \/ parser' = "signature" /\ 0 < n
        \/ parser' = "sequence" /\ n = 0
    BY <1>2, <1>3, <1>4, <1>8 DEF Turn, Loop
  <2>2. ToInputs' = ToInputs
    BY <1>1, <1>2, <1>8 DEF Whole, Txs, ToInputs, Ins
  <2>3. ToSignature' = Append(Append(Append(ToInputs, found.tx_id), found.v_out), n) \o <<>>
    BY <1>1, <1>2, <1>8, <2>2 DEF ToSignature
  <2>4. ToSignature' = input'
    BY <1>2, <1>5, <1>8, <2>3, JoinNothing DEF WhatWasRead
  <2>5. (0 < n => Partly("signature_length")') /\ (n = 0 => Filled("signature_length")')
    BY <1>1, <1>2, <1>4, <1>8 DEF Partly, Filled
  <2>6. Partly("input_count")'
    BY <1>1, <1>2, <1>8 DEF Partly, WhatWasRead
  <2> QED BY <2>1, <2>4, <2>5, <2>6 DEF WhatWasRead
<1>9. CASE parser = "output_count"
  <2>1. \/ parser' = "panicked"
        \/ parser' = "value" /\ 0 < n
        \/ parser' = "lock_time" /\ n = 0
    BY <1>2, <1>3, <1>4, <1>9 DEF Turn, Loop
  <2>2. ToInputs' = ToInputs
    BY <1>1, <1>2, <1>9 DEF Whole, Txs, ToInputs, Ins
  <2>3. ToOutputs' = Append(ToInputs, n) \o Outs(<<>>)
    BY <1>1, <1>2, <1>9, <2>2 DEF ToOutputs, Outs
  <2>4. ToOutputs' = input'
    BY <1>2, <1>5, <1>9, <2>3, JoinNothing DEF WhatWasRead
  <2>5. (0 < n => Partly("output_count")') /\ (n = 0 => Filled("output_count")')
    BY <1>1, <1>2, <1>4, <1>9 DEF Partly, Filled
  <2>6. Filled("input_count")'
    BY <1>1, <1>2, <1>9 DEF Filled, WhatWasRead
  <2> QED BY <2>1, <2>4, <2>5, <2>6 DEF WhatWasRead
<1>10. CASE parser = "pub_length"
  <2>1. \/ parser' = "panicked"
        \/ parser' = "pub_key" /\ 0 < n
        \/ parser' = "output" /\ n = 0
    BY <1>2, <1>3, <1>4, <1>10 DEF Turn, Loop
  <2>2. ToInputs' = ToInputs
    BY <1>1, <1>2, <1>10 DEF Whole, Txs, ToInputs, Ins
  <2>3. ToOutputs' = ToOutputs
    BY <1>1, <1>2, <1>10, <2>2 DEF ToOutputs, Outs
  <2>4. ToPubKey' = Append(Append(ToOutputs, found.value), n) \o <<>>
    BY <1>1, <1>2, <1>10, <2>3 DEF ToPubKey
  <2>5. ToPubKey' = input'
    BY <1>2, <1>5, <1>10, <2>4, JoinNothing DEF WhatWasRead
  <2>6. (0 < n => Partly("pub_length")') /\ (n = 0 => Filled("pub_length")')
    BY <1>1, <1>2, <1>4, <1>10 DEF Partly, Filled
  <2>7. Filled("input_count")' /\ Partly("output_count")'
    BY <1>1, <1>2, <1>10 DEF Filled, Partly, WhatWasRead
  <2> QED BY <2>1, <2>5, <2>6, <2>7 DEF WhatWasRead
<1> QED BY <1>1, <1>2, <1>6, <1>7, <1>8, <1>9, <1>10

\* A field that is kept joins what was read before it.
LEMMA FieldsKeep ==
  ASSUME ParserInv, NEW u \in Field, ReadField(u)
  PROVE  WhatWasRead'
<1> USE DEF ParserInv
<1>1. /\ DOMAIN Loop = {"tx_count", "input_count", "signature_length", "output_count", "pub_length"}
      /\ DOMAIN NextRead = {"version", "tx_id", "v_out", "value"}
  BY DEF Loop, NextRead
<1>2. /\ parser \in DOMAIN NextRead /\ parser' = NextRead[parser]
      /\ input' = Append(input, u) /\ items' = items
      /\ \A name \in DOMAIN Loop \cup DOMAIN NextRead : found'[name] = IF name = parser THEN u ELSE found[name]
  BY DEF ReadField, Reads, ParserTypeOK
<1>3. Whole' = Whole
  BY <1>1, <1>2 DEF Whole, Txs
<1>4. CASE parser = "version"
  <2>1. parser' = "input_count"
    BY <1>2, <1>4 DEF NextRead
  <2>2. input' = Append(Whole', found'.version)
    BY <1>1, <1>2, <1>3, <1>4 DEF WhatWasRead
  <2> QED BY <2>1, <2>2 DEF WhatWasRead
<1>5. ASSUME parser # "version"
      PROVE  ToInputs' = ToInputs
  BY <1>1, <1>2, <1>3, <1>5 DEF ToInputs, Ins
<1>6. CASE parser = "tx_id"
  <2>1. parser' = "v_out"
    BY <1>2, <1>6 DEF NextRead
  <2>2. input' = Append(ToInputs', found'.tx_id)
    BY <1>1, <1>2, <1>5, <1>6 DEF WhatWasRead
  <2>3. Partly("input_count")'
    BY <1>1, <1>2, <1>6 DEF Partly, WhatWasRead
  <2> QED BY <2>1, <2>2, <2>3 DEF WhatWasRead
<1>7. CASE parser = "v_out"
  <2>1. parser' = "signature_length"
    BY <1>2, <1>7 DEF NextRead
  <2>2. input' = Append(Append(ToInputs', found'.tx_id), found'.v_out)
    BY <1>1, <1>2, <1>5, <1>7 DEF WhatWasRead
  <2>3. Partly("input_count")'
    BY <1>1, <1>2, <1>7 DEF Partly, WhatWasRead
  <2> QED BY <2>1, <2>2, <2>3 DEF WhatWasRead
<1>8. CASE parser = "value"
  <2>1. parser' = "pub_length"
    BY <1>2, <1>8 DEF NextRead
  <2>2. ToOutputs' = ToOutputs
    BY <1>1, <1>2, <1>5, <1>8 DEF ToOutputs, Outs
  <2>3. input' = Append(ToOutputs', found'.value)
    BY <1>1, <1>2, <1>8, <2>2 DEF WhatWasRead
  <2>4. Filled("input_count")' /\ Partly("output_count")'
    BY <1>1, <1>2, <1>8 DEF Filled, Partly, WhatWasRead
  <2> QED BY <2>1, <2>3, <2>4 DEF WhatWasRead
<1> QED BY <1>1, <1>2, <1>4, <1>6, <1>7, <1>8

\* What a push changes, and where the parser goes.
LEMMA PushIs ==
  ASSUME ParserTypeOK, NEW loop \in DOMAIN Loop, NEW element, Push(loop, element), Partly(loop),
         Len(Append(items[loop], element)) = Len(items[loop]) + 1, Len(items[loop]) \in Nat
  PROVE  /\ found' = found
         /\ items'[loop] = Append(items[loop], element)
         /\ \A l \in DOMAIN Loop : l # loop => items'[l] = items[l]
         /\ \/ parser' = Loop[loop].body /\ Partly(loop)'
            \/ parser' = Loop[loop].exit /\ Filled(loop)'
<1>1. /\ found' = found
      /\ items'[loop] = Append(items[loop], element)
      /\ \A l \in DOMAIN Loop : l # loop => items'[l] = items[l]
  BY DEF Push, ParserTypeOK
<1>2. parser' = Turn(loop, Len(items[loop]) + 1, found[loop])
  BY <1>1 DEF Push
<1>3. found[loop] \in Nat
  BY DEF ParserTypeOK
<1>4. CASE Len(items[loop]) + 1 < found[loop]
  BY <1>1, <1>2, <1>4 DEF Turn, Partly
<1>5. CASE ~ (Len(items[loop]) + 1 < found[loop])
  <2>1. Len(items[loop]) + 1 = found[loop]
    BY <1>3, <1>5 DEF Partly
  <2> QED BY <1>1, <1>2, <1>5, <2>1 DEF Turn, Filled
<1> QED BY <1>1, <1>4, <1>5

\* A byte of a string.
LEMMA BytesKeep ==
  ASSUME ParserInv, NEW b \in Byte, ReadByte(b)
  PROVE  WhatWasRead'
<1> USE DEF ParserInv
<1>1. /\ DOMAIN Loop = {"tx_count", "input_count", "signature_length", "output_count", "pub_length"}
      /\ b \in Piece /\ input' = Append(input, b)
  BY DEF Loop, Piece, ReadByte, Reads
<1>2. PICK loop \in {"signature_length", "pub_length"} : parser = Loop[loop].body /\ Push(loop, b)
  BY DEF ReadByte
<1>3. items[loop] \in Seq(Piece)
  BY <1>2 DEF ParserTypeOK
<1>4. Len(items[loop]) \in Nat /\ Len(Append(items[loop], b)) = Len(items[loop]) + 1
  BY <1>1, <1>3
<1>5. Partly(loop)
  BY <1>2 DEF Loop, WhatWasRead
<1>6. /\ found' = found /\ items'[loop] = Append(items[loop], b)
      /\ \A l \in DOMAIN Loop : l # loop => items'[l] = items[l]
      /\ \/ parser' = Loop[loop].body /\ Partly(loop)'
         \/ parser' = Loop[loop].exit /\ Filled(loop)'
  <2>1. loop \in DOMAIN Loop
    BY <1>1, <1>2
  <2> QED BY <1>2, <1>4, <1>5, <2>1, PushIs
<1>7. ToInputs' = ToInputs
  BY <1>1, <1>2, <1>6 DEF Whole, Txs, ToInputs, Ins
<1>8. Whole \in Seq(Piece) /\ ToInputs \in Seq(Piece) /\ ToOutputs \in Seq(Piece)
  BY SoFarType
<1>9. ASSUME NEW s \in Seq(Piece), NEW t \in Seq(Piece)
      PROVE  Append(s \o t, b) = s \o Append(t, b)
  <2>1. Append(s \o t, b) = s \o (t \o <<b>>) /\ Append(t, b) = t \o <<b>>
    <3>1. Append(s \o t, b) = s \o (t \o <<b>>)
      BY <1>1, LastJoins, Zenon
    <3>2. Append(t, b) = t \o <<b>>
      BY <1>1, AppendIsConcat, Zenon
    <3> QED BY <3>1, <3>2
  <2> QED BY <2>1
<1>10. found \in [DOMAIN Loop \cup DOMAIN NextRead -> Piece] /\ DOMAIN NextRead = {"version", "tx_id", "v_out", "value"}
  BY DEF ParserTypeOK, NextRead
<1>11. CASE loop = "signature_length"
  <2> DEFINE head == Append(Append(Append(ToInputs, found.tx_id), found.v_out), found.signature_length)
  <2>1. head \in Seq(Piece)
    BY <1>1, <1>8, <1>10
  <2>2. parser = "signature" /\ parser' \in {"signature", "sequence"}
    BY <1>2, <1>6, <1>11 DEF Loop
  <2>3. ToSignature = head \o items.signature_length /\ ToSignature' = head \o Append(items.signature_length, b)
    BY <1>6, <1>7, <1>11 DEF ToSignature
  <2> HIDE DEF head
  <2>4. ToSignature' = input'
    BY <1>1, <1>3, <1>9, <1>11, <2>1, <2>2, <2>3 DEF WhatWasRead
  <2>5. Partly("input_count")'
    BY <1>1, <1>6, <1>11, <2>2 DEF Partly, WhatWasRead
  <2>6. \/ parser' = "signature" /\ Partly("signature_length")'
        \/ parser' = "sequence" /\ Filled("signature_length")'
    BY <1>6, <1>11 DEF Loop
  <2> QED BY <2>4, <2>5, <2>6 DEF WhatWasRead
<1>12. CASE loop = "pub_length"
  <2> DEFINE head == Append(Append(ToOutputs, found.value), found.pub_length)
  <2>1. head \in Seq(Piece)
    BY <1>1, <1>8, <1>10
  <2>2. parser = "pub_key" /\ parser' \in {"pub_key", "output"}
    BY <1>2, <1>6, <1>12 DEF Loop
  <2>3. ToOutputs' = ToOutputs
    BY <1>1, <1>6, <1>7, <1>12 DEF ToOutputs, Outs
  <2>4. ToPubKey = head \o items.pub_length /\ ToPubKey' = head \o Append(items.pub_length, b)
    BY <1>6, <1>12, <2>3 DEF ToPubKey
  <2> HIDE DEF head
  <2>5. ToPubKey' = input'
    BY <1>1, <1>3, <1>9, <1>12, <2>1, <2>2, <2>4 DEF WhatWasRead
  <2>6. Filled("input_count")' /\ Partly("output_count")'
    BY <1>1, <1>6, <1>12, <2>2 DEF Filled, Partly, WhatWasRead
  <2>7. \/ parser' = "pub_key" /\ Partly("pub_length")'
        \/ parser' = "output" /\ Filled("pub_length")'
    BY <1>6, <1>12 DEF Loop
  <2> QED BY <2>5, <2>6, <2>7 DEF WhatWasRead
<1> QED BY <1>2, <1>11, <1>12

\* The sequence number completes an input.
LEMMA SequencesKeep ==
  ASSUME ParserInv, NEW u \in Field, ReadSequence(u)
  PROVE  WhatWasRead'
<1> USE DEF ParserInv
<1> DEFINE i == [tx_id |-> found.tx_id, v_out |-> found.v_out,
                 signature |-> items.signature_length, sequence |-> u]
<1>1. /\ DOMAIN Loop = {"tx_count", "input_count", "signature_length", "output_count", "pub_length"}
      /\ DOMAIN NextRead = {"version", "tx_id", "v_out", "value"}
      /\ u \in Piece /\ input' = Append(input, u) /\ parser = "sequence" /\ Push("input_count", i)
  BY DEF Loop, NextRead, Piece, ReadSequence, Reads
<1>2. /\ found.tx_id \in Piece /\ found.v_out \in Piece /\ found.signature_length \in Piece
      /\ found.version \in Piece /\ found.input_count \in Piece
      /\ items.signature_length \in Seq(Piece) /\ items.input_count \in Seq(AnyIn)
  BY <1>1 DEF ParserTypeOK
<1>3. i \in AnyIn
  BY <1>1, <1>2 DEF AnyIn
<1>4. InFormat(i) = <<found.tx_id, found.v_out, found.signature_length>> \o items.signature_length \o <<u>>
  BY <1>1 DEF InFormat, WhatWasRead, Filled
<1> HIDE DEF i
<1>5. /\ found' = found /\ items'.input_count = Append(items.input_count, i)
      /\ \A l \in DOMAIN Loop : l # "input_count" => items'[l] = items[l]
      /\ \/ parser' = "tx_id" /\ Partly("input_count")'
         \/ parser' = "output_count" /\ Filled("input_count")'
  <2>1. Len(items.input_count) \in Nat /\ Len(Append(items.input_count, i)) = Len(items.input_count) + 1
    BY <1>2, <1>3
  <2>2. Partly("input_count")
    BY <1>1 DEF WhatWasRead
  <2>3. Loop["input_count"].body = "tx_id" /\ Loop["input_count"].exit = "output_count"
    BY DEF Loop
  <2> QED BY <1>1, <2>1, <2>2, <2>3, PushIs
<1>6. Whole' = Whole
  BY <1>1, <1>5 DEF Whole, Txs
<1> DEFINE head == Append(Append(Whole, found.version), found.input_count)
<1>7. Whole \in Seq(Piece) /\ ToInputs \in Seq(Piece) /\ Ins(items.input_count) \in Seq(Piece)
  BY SoFarType
<1>8. head \in Seq(Piece)
  BY <1>2, <1>7
<1>9. ToInputs = head \o Ins(items.input_count) /\ ToInputs' = head \o Ins(Append(items.input_count, i))
  BY <1>5, <1>6 DEF ToInputs, Ins
<1> HIDE DEF head
<1>10. Ins(Append(items.input_count, i)) = Ins(items.input_count) \o InFormat(i) /\ InFormat(i) \in Seq(Piece)
  BY <1>2, <1>3, InsJoin
<1>11. ToInputs' = ToInputs \o InFormat(i)
  <2>1. PICK a \in Seq(Piece), b \in Seq(Piece), c \in Seq(Piece) :
          a = head /\ b = Ins(items.input_count) /\ c = InFormat(i)
    BY <1>7, <1>8, <1>10
  <2>2. (a \o b) \o c = a \o (b \o c)
    BY ConcatAssociative
  <2> QED BY <1>9, <1>10, <2>1, <2>2
<1>12. input = ToSignature
  BY <1>1 DEF WhatWasRead
<1>13. input' = ToInputs \o InFormat(i)
  <2>1. Append(ToSignature, u) = ToInputs \o
          (<<found.tx_id, found.v_out, found.signature_length>> \o items.signature_length \o <<u>>)
    <3>1. PICK a \in Seq(Piece), x \in Piece, y \in Piece, l \in Piece, s \in Seq(Piece), z \in Piece :
            /\ a = ToInputs /\ x = found.tx_id /\ y = found.v_out /\ l = found.signature_length
            /\ s = items.signature_length /\ z = u
      BY <1>1, <1>2, <1>7
    <3>2. Append(Append(Append(Append(a, x), y), l) \o s, z) = a \o (<<x, y, l>> \o s \o <<z>>)
      <4>1. Append(Append(a, x), y) = a \o <<x, y>> /\ <<x, y>> \in Seq(Piece)
        BY PairJoins
      <4>2. Append(a \o <<x, y>>, l) = a \o Append(<<x, y>>, l) /\ Append(<<x, y>>, l) \in Seq(Piece)
        BY <4>1, AppendProperties
      <4>3. PICK h \in Seq(Piece) : h = <<x, y, l>> /\ h = Append(<<x, y>>, l)
        <5>1. <<x, y, l>> = Append(<<x, y>>, l)
          OBVIOUS
        <5> QED BY <4>2, <5>1
      <4>4. (a \o h) \o s = a \o (h \o s)
        BY ConcatAssociative
      <4>5. PICK k \in Seq(Piece) : k = h \o s
        BY ConcatProperties
      <4>6. Append(a \o k, z) = a \o (k \o <<z>>)
        BY LastJoins, Zenon
      <4> QED BY <4>1, <4>2, <4>3, <4>4, <4>5, <4>6
    <3> QED BY <3>1, <3>2 DEF ToSignature
  <2> QED BY <1>1, <1>4, <1>12, <2>1
<1> QED BY <1>5, <1>11, <1>13 DEF WhatWasRead

\* A string completes an output.
LEMMA OutputsKeep ==
  ASSUME ParserInv, MakeOutput
  PROVE  WhatWasRead'
<1> USE DEF ParserInv
<1> DEFINE o == [value |-> found.value, destiny_pub_key |-> items.pub_length]
<1>1. /\ DOMAIN Loop = {"tx_count", "input_count", "signature_length", "output_count", "pub_length"}
      /\ DOMAIN NextRead = {"version", "tx_id", "v_out", "value"}
      /\ input' = input /\ parser = "output" /\ Push("output_count", o)
  BY DEF Loop, NextRead, MakeOutput
<1>2. /\ found.value \in Piece /\ found.pub_length \in Piece /\ found.output_count \in Piece
      /\ items.pub_length \in Seq(Piece) /\ items.output_count \in Seq(AnyOut)
  BY <1>1 DEF ParserTypeOK
<1>3. o \in AnyOut
  BY <1>2 DEF AnyOut
<1>4. OutFormat(o) = <<found.value, found.pub_length>> \o items.pub_length
  BY <1>1 DEF OutFormat, WhatWasRead, Filled
<1> HIDE DEF o
<1>5. /\ found' = found /\ items'.output_count = Append(items.output_count, o)
      /\ \A l \in DOMAIN Loop : l # "output_count" => items'[l] = items[l]
      /\ \/ parser' = "value" /\ Partly("output_count")'
         \/ parser' = "lock_time" /\ Filled("output_count")'
  <2>1. Len(items.output_count) \in Nat /\ Len(Append(items.output_count, o)) = Len(items.output_count) + 1
    BY <1>2, <1>3
  <2>2. Partly("output_count")
    BY <1>1 DEF WhatWasRead
  <2>3. Loop["output_count"].body = "value" /\ Loop["output_count"].exit = "lock_time"
    BY DEF Loop
  <2> QED BY <1>1, <2>1, <2>2, <2>3, PushIs
<1>6. ToInputs' = ToInputs
  BY <1>1, <1>5 DEF Whole, Txs, ToInputs, Ins
<1>7. Filled("input_count")'
  BY <1>1, <1>5 DEF Filled, WhatWasRead
<1> DEFINE head == Append(ToInputs, found.output_count)
<1>8. ToInputs \in Seq(Piece) /\ ToOutputs \in Seq(Piece) /\ Outs(items.output_count) \in Seq(Piece)
  BY SoFarType
<1>9. head \in Seq(Piece)
  BY <1>2, <1>8
<1>10. ToOutputs = head \o Outs(items.output_count) /\ ToOutputs' = head \o Outs(Append(items.output_count, o))
  BY <1>5, <1>6 DEF ToOutputs, Outs
<1> HIDE DEF head
<1>11. Outs(Append(items.output_count, o)) = Outs(items.output_count) \o OutFormat(o) /\ OutFormat(o) \in Seq(Piece)
  BY <1>2, <1>3, OutsJoin
<1>12. ToOutputs' = ToOutputs \o OutFormat(o)
  <2>1. PICK a \in Seq(Piece), b \in Seq(Piece), c \in Seq(Piece) :
          a = head /\ b = Outs(items.output_count) /\ c = OutFormat(o)
    BY <1>8, <1>9, <1>11
  <2>2. (a \o b) \o c = a \o (b \o c)
    BY ConcatAssociative
  <2> QED BY <1>10, <1>11, <2>1, <2>2
<1>13. input = ToPubKey
  BY <1>1 DEF WhatWasRead
<1>14. input' = ToOutputs \o OutFormat(o)
  <2>1. ToPubKey = ToOutputs \o (<<found.value, found.pub_length>> \o items.pub_length)
    <3>1. PICK a \in Seq(Piece), x \in Piece, l \in Piece, s \in Seq(Piece) :
            a = ToOutputs /\ x = found.value /\ l = found.pub_length /\ s = items.pub_length
      BY <1>2, <1>8
    <3>2. Append(Append(a, x), l) \o s = a \o (<<x, l>> \o s)
      BY OutJoins
    <3> QED BY <3>1, <3>2 DEF ToPubKey
  <2> QED BY <1>1, <1>4, <1>13, <2>1
<1> QED BY <1>5, <1>7, <1>12, <1>14 DEF WhatWasRead

\* The lock time completes a transaction.
LEMMA LockTimesKeep ==
  ASSUME ParserInv, NEW u \in Field, ReadLockTime(u)
  PROVE  WhatWasRead'
<1> USE DEF ParserInv
<1> DEFINE t == [version |-> found.version, inputs |-> items.input_count,
                 outputs |-> items.output_count, lock_time |-> u]
<1>1. /\ DOMAIN Loop = {"tx_count", "input_count", "signature_length", "output_count", "pub_length"}
      /\ DOMAIN NextRead = {"version", "tx_id", "v_out", "value"}
      /\ u \in Piece /\ input' = Append(input, u) /\ parser = "lock_time" /\ Push("tx_count", t)
  BY DEF Loop, NextRead, Piece, ReadLockTime, Reads
<1>2. /\ found.version \in Piece /\ found.input_count \in Piece /\ found.output_count \in Piece
      /\ found.tx_count \in Piece
      /\ items.input_count \in Seq(AnyIn) /\ items.output_count \in Seq(AnyOut)
      /\ items.tx_count \in Seq(AnyTransaction)
  BY <1>1 DEF ParserTypeOK
<1>3. t \in AnyTransaction
  BY <1>1, <1>2 DEF AnyTransaction
<1>4. TxFormat(t) = <<found.version, found.input_count>> \o Ins(items.input_count)
                      \o <<found.output_count>> \o Outs(items.output_count) \o <<u>>
  <2>1. Len(items.input_count) = found.input_count /\ Len(items.output_count) = found.output_count
    BY <1>1 DEF WhatWasRead, Filled
  <2> QED BY <2>1 DEF TxFormat, Ins, Outs
<1> HIDE DEF t
<1>5. /\ found' = found /\ items'.tx_count = Append(items.tx_count, t)
      /\ parser' \in {"version", "done"}
  <2>1. /\ found' = found /\ items'.tx_count = Append(items.tx_count, t)
        /\ parser' = Turn("tx_count", Len(items'.tx_count), found.tx_count)
    BY <1>1 DEF Push, ParserTypeOK
  <2> QED BY <2>1 DEF Turn, Loop
<1>6. Whole \in Seq(Piece) /\ Txs(items.tx_count) \in Seq(Piece)
      /\ Ins(items.input_count) \in Seq(Piece) /\ Outs(items.output_count) \in Seq(Piece)
  BY SoFarType
<1>7. Txs(Append(items.tx_count, t)) = Txs(items.tx_count) \o TxFormat(t) /\ TxFormat(t) \in Seq(Piece)
  BY <1>2, <1>3, TxsJoin
<1>8. Whole = <<found.tx_count>> \o Txs(items.tx_count)
      /\ Whole' = <<found.tx_count>> \o Txs(Append(items.tx_count, t))
  BY <1>5 DEF Whole, Txs
<1>9. Whole' = Whole \o TxFormat(t)
  <2>1. <<found.tx_count>> \in Seq(Piece)
    BY <1>2
  <2>2. PICK a \in Seq(Piece), b \in Seq(Piece), c \in Seq(Piece) :
          a = <<found.tx_count>> /\ b = Txs(items.tx_count) /\ c = TxFormat(t)
    BY <1>6, <1>7, <2>1
  <2>3. (a \o b) \o c = a \o (b \o c)
    BY ConcatAssociative
  <2> QED BY <1>7, <1>8, <2>2, <2>3
<1>10. input = ToOutputs
  BY <1>1 DEF WhatWasRead
<1>11. input' = Whole \o TxFormat(t)
  <2>1. Append(ToOutputs, u) = Whole \o (<<found.version, found.input_count>> \o Ins(items.input_count)
                      \o <<found.output_count>> \o Outs(items.output_count) \o <<u>>)
    <3>1. PICK a \in Seq(Piece), v \in Piece, n \in Piece, i \in Seq(Piece),
               m \in Piece, o \in Seq(Piece), z \in Piece :
            /\ a = Whole /\ v = found.version /\ n = found.input_count /\ i = Ins(items.input_count)
            /\ m = found.output_count /\ o = Outs(items.output_count) /\ z = u
      BY <1>1, <1>2, <1>6
    <3>2. Append(Append(Append(Append(a, v), n) \o i, m) \o o, z)
            = a \o (<<v, n>> \o i \o <<m>> \o o \o <<z>>)
      <4>1. PICK h \in Seq(Piece) : h = <<v, n>> \o i
        BY OutJoins
      <4>2. Append(Append(a, v), n) \o i = a \o h
        BY <4>1, OutJoins, SMTT(60)
      <4>3. PICK k \in Seq(Piece) : k = h \o <<m>>
        <5>1. <<m>> \in Seq(Piece)
          OBVIOUS
        <5> QED BY <5>1, ConcatProperties
      <4>4. Append(a \o h, m) = a \o (h \o <<m>>)
        BY LastJoins, Zenon
      <4>5. (a \o k) \o o = a \o (k \o o)
        BY ConcatAssociative, SMTT(60)
      <4>6. PICK j \in Seq(Piece) : j = k \o o
        BY ConcatProperties
      <4>7. Append(a \o j, z) = a \o (j \o <<z>>)
        BY LastJoins, Zenon
      <4> QED BY <4>1, <4>2, <4>3, <4>4, <4>5, <4>6, <4>7
    <3> QED BY <3>1, <3>2 DEF ToOutputs, ToInputs
  <2> QED BY <1>1, <1>4, <1>10, <2>1
<1> QED BY <1>5, <1>9, <1>11 DEF WhatWasRead

\* ParserInv is an invariant of the parser.
LEMMA ParserInvHolds ==
  TransactionSpec => []ParserInv
<1>1. TransactionInit => ParserInv
  <2> SUFFICES ASSUME TransactionInit PROVE ParserInv
    OBVIOUS
  <2>1. parser = "tx_count" /\ input = <<>>
    BY DEF TransactionInit
  <2>2. /\ \A name \in DOMAIN Loop \cup DOMAIN NextRead : found[name] = 0
        /\ found \in [DOMAIN Loop \cup DOMAIN NextRead -> {0}]
        /\ items = [loop \in DOMAIN Loop |-> <<>>]
    BY DEF TransactionInit
  <2>3. 0 \in Piece /\ 0 \in Nat
    BY DEF Piece
  <2>4. ParserTypeOK
    <3>1. parser \in Stages
      BY <2>1 DEF Stages, Loop
    <3>2. \A loop \in DOMAIN Loop : items[loop] = <<>>
      BY <2>2
    <3>3. {"tx_count", "input_count", "signature_length", "output_count", "pub_length"} = DOMAIN Loop
      BY DEF Loop
    <3> QED BY <2>1, <2>2, <2>3, <3>1, <3>2, <3>3 DEF ParserTypeOK
  <2>5. WhatWasRead
    BY <2>1 DEF WhatWasRead
  <2> QED BY <2>4, <2>5 DEF ParserInv
<1>2. ParserInv /\ [TransactionNext]_transactionVars => ParserInv'
  <2> SUFFICES ASSUME ParserInv, [TransactionNext]_transactionVars
               PROVE  ParserInv'
    OBVIOUS
  <2>1. ParserTypeOK'
    BY ParserTypeStep DEF ParserInv
  <2>2. ASSUME InvalidUtf8 \/ Eof
        PROVE  WhatWasRead'
    <3>1. parser' \in {"refused", "eof"}
      BY <2>2 DEF InvalidUtf8, Eof
    <3> QED BY <3>1 DEF WhatWasRead
  <2>3. ASSUME Over \/ UNCHANGED transactionVars
        PROVE  WhatWasRead'
    <3>1. parser' = parser /\ input' = input /\ found' = found /\ items' = items
      BY <2>3 DEF Over, transactionVars
    <3>2. /\ Whole' = Whole /\ ToInputs' = ToInputs /\ ToOutputs' = ToOutputs
          /\ ToSignature' = ToSignature /\ ToPubKey' = ToPubKey
      BY <3>1 DEF Whole, ToInputs, ToSignature, ToOutputs, ToPubKey, Txs, Ins, Outs
    <3>3. ASSUME NEW loop
          PROVE  Partly(loop)' = Partly(loop) /\ Filled(loop)' = Filled(loop)
      BY <3>1 DEF Partly, Filled
    <3> QED BY <3>1, <3>2, <3>3 DEF ParserInv, WhatWasRead
  <2>4. WhatWasRead'
    BY <2>2, <2>3, CountsKeep, FieldsKeep, BytesKeep, SequencesKeep, OutputsKeep, LockTimesKeep
      DEF TransactionNext
  <2> QED BY <2>1, <2>4 DEF ParserInv
<1> QED BY <1>1, <1>2, PTL DEF TransactionSpec

\* Between transactions and at the end of the parse, what was read is what
\* the parsed transactions are written as, whatever the input.
THEOREM ParsedHolds ==
  TransactionSpec => []ParsedIsWhatWasRead
<1>1. ASSUME ParserInv
      PROVE  ParsedIsWhatWasRead
  <2> SUFFICES ASSUME parser \in {"version", "done"}
               PROVE  input = <<found.tx_count>> \o Tail(RawTransactions(items.tx_count))
    BY DEF ParsedIsWhatWasRead
  <2>1. input = <<found.tx_count>> \o Txs(items.tx_count)
    BY <1>1 DEF ParserInv, WhatWasRead, Whole
  <2>2. Txs(items.tx_count) \in Seq(Piece) /\ items.tx_count \in Seq(AnyTransaction)
    BY <1>1, SoFarType DEF ParserInv, ParserTypeOK
  <2>3. Len(items.tx_count) \in Piece
    BY <2>2 DEF Piece
  <2>4. RawTransactions(items.tx_count) = <<Len(items.tx_count)>> \o Txs(items.tx_count)
    BY DEF RawTransactions, Txs
  <2>5. ASSUME NEW n \in Piece, NEW s \in Seq(Piece)
        PROVE  Tail(<<n>> \o s) = s
    OBVIOUS
  <2> QED BY <2>1, <2>2, <2>3, <2>4, <2>5
<1> QED BY <1>1, ParserInvHolds, PTL

-----------------------------------------------------------------------------
(* Transactions this code wrote.                                           *)

\* What follows the first n elements of a sequence.
From(s, n) == SubSeq(s, n + 1, Len(s))
Upto(s, n) == SubSeq(s, 1, n)

Fits(s, type) == Len(s) <= Reservable[type]

\* Transactions that the code can hold: their strings are strings, and there
\* is room for their parts.
OwnIn(i) == Fits(i.signature, "byte") /\ Utf8(i.signature)
OwnOut(o) == Fits(o.destiny_pub_key, "byte") /\ Utf8(o.destiny_pub_key)
OwnTx(t) ==
  /\ Fits(t.inputs, "in") /\ \A k \in 1 .. Len(t.inputs) : OwnIn(t.inputs[k])
  /\ Fits(t.outputs, "out") /\ \A k \in 1 .. Len(t.outputs) : OwnOut(t.outputs[k])
OwnList == {ts \in Seq(AnyTransaction) : Fits(ts, "tx") /\ \A j \in 1 .. Len(ts) : OwnTx(ts[j])}

\* What is left of an encoding after the first elements of each vector.
TxsLeft(ts, j) == FlattenSeq(From([i \in DOMAIN ts |-> TxFormat(ts[i])], j))
OutsFrom(os, m) == FlattenSeq(From([i \in DOMAIN os |-> OutFormat(os[i])], m))
InsFrom(is, k) == FlattenSeq(From([i \in DOMAIN is |-> InFormat(is[i])], k))
OutsLeft(ts, j, t, m) == OutsFrom(t.outputs, m) \o Cons(t.lock_time, TxsLeft(ts, j + 1))
InsLeft(ts, j, t, k) == InsFrom(t.inputs, k) \o Cons(Len(t.outputs), OutsLeft(ts, j, t, 0))
BytesLeft(s, l, rest) == From(s, l) \o rest

\* The whole encoding is what has been read and the rest.
Left(read, ts, rest) == RawTransactions(ts) = read \o rest /\ rest \in Seq(Piece)

\* The parser is where it should be in ts, with what it should have found.
InTx(ts, j, t) ==
  /\ found.tx_count = Len(ts) /\ j \in 0 .. Len(ts) - 1
  /\ items.tx_count = Upto(ts, j) /\ t = ts[j + 1]

InInputs(t, k, i) ==
  /\ found.version = t.version /\ found.input_count = Len(t.inputs)
  /\ k \in 0 .. Len(t.inputs) - 1
  /\ items.input_count = Upto(t.inputs, k) /\ i = t.inputs[k + 1]

PastInputs(t) == found.version = t.version /\ items.input_count = t.inputs

InOutputs(t, m, o) ==
  /\ PastInputs(t) /\ found.output_count = Len(t.outputs)
  /\ m \in 0 .. Len(t.outputs) - 1
  /\ items.output_count = Upto(t.outputs, m) /\ o = t.outputs[m + 1]

InBytes(loop, s, l) ==
  found[loop] = Len(s) /\ l \in 0 .. Len(s) - 1 /\ items[loop] = Upto(s, l)

AtInput(ts, j, t, k, i) ==
  LET after == Cons(i.sequence, InsLeft(ts, j, t, k + 1))
      string == BytesLeft(i.signature, 0, after)
  IN  \/ parser = "tx_id" /\ Left(input, ts, InsLeft(ts, j, t, k))
      \/ /\ parser = "v_out" /\ found.tx_id = i.tx_id
         /\ Left(input, ts, Cons(i.v_out, Cons(Len(i.signature), string)))
      \/ /\ parser = "signature_length" /\ found.tx_id = i.tx_id /\ found.v_out = i.v_out
         /\ Left(input, ts, Cons(Len(i.signature), string))
      \/ /\ parser = "signature" /\ found.tx_id = i.tx_id /\ found.v_out = i.v_out
         /\ \E l \in Nat : InBytes("signature_length", i.signature, l) /\ Left(input, ts, BytesLeft(i.signature, l, after))
      \/ /\ parser = "sequence" /\ found.tx_id = i.tx_id /\ found.v_out = i.v_out
         /\ items.signature_length = i.signature /\ Left(input, ts, after)

AtOutput(ts, j, t, m, o) ==
  LET after == OutsLeft(ts, j, t, m + 1)
  IN  \/ parser = "value" /\ Left(input, ts, OutsLeft(ts, j, t, m))
      \/ /\ parser = "pub_length" /\ found.value = o.value
         /\ Left(input, ts, Cons(Len(o.destiny_pub_key), BytesLeft(o.destiny_pub_key, 0, after)))
      \/ /\ parser = "pub_key" /\ found.value = o.value
         /\ \E l \in Nat : InBytes("pub_length", o.destiny_pub_key, l) /\ Left(input, ts, BytesLeft(o.destiny_pub_key, l, after))
      \/ /\ parser = "output" /\ found.value = o.value
         /\ items.pub_length = o.destiny_pub_key /\ Left(input, ts, after)

AtTx(ts, j, t) ==
  \/ parser = "version" /\ Left(input, ts, TxsLeft(ts, j))
  \/ parser = "input_count" /\ found.version = t.version /\ Left(input, ts, Cons(Len(t.inputs), InsLeft(ts, j, t, 0)))
  \/ \E k \in Nat, i \in AnyIn : InInputs(t, k, i) /\ AtInput(ts, j, t, k, i)
  \/ parser = "output_count" /\ PastInputs(t) /\ Left(input, ts, Cons(Len(t.outputs), OutsLeft(ts, j, t, 0)))
  \/ \E m \in Nat, o \in AnyOut : InOutputs(t, m, o) /\ AtOutput(ts, j, t, m, o)
  \/ /\ parser = "lock_time" /\ PastInputs(t) /\ items.output_count = t.outputs
     /\ Left(input, ts, Cons(t.lock_time, TxsLeft(ts, j + 1)))

Follows(ts) ==
  \/ parser = "eof"
  \/ parser = "tx_count" /\ input = <<>>
  \/ parser = "done" /\ items.tx_count = ts
  \/ \E j \in Nat, t \in AnyTransaction : InTx(ts, j, t) /\ AtTx(ts, j, t)

OwnFollowed ==
  \A ts \in OwnList : IsPrefix(input, RawTransactions(ts)) => Follows(ts)

\* One sequence more at the front is joined to the front.
LEMMA FlattenFrom ==
  ASSUME NEW S, NEW seqs \in Seq(Seq(S)), NEW j \in 0 .. Len(seqs)
  PROVE  /\ FlattenSeq(From(seqs, j)) \in Seq(S)
         /\ j < Len(seqs) => FlattenSeq(From(seqs, j)) = seqs[j + 1] \o FlattenSeq(From(seqs, j + 1))
         /\ j = Len(seqs) => FlattenSeq(From(seqs, j)) = <<>>
<1> DEFINE n == Len(seqs)
           Part(a, b) == SubSeq(seqs, a + 1, b)
<1>1. n \in Nat /\ \A k \in 1 .. n : seqs[k] \in Seq(S)
  OBVIOUS
<1>2. ASSUME NEW a \in 0 .. n, NEW b \in a .. n
      PROVE  /\ Part(a, b) \in Seq(Seq(S)) /\ FlattenSeq(Part(a, b)) \in Seq(S)
             /\ b < n => Part(a, b + 1) = Append(Part(a, b), seqs[b + 1])
             /\ b < n => FlattenSeq(Part(a, b + 1)) = FlattenSeq(Part(a, b)) \o seqs[b + 1]
             /\ a = b => FlattenSeq(Part(a, b)) = <<>>
  <2>1. Part(a, b) \in Seq(Seq(S))
    BY SliceIs
  <2>2. FlattenSeq(Part(a, b)) \in Seq(S)
    <3>1. <<>> \in Seq(S)
      OBVIOUS
    <3> QED BY <2>1, <3>1, FlattenAppend
  <2>3. ASSUME b < n
        PROVE  Part(a, b + 1) = Append(Part(a, b), seqs[b + 1])
    BY <1>1, <2>3, SMTT(60)
  <2>4. ASSUME b < n
        PROVE  FlattenSeq(Part(a, b + 1)) = FlattenSeq(Part(a, b)) \o seqs[b + 1]
    <3>1. seqs[b + 1] \in Seq(S)
      BY <1>1, <2>4
    <3> HIDE DEF Part
    <3> QED BY <2>1, <2>3, <2>4, <3>1, FlattenAppend
  <2>5. ASSUME a = b
        PROVE  FlattenSeq(Part(a, b)) = <<>>
    <3>1. Part(a, b) = <<>>
      BY <1>1, <2>5
    <3> QED BY <3>1 DEF FlattenSeq
  <2> QED BY <2>1, <2>2, <2>3, <2>4, <2>5
<1> HIDE DEF Part
<1>3. ASSUME j < n
      PROVE  FlattenSeq(Part(j, n)) = seqs[j + 1] \o FlattenSeq(Part(j + 1, n))
  <2> DEFINE Good(b) == FlattenSeq(Part(j, b)) = seqs[j + 1] \o FlattenSeq(Part(j + 1, b))
             Bad == {b \in j + 1 .. n : ~ Good(b)}
  <2>0. j + 1 \in 0 .. n /\ j \in Nat /\ seqs[j + 1] \in Seq(S) /\ n \in j + 1 .. n
    BY <1>1, <1>3
  <2>1. ASSUME Bad # {}
        PROVE  FALSE
    <3>1. PICK b \in Bad : \A c \in Bad : b <= c
      <4>1. Bad \subseteq Nat
        <5>1. \A b \in j + 1 .. n : b \in Nat
          BY <1>1, <2>0
        <5> HIDE DEF Good, n
        <5> QED BY <5>1
      <4> HIDE DEF Bad
      <4> QED BY <2>1, <4>1, LeastNumber
    <3>2. b \in j + 1 .. n /\ ~ Good(b)
      BY <3>1
    <3>3. b # j + 1
      <4>1. FlattenSeq(Part(j, j + 1)) = FlattenSeq(Part(j, j)) \o seqs[j + 1]
        <5>1. j \in 0 .. n /\ j \in j .. n
          BY <1>1
        <5> QED BY <1>2, <1>3, <5>1
      <4>2. FlattenSeq(Part(j, j)) = <<>> /\ FlattenSeq(Part(j + 1, j + 1)) = <<>>
        BY <1>1, <1>2, <1>3, <2>0
      <4>3. <<>> \o seqs[j + 1] = seqs[j + 1] /\ seqs[j + 1] \o <<>> = seqs[j + 1]
        BY <2>0, ConcatEmptySeq
      <4>4. Good(j + 1)
        BY <4>1, <4>2, <4>3
      <4> QED BY <3>2, <4>4
    <3>4. b - 1 \in j + 1 .. n /\ b - 1 \in j .. n /\ b - 1 < n /\ (b - 1) + 1 = b /\ ~ (b <= b - 1)
      BY <1>1, <2>0, <3>2, <3>3
    <3>5. Good(b - 1)
      <4>1. b - 1 \notin Bad
        <5> HIDE DEF Bad
        <5> QED BY <3>1, <3>4
      <4> QED BY <3>4, <4>1
    <3>6. /\ FlattenSeq(Part(j, b)) = FlattenSeq(Part(j, b - 1)) \o seqs[b]
          /\ FlattenSeq(Part(j + 1, b)) = FlattenSeq(Part(j + 1, b - 1)) \o seqs[b]
          /\ FlattenSeq(Part(j + 1, b - 1)) \in Seq(S)
      BY <1>2, <2>0, <3>4
    <3>7. PICK x \in Seq(S), y \in Seq(S), z \in Seq(S) :
            x = seqs[j + 1] /\ y = FlattenSeq(Part(j + 1, b - 1)) /\ z = seqs[b]
      BY <1>1, <2>0, <3>2, <3>6
    <3>8. (x \o y) \o z = x \o (y \o z)
      BY ConcatAssociative, SMTT(60)
    <3>9. Good(b)
      BY <3>5, <3>6, <3>7, <3>8
    <3> QED BY <3>2, <3>9
  <2> QED BY <2>0, <2>1
<1>4. FlattenSeq(Part(j, n)) \in Seq(S) /\ (j = n => FlattenSeq(Part(j, n)) = <<>>)
  BY <1>1, <1>2
<1> QED BY <1>3, <1>4 DEF From, Part

\* The parts of what is left, unit by unit.
LEMMA ConsIs ==
  ASSUME NEW x \in Piece, NEW s \in Seq(Piece)
  PROVE  Cons(x, s) = <<x>> \o s /\ Cons(x, s) \in Seq(Piece)
BY DEF Cons

\* Joining is associative; named, for the proofs with many sequences.
Regroups(a, b, c) == (a \o b) \o c = a \o (b \o c)

LEMMA Regroup ==
  ASSUME NEW a \in Seq(Piece), NEW b \in Seq(Piece), NEW c \in Seq(Piece)
  PROVE  Regroups(a, b, c)
BY ConcatAssociative DEF Regroups

\* Joining to a sequence that begins with a unit.
LEMMA ConsJoins ==
  ASSUME NEW x \in Piece, NEW s \in Seq(Piece), NEW r \in Seq(Piece)
  PROVE  /\ Cons(x, s) \o r = Cons(x, s \o r)
         /\ s \o Cons(x, r) = (s \o <<x>>) \o r
<1>1. <<x>> \in Seq(Piece)
  OBVIOUS
<1>2. PICK h \in Seq(Piece) : h = <<x>>
  BY <1>1
<1>3. Regroups(h, s, r) /\ Regroups(s, h, r)
  BY Regroup
<1> QED BY <1>2, <1>3 DEF Cons, Regroups

\* What is left of a string.
LEMMA BytesLeftIs ==
  ASSUME NEW s \in Seq(Piece), NEW l \in 0 .. Len(s), NEW rest \in Seq(Piece)
  PROVE  /\ BytesLeft(s, l, rest) \in Seq(Piece)
         /\ l < Len(s) => BytesLeft(s, l, rest) = Cons(s[l + 1], BytesLeft(s, l + 1, rest))
         /\ l = Len(s) => BytesLeft(s, l, rest) = rest
         /\ BytesLeft(s, 0, rest) = s \o rest
<1>1. Len(s) \in Nat /\ From(s, l) \in Seq(Piece)
  BY DEF From
<1>2. BytesLeft(s, l, rest) \in Seq(Piece)
  BY <1>1 DEF BytesLeft
<1>3. ASSUME l < Len(s)
      PROVE  BytesLeft(s, l, rest) = Cons(s[l + 1], BytesLeft(s, l + 1, rest))
  <2>1. From(s, l) = <<s[l + 1]>> \o From(s, l + 1) /\ From(s, l + 1) \in Seq(Piece) /\ s[l + 1] \in Piece
    <3>1. s[l + 1] \in Piece /\ l + 1 \in 0 .. Len(s) /\ Len(s) \in l .. Len(s) /\ Len(s) \in l + 1 .. Len(s)
      BY <1>1, <1>3
    <3>2. /\ From(s, l) \in Seq(Piece) /\ Len(From(s, l)) = Len(s) - l
          /\ \A i \in 1 .. Len(s) - l : From(s, l)[i] = s[l + i]
      BY <3>1, SliceIs DEF From
    <3>3. /\ From(s, l + 1) \in Seq(Piece) /\ Len(From(s, l + 1)) = Len(s) - (l + 1)
          /\ \A i \in 1 .. Len(s) - (l + 1) : From(s, l + 1)[i] = s[(l + 1) + i]
      BY <3>1, SliceIs DEF From
    <3> DEFINE c == <<s[l + 1]>> \o From(s, l + 1)
    <3>4. <<s[l + 1]>> \in Seq(Piece) /\ Len(<<s[l + 1]>>) = 1
      BY <3>1
    <3>5. /\ c \in Seq(Piece) /\ Len(c) = Len(s) - l /\ c[1] = s[l + 1]
          /\ \A i \in 2 .. Len(s) - l : c[i] = From(s, l + 1)[i - 1]
      BY <1>1, <3>1, <3>3, <3>4
    <3>6. ASSUME NEW i \in 1 .. Len(s) - l
          PROVE  From(s, l)[i] = c[i]
      <4> HIDE DEF c
      <4>1. CASE i = 1
        BY <3>2, <3>5, <4>1
      <4>2. CASE i # 1
        <5>1. i \in 2 .. Len(s) - l /\ i - 1 \in 1 .. Len(s) - (l + 1) /\ (l + 1) + (i - 1) = l + i
          BY <1>1, <4>2
        <5>2. From(s, l)[i] = s[l + i]
          BY <3>2
        <5> QED BY <3>3, <3>5, <5>1, <5>2
      <4> QED BY <4>1, <4>2
    <3> HIDE DEF c
    <3>7. From(s, l) = c
      BY <3>2, <3>5, <3>6, SeqEqual
    <3> QED BY <3>1, <3>3, <3>7 DEF c
  <2>2. PICK x \in Piece, f \in Seq(Piece) : x = s[l + 1] /\ f = From(s, l + 1)
    BY <2>1
  <2>3. Cons(x, f) \o rest = Cons(x, f \o rest)
    BY ConsJoins
  <2> QED BY <2>1, <2>2, <2>3 DEF BytesLeft, Cons
<1>4. ASSUME l = Len(s)
      PROVE  BytesLeft(s, l, rest) = rest
  <2>1. From(s, l) = <<>>
    BY <1>1, <1>4 DEF From
  <2> QED BY <2>1, ConcatEmptySeq DEF BytesLeft
<1>5. BytesLeft(s, 0, rest) = s \o rest
  <2>1. From(s, 0) = s
    BY DEF From
  <2> QED BY <2>1 DEF BytesLeft
<1> QED BY <1>2, <1>3, <1>4, <1>5

\* A unit read from what is left is its first, and the rest is left.
LEMMA ReadsTheNext ==
  ASSUME NEW read \in Seq(Piece), NEW ts, NEW x \in Piece, NEW rest \in Seq(Piece), NEW u \in Piece,
         Left(read, ts, Cons(x, rest)), IsPrefix(Append(read, u), RawTransactions(ts))
  PROVE  u = x /\ Left(Append(read, u), ts, rest)
<1> DEFINE raw == RawTransactions(ts)
           n == Len(read)
<1>1. raw = (read \o <<x>>) \o rest
  BY ConsJoins DEF Left
<1>2. PICK h \in Seq(Piece) : h = read \o <<x>> /\ h = Append(read, x) /\ Len(h) = n + 1 /\ h[n + 1] = x
  <2>1. Append(read, x) \in Seq(Piece) /\ Len(Append(read, x)) = n + 1 /\ Append(read, x)[n + 1] = x
    BY AppendProperties
  <2>2. Append(read, x) = read \o <<x>>
    BY AppendIsConcat
  <2> QED BY <2>1, <2>2
<1>3. raw[n + 1] = x /\ raw \in Seq(Piece) /\ n \in Nat
  BY <1>1, <1>2
<1>4. PICK g \in Seq(Piece) : g = Append(read, u) /\ Len(g) = n + 1 /\ g[n + 1] = u
  BY AppendProperties
<1> HIDE DEF raw
<1>5. n + 1 <= Len(raw) /\ SubSeq(g, 1, n + 1) = SubSeq(raw, 1, n + 1)
  BY <1>4 DEF IsPrefix, raw
<1>6. SubSeq(g, 1, n + 1)[n + 1] = g[n + 1] /\ SubSeq(raw, 1, n + 1)[n + 1] = raw[n + 1]
  BY <1>3, <1>4, <1>5
<1>7. u = x
  BY <1>3, <1>4, <1>5, <1>6
<1> QED BY <1>1, <1>2, <1>7 DEF Left, raw

\* What has been read is a prefix if it is with one unit more.
LEMMA PrefixBefore ==
  ASSUME NEW read \in Seq(Piece), NEW raw \in Seq(Piece), NEW u \in Piece, IsPrefix(Append(read, u), raw)
  PROVE  IsPrefix(read, raw)
<1>1. Len(read) \in Nat /\ Len(raw) \in Nat
  OBVIOUS
<1>2. PICK g \in Seq(Piece) : /\ g = Append(read, u) /\ Len(g) = Len(read) + 1
                              /\ \A i \in 1 .. Len(read) : g[i] = read[i]
  <2>1. /\ Append(read, u) \in Seq(Piece) /\ Len(Append(read, u)) = Len(read) + 1
        /\ \A i \in 1 .. Len(read) : Append(read, u)[i] = read[i]
    BY AppendProperties
  <2> QED BY <2>1
<1>3. Len(g) <= Len(raw) /\ SubSeq(g, 1, Len(g)) = SubSeq(raw, 1, Len(g))
  BY <1>2 DEF IsPrefix
<1>4. \A i \in 1 .. Len(g) : g[i] = raw[i]
  <2>1. ASSUME NEW i \in 1 .. Len(g)
        PROVE  g[i] = raw[i]
    <3>1. SubSeq(g, 1, Len(g))[i] = g[i] /\ SubSeq(raw, 1, Len(g))[i] = raw[i]
      BY <1>1, <1>2, <1>3
    <3> QED BY <1>3, <3>1
  <2> QED BY <2>1
<1>5. \A i \in 1 .. Len(read) : read[i] = raw[i]
  BY <1>1, <1>2, <1>4
<1>6. SubSeq(read, 1, Len(read)) = SubSeq(raw, 1, Len(read))
  <2>1. Len(read) <= Len(raw)
    BY <1>1, <1>2, <1>3
  <2> QED BY <1>1, <1>5, <2>1
<1> QED BY <1>1, <1>2, <1>3, <1>6 DEF IsPrefix

\* A pair at the front is two units.
TwoUnits(x, y, s) == <<x, y>> \o s = Cons(x, Cons(y, s))

LEMMA ConsPair ==
  ASSUME NEW x \in Piece, NEW y \in Piece, NEW s \in Seq(Piece)
  PROVE  <<x, y>> \in Seq(Piece) /\ TwoUnits(x, y, s)
<1>1. <<x>> \in Seq(Piece) /\ <<y>> \in Seq(Piece)
  OBVIOUS
<1>2. <<x>> \o <<y>> = <<x, y>> /\ <<x, y>> \in Seq(Piece)
  <2>1. Append(Append(<<>>, x), y) = <<>> \o <<x, y>> /\ <<x, y>> \in Seq(Piece)
    <3>0. <<>> \in Seq(Piece)
      OBVIOUS
    <3>1. PICK e \in Seq(Piece) : e = <<>>
      BY <3>0
    <3>2. <<x, y>> \in Seq(Piece) /\ Append(Append(e, x), y) = e \o <<x, y>>
      BY PairJoins
    <3> QED BY <3>1, <3>2
  <2>2. <<>> \o <<x, y>> = <<x, y>>
    BY <2>1, ConcatEmptySeq
  <2>3. Append(<<>>, x) = <<x>>
    OBVIOUS
  <2>4. Append(<<x>>, y) = <<x>> \o <<y>>
    BY <1>1, AppendIsConcat
  <2> QED BY <2>1, <2>2, <2>3, <2>4
<1>3. PICK a \in Seq(Piece), b \in Seq(Piece) : a = <<x>> /\ b = <<y>>
  BY <1>1
<1>4. (a \o b) \o s = a \o (b \o s)
  BY ConcatAssociative
<1> QED BY <1>2, <1>3, <1>4 DEF Cons, TwoUnits

\* The encodings that are left, vector by vector.
LEMMA TxsLeftIs ==
  ASSUME NEW ts \in Seq(AnyTransaction), NEW j \in 0 .. Len(ts)
  PROVE  /\ TxsLeft(ts, j) \in Seq(Piece)
         /\ j < Len(ts) => TxsLeft(ts, j) = TxFormat(ts[j + 1]) \o TxsLeft(ts, j + 1)
         /\ j = Len(ts) => TxsLeft(ts, j) = <<>>
<1> DEFINE f == [i \in DOMAIN ts |-> TxFormat(ts[i])]
<1>1. Len(ts) \in Nat /\ DOMAIN ts = 1 .. Len(ts) /\ \A i \in 1 .. Len(ts) : ts[i] \in AnyTransaction
  OBVIOUS
<1>2. \A t \in AnyTransaction : TxFormat(t) \in Seq(Piece)
  BY TxsJoin
<1>3. f \in [1 .. Len(ts) -> Seq(Piece)]
  BY <1>1, <1>2
<1>4. f \in Seq(Seq(Piece)) /\ Len(f) = Len(ts)
  BY <1>1, <1>3
<1>5. j < Len(ts) => f[j + 1] = TxFormat(ts[j + 1])
  BY <1>1
<1> HIDE DEF f
<1> QED BY <1>4, <1>5, FlattenFrom DEF TxsLeft, f

LEMMA OutsFromIs ==
  ASSUME NEW os \in Seq(AnyOut), NEW m \in 0 .. Len(os)
  PROVE  /\ OutsFrom(os, m) \in Seq(Piece)
         /\ m < Len(os) => OutsFrom(os, m) = OutFormat(os[m + 1]) \o OutsFrom(os, m + 1)
         /\ m = Len(os) => OutsFrom(os, m) = <<>>
         /\ OutsFrom(os, 0) = Outs(os)
<1> DEFINE f == [i \in DOMAIN os |-> OutFormat(os[i])]
<1>1. Len(os) \in Nat /\ DOMAIN os = 1 .. Len(os) /\ \A i \in 1 .. Len(os) : os[i] \in AnyOut
  OBVIOUS
<1>2. \A o \in AnyOut : OutFormat(o) \in Seq(Piece)
  BY OutsJoin
<1>3. f \in [1 .. Len(os) -> Seq(Piece)]
  BY <1>1, <1>2
<1>4. f \in Seq(Seq(Piece)) /\ Len(f) = Len(os)
  BY <1>1, <1>3
<1>5. m < Len(os) => f[m + 1] = OutFormat(os[m + 1])
  BY <1>1
<1> HIDE DEF f
<1>6. From(f, 0) = f
  BY <1>4 DEF From
<1>7. OutsFrom(os, 0) = Outs(os)
  BY <1>6 DEF OutsFrom, Outs, f
<1> QED BY <1>4, <1>5, <1>7, FlattenFrom DEF OutsFrom, f

LEMMA InsFromIs ==
  ASSUME NEW is \in Seq(AnyIn), NEW k \in 0 .. Len(is)
  PROVE  /\ InsFrom(is, k) \in Seq(Piece)
         /\ k < Len(is) => InsFrom(is, k) = InFormat(is[k + 1]) \o InsFrom(is, k + 1)
         /\ k = Len(is) => InsFrom(is, k) = <<>>
         /\ InsFrom(is, 0) = Ins(is)
<1> DEFINE f == [i \in DOMAIN is |-> InFormat(is[i])]
<1>1. Len(is) \in Nat /\ DOMAIN is = 1 .. Len(is) /\ \A i \in 1 .. Len(is) : is[i] \in AnyIn
  OBVIOUS
<1>2. \A i \in AnyIn : InFormat(i) \in Seq(Piece)
  BY InsJoin
<1>3. f \in [1 .. Len(is) -> Seq(Piece)]
  BY <1>1, <1>2
<1>4. f \in Seq(Seq(Piece)) /\ Len(f) = Len(is)
  BY <1>1, <1>3
<1>5. k < Len(is) => f[k + 1] = InFormat(is[k + 1])
  BY <1>1
<1> HIDE DEF f
<1>6. From(f, 0) = f
  BY <1>4 DEF From
<1>7. InsFrom(is, 0) = Ins(is)
  BY <1>6 DEF InsFrom, Ins, f
<1> QED BY <1>4, <1>5, <1>7, FlattenFrom DEF InsFrom, f

\* The outputs that are left, and the lock time after the last.
LEMMA OutsLeftIs ==
  ASSUME NEW ts \in Seq(AnyTransaction), NEW j \in 0 .. Len(ts) - 1,
         NEW t \in AnyTransaction, NEW m \in 0 .. Len(t.outputs)
  PROVE  /\ Cons(t.lock_time, TxsLeft(ts, j + 1)) \in Seq(Piece)
         /\ OutsLeft(ts, j, t, m) \in Seq(Piece)
         /\ m < Len(t.outputs) =>
              LET o == t.outputs[m + 1]
              IN  OutsLeft(ts, j, t, m) =
                    Cons(o.value, Cons(Len(o.destiny_pub_key),
                         BytesLeft(o.destiny_pub_key, 0, OutsLeft(ts, j, t, m + 1))))
         /\ m = Len(t.outputs) => OutsLeft(ts, j, t, m) = Cons(t.lock_time, TxsLeft(ts, j + 1))
<1> DEFINE R == Cons(t.lock_time, TxsLeft(ts, j + 1))
<1>1. t.lock_time \in Piece /\ t.outputs \in Seq(AnyOut) /\ Len(t.outputs) \in Nat /\ Len(ts) \in Nat
  BY DEF AnyTransaction
<1>2. R \in Seq(Piece)
  <2>1. j + 1 \in 0 .. Len(ts)
    BY <1>1
  <2> QED BY <1>1, <2>1, TxsLeftIs, ConsIs
<1> HIDE DEF R
<1>3. ASSUME NEW k \in 0 .. Len(t.outputs)
      PROVE  OutsFrom(t.outputs, k) \in Seq(Piece) /\ OutsLeft(ts, j, t, k) = OutsFrom(t.outputs, k) \o R
             /\ OutsLeft(ts, j, t, k) \in Seq(Piece)
  <2>1. OutsFrom(t.outputs, k) \in Seq(Piece)
    BY <1>1, OutsFromIs
  <2>2. OutsLeft(ts, j, t, k) = OutsFrom(t.outputs, k) \o R
    BY DEF OutsLeft, R
  <2> QED BY <1>2, <2>1, <2>2, ConcatProperties
<1>4. ASSUME m < Len(t.outputs)
      PROVE  LET o == t.outputs[m + 1]
             IN  OutsLeft(ts, j, t, m) =
                   Cons(o.value, Cons(Len(o.destiny_pub_key),
                        BytesLeft(o.destiny_pub_key, 0, OutsLeft(ts, j, t, m + 1))))
  <2> DEFINE o == t.outputs[m + 1]
  <2>1. m + 1 \in 0 .. Len(t.outputs) /\ o \in AnyOut
    BY <1>1, <1>4
  <2>2. o.value \in Piece /\ o.destiny_pub_key \in Seq(Piece) /\ Len(o.destiny_pub_key) \in Piece
    BY <2>1 DEF AnyOut, Piece
  <2>3. OutsFrom(t.outputs, m) = OutFormat(o) \o OutsFrom(t.outputs, m + 1)
    BY <1>1, <1>4, OutsFromIs
  <2> HIDE DEF o
  <2>4. PICK v \in Piece, n \in Piece, s \in Seq(Piece), F \in Seq(Piece) :
          /\ v = o.value /\ n = Len(o.destiny_pub_key) /\ s = o.destiny_pub_key
          /\ F = OutsFrom(t.outputs, m + 1)
    BY <1>3, <2>1, <2>2
  <2>5. PICK h \in Seq(Piece) : h = <<v, n>>
    BY ConsPair
  <2>6. OutFormat(o) = h \o s
    BY <2>4, <2>5 DEF OutFormat
  <2>7. PICK x \in Seq(Piece) : x = h \o s
    BY ConcatProperties
  <2>8. (x \o F) \o R = x \o (F \o R)
    <3>1. Regroups(x, F, R)
      BY <1>2, Regroup
    <3> QED BY <3>1 DEF Regroups
  <2>9. PICK y \in Seq(Piece) : y = F \o R
    BY <1>2, ConcatProperties
  <2>10. (h \o s) \o y = h \o (s \o y)
    <3>1. Regroups(h, s, y)
      BY Regroup
    <3> QED BY <3>1 DEF Regroups
  <2>11. PICK z \in Seq(Piece) : z = s \o y
    BY ConcatProperties
  <2>12. h \o z = Cons(v, Cons(n, z))
    <3>1. TwoUnits(v, n, z)
      BY ConsPair
    <3> QED BY <2>5, <3>1 DEF TwoUnits
  <2>13. y = OutsLeft(ts, j, t, m + 1)
    BY <1>3, <2>1, <2>4, <2>9
  <2>14. z = BytesLeft(s, 0, y)
    <3>1. 0 \in 0 .. Len(s)
      OBVIOUS
    <3> QED BY <2>11, <3>1, BytesLeftIs
  <2>15. OutsLeft(ts, j, t, m) = h \o z
    BY <1>3, <2>3, <2>4, <2>6, <2>7, <2>8, <2>9, <2>10, <2>11
  <2> QED BY <2>4, <2>12, <2>13, <2>14, <2>15 DEF o
<1>5. ASSUME m = Len(t.outputs)
      PROVE  OutsLeft(ts, j, t, m) = R
  <2>1. OutsFrom(t.outputs, m) = <<>>
    BY <1>1, <1>5, OutsFromIs
  <2> QED BY <1>2, <1>3, <2>1, ConcatEmptySeq
<1> QED BY <1>2, <1>3, <1>4, <1>5 DEF R

\* The inputs that are left, and the outputs after the last.
LEMMA InsLeftIs ==
  ASSUME NEW ts \in Seq(AnyTransaction), NEW j \in 0 .. Len(ts) - 1,
         NEW t \in AnyTransaction, NEW k \in 0 .. Len(t.inputs)
  PROVE  /\ OutsLeft(ts, j, t, 0) \in Seq(Piece)
         /\ Cons(Len(t.outputs), OutsLeft(ts, j, t, 0)) \in Seq(Piece)
         /\ InsLeft(ts, j, t, k) \in Seq(Piece)
         /\ k < Len(t.inputs) =>
              LET i == t.inputs[k + 1]
              IN  InsLeft(ts, j, t, k) =
                    Cons(i.tx_id, Cons(i.v_out, Cons(Len(i.signature),
                         BytesLeft(i.signature, 0, Cons(i.sequence, InsLeft(ts, j, t, k + 1))))))
         /\ k = Len(t.inputs) => InsLeft(ts, j, t, k) = Cons(Len(t.outputs), OutsLeft(ts, j, t, 0))
<1> DEFINE R == Cons(Len(t.outputs), OutsLeft(ts, j, t, 0))
<1>1. /\ t.inputs \in Seq(AnyIn) /\ Len(t.inputs) \in Nat
      /\ t.outputs \in Seq(AnyOut) /\ Len(t.outputs) \in Nat /\ Len(t.outputs) \in Piece
  BY DEF AnyTransaction, Piece
<1>2. OutsLeft(ts, j, t, 0) \in Seq(Piece) /\ R \in Seq(Piece)
  <2>1. 0 \in 0 .. Len(t.outputs)
    BY <1>1
  <2>2. OutsLeft(ts, j, t, 0) \in Seq(Piece)
    BY <2>1, OutsLeftIs
  <2> QED BY <1>1, <2>2, ConsIs
<1> HIDE DEF R
<1>3. ASSUME NEW l \in 0 .. Len(t.inputs)
      PROVE  InsFrom(t.inputs, l) \in Seq(Piece) /\ InsLeft(ts, j, t, l) = InsFrom(t.inputs, l) \o R
             /\ InsLeft(ts, j, t, l) \in Seq(Piece)
  <2>1. InsFrom(t.inputs, l) \in Seq(Piece)
    BY <1>1, InsFromIs
  <2>2. InsLeft(ts, j, t, l) = InsFrom(t.inputs, l) \o R
    BY DEF InsLeft, R
  <2> QED BY <1>2, <2>1, <2>2, ConcatProperties
<1>4. ASSUME k < Len(t.inputs)
      PROVE  LET i == t.inputs[k + 1]
             IN  InsLeft(ts, j, t, k) =
                   Cons(i.tx_id, Cons(i.v_out, Cons(Len(i.signature),
                        BytesLeft(i.signature, 0, Cons(i.sequence, InsLeft(ts, j, t, k + 1))))))
  <2> DEFINE i == t.inputs[k + 1]
  <2>1. k + 1 \in 0 .. Len(t.inputs) /\ i \in AnyIn
    BY <1>1, <1>4
  <2>2. /\ i.tx_id \in Piece /\ i.v_out \in Piece /\ i.sequence \in Piece
        /\ i.signature \in Seq(Piece) /\ Len(i.signature) \in Piece
    BY <2>1 DEF AnyIn, Piece
  <2>3. InsFrom(t.inputs, k) = InFormat(i) \o InsFrom(t.inputs, k + 1)
    BY <1>1, <1>4, InsFromIs
  <2> HIDE DEF i
  <2>4. PICK v \in Piece, w \in Piece, n \in Piece, s \in Seq(Piece), q \in Piece, F \in Seq(Piece) :
          /\ v = i.tx_id /\ w = i.v_out /\ n = Len(i.signature) /\ s = i.signature
          /\ q = i.sequence /\ F = InsFrom(t.inputs, k + 1)
    BY <1>3, <2>1, <2>2
  <2>5. PICK h \in Seq(Piece) : h = <<v, w, n>> /\ \A z \in Seq(Piece) : h \o z = Cons(v, Cons(w, Cons(n, z)))
    <3>1. <<v, w>> \in Seq(Piece) /\ <<n>> \in Seq(Piece)
      BY ConsPair
    <3>2. <<v, w, n>> = <<v, w>> \o <<n>>
      <4>1. <<v, w, n>> = Append(<<v, w>>, n)
        OBVIOUS
      <4> QED BY <3>1, <4>1, AppendIsConcat
    <3>3. PICK a \in Seq(Piece), b \in Seq(Piece) : a = <<v, w>> /\ b = <<n>>
      BY <3>1
    <3>4. ASSUME NEW z \in Seq(Piece)
          PROVE  (a \o b) \o z = Cons(v, Cons(w, Cons(n, z)))
      <4>1. Regroups(a, b, z)
        BY Regroup
      <4>2. PICK y \in Seq(Piece) : y = Cons(n, z) /\ y = b \o z
        BY <3>3, ConsIs
      <4>3. TwoUnits(v, w, y)
        BY ConsPair
      <4>4. <<v, w>> \o y = Cons(v, Cons(w, y))
        BY <4>3 DEF TwoUnits
      <4> QED BY <3>3, <4>1, <4>2, <4>4 DEF Regroups
    <3>5. a \o b \in Seq(Piece)
      BY ConcatProperties
    <3> QED BY <3>2, <3>3, <3>4, <3>5
  <2>6. PICK p \in Seq(Piece) : p = <<q>>
    <3>1. <<q>> \in Seq(Piece)
      OBVIOUS
    <3> QED BY <3>1
  <2>7. InFormat(i) = (h \o s) \o p
    BY <2>4, <2>5, <2>6 DEF InFormat
  <2>8. PICK x \in Seq(Piece) : x = h \o s
    BY ConcatProperties
  <2>9. PICK g \in Seq(Piece) : g = x \o p
    BY ConcatProperties
  <2>10. Regroups(g, F, R)
    BY <1>2, Regroup
  <2>11. PICK y \in Seq(Piece) : y = F \o R
    BY <1>2, ConcatProperties
  <2>12. Regroups(x, p, y)
    BY Regroup
  <2>13. PICK z \in Seq(Piece) : z = p \o y
    BY ConcatProperties
  <2>14. Regroups(h, s, z)
    BY Regroup
  <2>15. PICK b \in Seq(Piece) : b = s \o z
    BY ConcatProperties
  <2>16. y = InsLeft(ts, j, t, k + 1)
    BY <1>3, <2>1, <2>4, <2>11
  <2>17. z = Cons(q, y)
    BY <2>6, <2>13 DEF Cons
  <2>18. b = BytesLeft(s, 0, z)
    <3>1. 0 \in 0 .. Len(s)
      OBVIOUS
    <3> QED BY <2>15, <3>1, BytesLeftIs
  <2>19. InsLeft(ts, j, t, k) = h \o b
    BY <1>3, <2>3, <2>4, <2>7, <2>8, <2>9, <2>10, <2>11, <2>12, <2>13, <2>14, <2>15 DEF Regroups
  <2>20. h \o b = Cons(v, Cons(w, Cons(n, b)))
    BY <2>5
  <2> QED BY <2>4, <2>16, <2>17, <2>18, <2>19, <2>20 DEF i
<1>5. ASSUME k = Len(t.inputs)
      PROVE  InsLeft(ts, j, t, k) = R
  <2>1. InsFrom(t.inputs, k) = <<>>
    BY <1>1, <1>5, InsFromIs
  <2> QED BY <1>2, <1>3, <2>1, ConcatEmptySeq
<1> QED BY <1>2, <1>3, <1>4, <1>5 DEF R

\* A transaction that is left, from its version on.
LEMMA TxLeftIs ==
  ASSUME NEW ts \in Seq(AnyTransaction), NEW j \in 0 .. Len(ts) - 1, NEW t \in AnyTransaction, t = ts[j + 1]
  PROVE  TxsLeft(ts, j) = Cons(t.version, Cons(Len(t.inputs), InsLeft(ts, j, t, 0)))
<1>1. /\ t.inputs \in Seq(AnyIn) /\ Len(t.inputs) \in Nat /\ Len(t.inputs) \in Piece
      /\ t.outputs \in Seq(AnyOut) /\ Len(t.outputs) \in Nat /\ Len(t.outputs) \in Piece
      /\ t.version \in Piece /\ t.lock_time \in Piece /\ Len(ts) \in Nat
  BY DEF AnyTransaction, Piece
<1>2. j \in 0 .. Len(ts) /\ j < Len(ts) /\ j + 1 \in 0 .. Len(ts)
  BY <1>1
<1>3. TxsLeft(ts, j) = TxFormat(t) \o TxsLeft(ts, j + 1) /\ TxsLeft(ts, j + 1) \in Seq(Piece)
  BY <1>2, TxsLeftIs
<1>4. /\ InsFrom(t.inputs, 0) = Ins(t.inputs) /\ Ins(t.inputs) \in Seq(Piece)
      /\ OutsFrom(t.outputs, 0) = Outs(t.outputs) /\ Outs(t.outputs) \in Seq(Piece)
  <2>1. 0 \in 0 .. Len(t.inputs) /\ 0 \in 0 .. Len(t.outputs)
    BY <1>1
  <2> QED BY <1>1, <2>1, InsFromIs, OutsFromIs
<1>5. PICK v \in Piece, n \in Piece, I \in Seq(Piece), m \in Seq(Piece), O \in Seq(Piece),
           z \in Seq(Piece), T \in Seq(Piece) :
        /\ v = t.version /\ n = Len(t.inputs) /\ I = Ins(t.inputs) /\ m = <<Len(t.outputs)>>
        /\ O = Outs(t.outputs) /\ z = <<t.lock_time>> /\ T = TxsLeft(ts, j + 1)
  <2>1. <<Len(t.outputs)>> \in Seq(Piece) /\ <<t.lock_time>> \in Seq(Piece)
    BY <1>1
  <2> QED BY <1>1, <1>3, <1>4, <2>1
<1>6. PICK h \in Seq(Piece) : h = <<v, n>>
  BY ConsPair
<1>7. TxFormat(t) = (((h \o I) \o m) \o O) \o z
  BY <1>5, <1>6 DEF TxFormat, Ins, Outs
<1>8. PICK a \in Seq(Piece) : a = h \o I
  BY ConcatProperties
<1>9. PICK b \in Seq(Piece) : b = a \o m
  BY ConcatProperties
<1>10. PICK c \in Seq(Piece) : c = b \o O
  BY ConcatProperties
<1>11. PICK d \in Seq(Piece) : d = z \o T
  BY ConcatProperties
<1>12. PICK e \in Seq(Piece) : e = O \o d
  BY ConcatProperties
<1>13. PICK f \in Seq(Piece) : f = m \o e
  BY ConcatProperties
<1>14. PICK g \in Seq(Piece) : g = I \o f
  BY ConcatProperties
<1>15. Regroups(c, z, T) /\ Regroups(b, O, d) /\ Regroups(a, m, e) /\ Regroups(h, I, f)
  BY Regroup
<1>16. TxsLeft(ts, j) = h \o g
  <2>1. TxsLeft(ts, j) = (c \o z) \o T
    BY <1>3, <1>5, <1>7, <1>8, <1>9, <1>10
  <2>2. (c \o z) \o T = c \o d
    BY <1>11, <1>15 DEF Regroups
  <2>3. c \o d = b \o e
    BY <1>10, <1>12, <1>15 DEF Regroups
  <2>4. b \o e = a \o f
    BY <1>9, <1>13, <1>15 DEF Regroups
  <2>5. a \o f = h \o g
    BY <1>8, <1>14, <1>15 DEF Regroups
  <2> QED BY <2>1, <2>2, <2>3, <2>4, <2>5
<1>17. h \o g = Cons(v, Cons(n, g))
  <2>1. TwoUnits(v, n, g)
    BY ConsPair
  <2> QED BY <1>6, <2>1 DEF TwoUnits
<1>18. e = OutsLeft(ts, j, t, 0)
  BY <1>4, <1>5, <1>11, <1>12 DEF OutsLeft, Cons
<1>19. g = InsLeft(ts, j, t, 0)
  BY <1>4, <1>5, <1>13, <1>14, <1>18 DEF InsLeft, Cons
<1> QED BY <1>5, <1>16, <1>17, <1>19

\* The parser of a transaction, input by input and output by output.
InStages == {"tx_id", "v_out", "signature_length", "signature", "sequence"}
OutStages == {"value", "pub_length", "pub_key", "output"}

LEMMA StageOf ==
  ASSUME NEW ts, NEW j, NEW t, AtTx(ts, j, t)
  PROVE  /\ parser \in {"version", "input_count", "output_count", "lock_time"} \cup InStages \cup OutStages
         /\ parser \in InStages => \E k \in Nat, i \in AnyIn : InInputs(t, k, i) /\ AtInput(ts, j, t, k, i)
         /\ parser \in OutStages => \E m \in Nat, o \in AnyOut : InOutputs(t, m, o) /\ AtOutput(ts, j, t, m, o)
         /\ parser = "version" => Left(input, ts, TxsLeft(ts, j))
         /\ parser = "input_count" => found.version = t.version /\ Left(input, ts, Cons(Len(t.inputs), InsLeft(ts, j, t, 0)))
         /\ parser = "output_count" => PastInputs(t) /\ Left(input, ts, Cons(Len(t.outputs), OutsLeft(ts, j, t, 0)))
         /\ parser = "lock_time" => /\ PastInputs(t) /\ items.output_count = t.outputs
                                    /\ Left(input, ts, Cons(t.lock_time, TxsLeft(ts, j + 1)))
<1>1. ASSUME NEW k \in Nat, NEW i \in AnyIn, AtInput(ts, j, t, k, i)
      PROVE  parser \in InStages
  BY <1>1 DEF AtInput, InStages
<1>2. ASSUME NEW m \in Nat, NEW o \in AnyOut, AtOutput(ts, j, t, m, o)
      PROVE  parser \in OutStages
  BY <1>2 DEF AtOutput, OutStages
<1>3. InStages \cap OutStages = {}
      /\ \A s \in {"version", "input_count", "output_count", "lock_time"} : s \notin InStages /\ s \notin OutStages
  BY DEF InStages, OutStages
<1> QED BY <1>1, <1>2, <1>3 DEF AtTx

\* The first elements of a sequence.
LEMMA UptoIs ==
  ASSUME NEW S, NEW s \in Seq(S), NEW n \in 0 .. Len(s)
  PROVE  /\ Upto(s, n) \in Seq(S) /\ Len(Upto(s, n)) = n
         /\ n < Len(s) => Upto(s, n + 1) = Append(Upto(s, n), s[n + 1])
         /\ n = Len(s) => Upto(s, n) = s
         /\ n = 0 => Upto(s, n) = <<>>
BY DEF Upto

\* Where the parser goes with some of the elements of a vector.
LEMMA TurnIs ==
  ASSUME NEW loop, NEW n \in Nat, NEW k \in 0 .. n
  PROVE  /\ k < n => Turn(loop, k, n) = Loop[loop].body
         /\ k = n => Turn(loop, k, n) = Loop[loop].exit
BY DEF Turn

\* The next turn of each of the loops, or what is after it.
LEMMA NextInput ==
  ASSUME NEW ts \in Seq(AnyTransaction), NEW j \in 0 .. Len(ts) - 1, NEW t \in AnyTransaction,
         NEW k \in 0 .. Len(t.inputs),
         found'.version = t.version, found'.input_count = Len(t.inputs),
         items'.input_count = Upto(t.inputs, k), Left(input', ts, InsLeft(ts, j, t, k)),
         parser' = Turn("input_count", k, Len(t.inputs))
  PROVE  AtTx(ts, j, t)'
<1>1. t.inputs \in Seq(AnyIn) /\ Len(t.inputs) \in Nat
  BY DEF AnyTransaction
<1>2. CASE k < Len(t.inputs)
  <2>1. parser' = "tx_id"
    BY <1>1, <1>2, TurnIs DEF Loop
  <2>2. PICK i \in AnyIn : i = t.inputs[k + 1]
    BY <1>1, <1>2
  <2>3. k \in Nat /\ k \in 0 .. Len(t.inputs) - 1
    BY <1>1, <1>2
  <2>4. InInputs(t, k, i)'
    BY <2>2, <2>3 DEF InInputs
  <2>5. AtInput(ts, j, t, k, i)'
    BY <2>1 DEF AtInput
  <2> QED BY <2>3, <2>4, <2>5 DEF AtTx
<1>3. CASE k = Len(t.inputs)
  <2>1. parser' = "output_count"
    BY <1>1, <1>3, TurnIs DEF Loop
  <2>2. items'.input_count = t.inputs
    BY <1>1, <1>3, UptoIs
  <2>3. Left(input', ts, Cons(Len(t.outputs), OutsLeft(ts, j, t, 0)))
    BY <1>3, InsLeftIs
  <2> QED BY <2>1, <2>2, <2>3 DEF AtTx, PastInputs
<1> QED BY <1>1, <1>2, <1>3

LEMMA NextOutput ==
  ASSUME NEW ts \in Seq(AnyTransaction), NEW j \in 0 .. Len(ts) - 1, NEW t \in AnyTransaction,
         NEW m \in 0 .. Len(t.outputs),
         PastInputs(t)', found'.output_count = Len(t.outputs),
         items'.output_count = Upto(t.outputs, m), Left(input', ts, OutsLeft(ts, j, t, m)),
         parser' = Turn("output_count", m, Len(t.outputs))
  PROVE  AtTx(ts, j, t)'
<1>1. t.outputs \in Seq(AnyOut) /\ Len(t.outputs) \in Nat
  BY DEF AnyTransaction
<1>2. CASE m < Len(t.outputs)
  <2>1. parser' = "value"
    <3>1. parser' = Loop["output_count"].body
      BY <1>1, <1>2, TurnIs
    <3> QED BY <3>1 DEF Loop
  <2>2. PICK o \in AnyOut : o = t.outputs[m + 1]
    BY <1>1, <1>2
  <2>3. m \in Nat /\ m \in 0 .. Len(t.outputs) - 1
    BY <1>1, <1>2
  <2>4. InOutputs(t, m, o)'
    BY <2>2, <2>3 DEF InOutputs
  <2>5. AtOutput(ts, j, t, m, o)'
    BY <2>1 DEF AtOutput
  <2> QED BY <2>3, <2>4, <2>5 DEF AtTx
<1>3. CASE m = Len(t.outputs)
  <2>1. parser' = "lock_time"
    BY <1>1, <1>3, TurnIs DEF Loop
  <2>2. items'.output_count = t.outputs
    BY <1>1, <1>3, UptoIs
  <2>3. Left(input', ts, Cons(t.lock_time, TxsLeft(ts, j + 1)))
    BY <1>3, OutsLeftIs
  <2> QED BY <2>1, <2>2, <2>3 DEF AtTx
<1> QED BY <1>1, <1>2, <1>3

LEMMA NextTransaction ==
  ASSUME NEW ts \in Seq(AnyTransaction), NEW j \in 0 .. Len(ts),
         found'.tx_count = Len(ts), items'.tx_count = Upto(ts, j), Left(input', ts, TxsLeft(ts, j)),
         parser' = Turn("tx_count", j, Len(ts))
  PROVE  Follows(ts)'
<1>1. Len(ts) \in Nat
  OBVIOUS
<1>2. CASE j < Len(ts)
  <2>1. parser' = "version"
    BY <1>1, <1>2, TurnIs, SMTT(60) DEF Loop
  <2>2. PICK t \in AnyTransaction : t = ts[j + 1]
    BY <1>1, <1>2
  <2>3. j \in Nat /\ j \in 0 .. Len(ts) - 1
    BY <1>1, <1>2
  <2>4. InTx(ts, j, t)'
    BY <2>2, <2>3 DEF InTx
  <2>5. AtTx(ts, j, t)'
    BY <2>1 DEF AtTx
  <2> QED BY <2>3, <2>4, <2>5 DEF Follows
<1>3. CASE j = Len(ts)
  <2>1. parser' = "done"
    BY <1>1, <1>3, TurnIs DEF Loop
  <2>2. items'.tx_count = ts
    BY <1>1, <1>3, UptoIs
  <2> QED BY <2>1, <2>2 DEF Follows
<1> QED BY <1>1, <1>2, <1>3

\* What is kept of the transactions before the one being read.
LEMMA StillIn ==
  ASSUME NEW ts, NEW j, NEW t, InTx(ts, j, t),
         found'.tx_count = found.tx_count, items'.tx_count = items.tx_count
  PROVE  InTx(ts, j, t)'
BY DEF InTx

\* The next byte of a signature, or what is after it.
LEMMA NextOfSignature ==
  ASSUME NEW ts \in Seq(AnyTransaction), NEW j \in 0 .. Len(ts) - 1, NEW t \in AnyTransaction,
         NEW k \in 0 .. Len(t.inputs) - 1, NEW i \in AnyIn, i = t.inputs[k + 1], NEW l \in 0 .. Len(i.signature),
         found'.tx_id = i.tx_id, found'.v_out = i.v_out, found'.signature_length = Len(i.signature),
         items'.signature_length = Upto(i.signature, l),
         Left(input', ts, BytesLeft(i.signature, l, Cons(i.sequence, InsLeft(ts, j, t, k + 1)))),
         parser' = Turn("signature_length", l, Len(i.signature))
  PROVE  AtInput(ts, j, t, k, i)'
<1> DEFINE after == Cons(i.sequence, InsLeft(ts, j, t, k + 1))
<1>1. i.signature \in Seq(Piece) /\ Len(i.signature) \in Nat /\ i.sequence \in Piece
      /\ t.inputs \in Seq(AnyIn) /\ Len(t.inputs) \in Nat
  BY SMTT(60) DEF AnyIn, AnyTransaction
<1>2. after \in Seq(Piece)
  <2>1. k + 1 \in 0 .. Len(t.inputs)
    BY <1>1
  <2>2. InsLeft(ts, j, t, k + 1) \in Seq(Piece)
    BY <2>1, InsLeftIs
  <2> QED BY <1>1, <2>2, ConsIs
<1> HIDE DEF after
<1>3. Left(input', ts, BytesLeft(i.signature, l, after))
  BY DEF after
<1>4. CASE l < Len(i.signature)
  <2>1. parser' = "signature"
    <3>1. parser' = Loop["signature_length"].body
      BY <1>1, <1>4, TurnIs
    <3> QED BY <3>1 DEF Loop
  <2>2. l \in Nat /\ l \in 0 .. Len(i.signature) - 1
    BY <1>1, <1>4
  <2>3. InBytes("signature_length", i.signature, l)'
    BY <2>2 DEF InBytes
  <2> QED BY <1>3, <2>1, <2>2, <2>3 DEF AtInput, after
<1>5. CASE l = Len(i.signature)
  <2>1. parser' = "sequence"
    <3>1. parser' = Loop["signature_length"].exit
      BY <1>1, <1>5, TurnIs
    <3> QED BY <3>1 DEF Loop
  <2>2. items'.signature_length = i.signature
    BY <1>1, <1>5, UptoIs
  <2>3. BytesLeft(i.signature, l, after) = after
    <3>1. PICK s \in Seq(Piece) : s = i.signature
      BY <1>1
    <3>2. l \in 0 .. Len(s) /\ l = Len(s)
      BY <1>5, <3>1
    <3>3. BytesLeft(s, l, after) = after
      BY <1>2, <3>2, BytesLeftIs
    <3> QED BY <3>1, <3>3
  <2>4. Left(input', ts, after)
    BY <1>3, <2>3
  <2> QED BY <2>1, <2>2, <2>4 DEF AtInput, after
<1> QED BY <1>1, <1>4, <1>5

\* The next byte of a key, or what is after it.
LEMMA NextOfPubKey ==
  ASSUME NEW ts \in Seq(AnyTransaction), NEW j \in 0 .. Len(ts) - 1, NEW t \in AnyTransaction,
         NEW m \in 0 .. Len(t.outputs) - 1, NEW o \in AnyOut, o = t.outputs[m + 1],
         NEW l \in 0 .. Len(o.destiny_pub_key),
         found'.value = o.value, found'.pub_length = Len(o.destiny_pub_key),
         items'.pub_length = Upto(o.destiny_pub_key, l),
         Left(input', ts, BytesLeft(o.destiny_pub_key, l, OutsLeft(ts, j, t, m + 1))),
         parser' = Turn("pub_length", l, Len(o.destiny_pub_key))
  PROVE  AtOutput(ts, j, t, m, o)'
<1> DEFINE after == OutsLeft(ts, j, t, m + 1)
<1>1. o.destiny_pub_key \in Seq(Piece) /\ Len(o.destiny_pub_key) \in Nat
      /\ t.outputs \in Seq(AnyOut) /\ Len(t.outputs) \in Nat
  BY SMTT(60) DEF AnyOut, AnyTransaction
<1>2. after \in Seq(Piece)
  <2>1. m + 1 \in 0 .. Len(t.outputs)
    BY <1>1
  <2> QED BY <2>1, OutsLeftIs
<1> HIDE DEF after
<1>3. Left(input', ts, BytesLeft(o.destiny_pub_key, l, after))
  BY DEF after
<1>4. CASE l < Len(o.destiny_pub_key)
  <2>1. parser' = "pub_key"
    <3>1. parser' = Loop["pub_length"].body
      BY <1>1, <1>4, TurnIs
    <3> QED BY <3>1 DEF Loop
  <2>2. l \in Nat /\ l \in 0 .. Len(o.destiny_pub_key) - 1
    BY <1>1, <1>4
  <2>3. InBytes("pub_length", o.destiny_pub_key, l)'
    BY <2>2 DEF InBytes
  <2> QED BY <1>3, <2>1, <2>2, <2>3 DEF AtOutput, after
<1>5. CASE l = Len(o.destiny_pub_key)
  <2>1. parser' = "output"
    <3>1. parser' = Loop["pub_length"].exit
      BY <1>1, <1>5, TurnIs
    <3> QED BY <3>1 DEF Loop
  <2>2. items'.pub_length = o.destiny_pub_key
    BY <1>1, <1>5, UptoIs, ZenonT(60)
  <2>3. BytesLeft(o.destiny_pub_key, l, after) = after
    <3>1. PICK s \in Seq(Piece) : s = o.destiny_pub_key
      BY <1>1
    <3>2. l \in 0 .. Len(s) /\ l = Len(s)
      BY <1>5, <3>1
    <3>3. BytesLeft(s, l, after) = after
      BY <1>2, <3>2, BytesLeftIs
    <3> QED BY <3>1, <3>3
  <2>4. Left(input', ts, after)
    BY <1>3, <2>3
  <2> QED BY <2>1, <2>2, <2>4 DEF AtOutput, after
<1> QED BY <1>1, <1>4, <1>5

\* A fixed field of a transaction that follows.
LEMMA FieldsFollow ==
  ASSUME ParserTypeOK, NEW ts \in Seq(AnyTransaction), NEW j \in 0 .. Len(ts) - 1, NEW t \in AnyTransaction,
         InTx(ts, j, t), AtTx(ts, j, t), NEW u \in Field, ReadField(u), IsPrefix(input', RawTransactions(ts))
  PROVE  AtTx(ts, j, t)' /\ InTx(ts, j, t)'
<1>1. /\ u \in Piece /\ input' = Append(input, u) /\ input \in Seq(Piece)
      /\ parser \in {"version", "tx_id", "v_out", "value"} /\ items' = items
      /\ found'[parser] = u /\ parser' = NextRead[parser]
      /\ \A name \in DOMAIN Loop \cup DOMAIN NextRead : name # parser => found'[name] = found[name]
  BY DEF ReadField, Reads, ParserTypeOK, Piece, NextRead
<1>2. /\ DOMAIN Loop = {"tx_count", "input_count", "signature_length", "output_count", "pub_length"}
      /\ DOMAIN NextRead = {"version", "tx_id", "v_out", "value"}
  BY DEF Loop, NextRead
<1>3. ASSUME NEW x \in Piece, NEW rest \in Seq(Piece), Left(input, ts, Cons(x, rest))
      PROVE  u = x /\ Left(input', ts, rest)
  BY <1>1, <1>3, ReadsTheNext
<1>4. InTx(ts, j, t)'
  BY <1>1, <1>2, StillIn
<1>5. CASE parser = "version"
  <2>1. Left(input, ts, Cons(t.version, Cons(Len(t.inputs), InsLeft(ts, j, t, 0))))
    BY <1>5, StageOf, TxLeftIs DEF InTx
  <2>2. t.version \in Piece /\ Len(t.inputs) \in Piece /\ 0 \in 0 .. Len(t.inputs)
    BY DEF AnyTransaction, Piece
  <2>3. Cons(Len(t.inputs), InsLeft(ts, j, t, 0)) \in Seq(Piece)
    BY <2>2, InsLeftIs, ConsIs
  <2>4. found'.version = t.version /\ Left(input', ts, Cons(Len(t.inputs), InsLeft(ts, j, t, 0)))
    BY <1>1, <1>3, <1>5, <2>1, <2>2, <2>3
  <2>5. parser' = "input_count"
    BY <1>1, <1>5 DEF NextRead
  <2> QED BY <1>4, <2>4, <2>5 DEF AtTx
<1>6. CASE parser \in {"tx_id", "v_out"}
  <2>1. PICK k \in Nat, i \in AnyIn : InInputs(t, k, i) /\ AtInput(ts, j, t, k, i)
    BY <1>6, StageOf DEF InStages
  <2> DEFINE string == BytesLeft(i.signature, 0, Cons(i.sequence, InsLeft(ts, j, t, k + 1)))
  <2>2. /\ i.tx_id \in Piece /\ i.v_out \in Piece /\ i.sequence \in Piece
        /\ i.signature \in Seq(Piece) /\ Len(i.signature) \in Piece /\ 0 \in 0 .. Len(i.signature)
        /\ t.inputs \in Seq(AnyIn) /\ Len(t.inputs) \in Nat
    BY DEF AnyIn, AnyTransaction, Piece
  <2>3. k \in 0 .. Len(t.inputs) /\ k < Len(t.inputs) /\ k + 1 \in 0 .. Len(t.inputs) /\ i = t.inputs[k + 1]
    BY <2>1, <2>2 DEF InInputs
  <2>4. Cons(Len(i.signature), string) \in Seq(Piece) /\ Cons(i.v_out, Cons(Len(i.signature), string)) \in Seq(Piece)
    <3>1. Cons(i.sequence, InsLeft(ts, j, t, k + 1)) \in Seq(Piece)
      BY <2>2, <2>3, InsLeftIs, ConsIs
    <3>2. string \in Seq(Piece)
      BY <2>2, <3>1, BytesLeftIs
    <3> HIDE DEF string
    <3> QED BY <2>2, <3>2, ConsIs
  <2>5. InInputs(t, k, i)'
    BY <1>1, <1>2, <1>6, <2>1 DEF InInputs
  <2>6. CASE parser = "tx_id"
    <3>1. Left(input, ts, Cons(i.tx_id, Cons(i.v_out, Cons(Len(i.signature), string))))
      <4>1. Left(input, ts, InsLeft(ts, j, t, k))
        BY <2>1, <2>6 DEF AtInput
      <4> QED BY <2>3, <4>1, InsLeftIs
    <3>2. u = i.tx_id /\ Left(input', ts, Cons(i.v_out, Cons(Len(i.signature), string)))
      <4> HIDE DEF string
      <4> QED BY <1>3, <2>2, <2>4, <3>1
    <3>3. parser' = "v_out" /\ found'.tx_id = i.tx_id
      BY <1>1, <2>6, <3>2 DEF NextRead
    <3>4. AtInput(ts, j, t, k, i)'
      BY <3>2, <3>3 DEF AtInput
    <3> QED BY <1>4, <2>5, <3>4 DEF AtTx
  <2>7. CASE parser = "v_out"
    <3>1. found.tx_id = i.tx_id /\ Left(input, ts, Cons(i.v_out, Cons(Len(i.signature), string)))
      BY <2>1, <2>7 DEF AtInput
    <3>2. u = i.v_out /\ Left(input', ts, Cons(Len(i.signature), string))
      <4> HIDE DEF string
      <4> QED BY <1>3, <2>2, <2>4, <3>1
    <3>3. parser' = "signature_length" /\ found'.v_out = i.v_out /\ found'.tx_id = i.tx_id
      BY <1>1, <1>2, <2>7, <3>1, <3>2 DEF NextRead
    <3>4. AtInput(ts, j, t, k, i)'
      BY <3>2, <3>3 DEF AtInput
    <3> QED BY <1>4, <2>5, <3>4 DEF AtTx
  <2> QED BY <1>6, <2>6, <2>7
<1>7. CASE parser = "value"
  <2>1. PICK m \in Nat, o \in AnyOut : InOutputs(t, m, o) /\ AtOutput(ts, j, t, m, o)
    BY <1>7, StageOf DEF OutStages
  <2> DEFINE string == BytesLeft(o.destiny_pub_key, 0, OutsLeft(ts, j, t, m + 1))
  <2>2. /\ o.value \in Piece /\ o.destiny_pub_key \in Seq(Piece) /\ Len(o.destiny_pub_key) \in Piece
        /\ 0 \in 0 .. Len(o.destiny_pub_key) /\ t.outputs \in Seq(AnyOut) /\ Len(t.outputs) \in Nat
    BY DEF AnyOut, AnyTransaction, Piece
  <2>3. m \in 0 .. Len(t.outputs) /\ m < Len(t.outputs) /\ m + 1 \in 0 .. Len(t.outputs) /\ o = t.outputs[m + 1]
    BY <2>1, <2>2 DEF InOutputs
  <2>4. Cons(Len(o.destiny_pub_key), string) \in Seq(Piece)
    <3>1. OutsLeft(ts, j, t, m + 1) \in Seq(Piece)
      BY <2>3, OutsLeftIs
    <3>2. string \in Seq(Piece)
      BY <2>2, <3>1, BytesLeftIs
    <3> HIDE DEF string
    <3> QED BY <2>2, <3>2, ConsIs
  <2>5. InOutputs(t, m, o)'
    BY <1>1, <1>2, <1>7, <2>1 DEF InOutputs, PastInputs
  <2>6. Left(input, ts, Cons(o.value, Cons(Len(o.destiny_pub_key), string)))
    <3>1. Left(input, ts, OutsLeft(ts, j, t, m))
      BY <1>7, <2>1 DEF AtOutput
    <3> QED BY <2>3, <3>1, OutsLeftIs
  <2>7. u = o.value /\ Left(input', ts, Cons(Len(o.destiny_pub_key), string))
    <3> HIDE DEF string
    <3> QED BY <1>3, <2>2, <2>4, <2>6
  <2>8. parser' = "pub_length" /\ found'.value = o.value
    BY <1>1, <1>7, <2>7 DEF NextRead
  <2>9. AtOutput(ts, j, t, m, o)'
    BY <2>7, <2>8 DEF AtOutput
  <2> QED BY <1>4, <2>5, <2>9 DEF AtTx
<1> QED BY <1>1, <1>5, <1>6, <1>7

\* The encoding begins with the number of transactions.
LEMMA RawIs ==
  ASSUME NEW ts \in Seq(AnyTransaction)
  PROVE  /\ RawTransactions(ts) = Cons(Len(ts), TxsLeft(ts, 0)) /\ RawTransactions(ts) \in Seq(Piece)
         /\ Len(ts) \in Piece /\ TxsLeft(ts, 0) \in Seq(Piece)
<1> DEFINE f == [i \in DOMAIN ts |-> TxFormat(ts[i])]
<1>1. Len(ts) \in Piece /\ 0 \in 0 .. Len(ts)
  BY DEF Piece
<1>2. TxsLeft(ts, 0) \in Seq(Piece)
  BY <1>1, TxsLeftIs
<1>3. From(f, 0) = f
  <2>1. Len(ts) \in Nat /\ DOMAIN ts = 1 .. Len(ts)
    OBVIOUS
  <2>2. \A i \in 1 .. Len(ts) : TxFormat(ts[i]) \in Seq(Piece)
    BY TxsJoin
  <2>3. f \in [1 .. Len(ts) -> Seq(Piece)]
    BY <2>1, <2>2
  <2>4. f \in Seq(Seq(Piece))
    BY <2>1, <2>3
  <2> HIDE DEF f
  <2> QED BY <2>4 DEF From
<1>4. RawTransactions(ts) = Cons(Len(ts), TxsLeft(ts, 0))
  BY <1>3 DEF RawTransactions, TxsLeft, Cons
<1> QED BY <1>1, <1>2, <1>4, ConsIs

\* What a count read in turn changes.
LEMMA CountIs ==
  ASSUME ParserTypeOK, NEW n \in Count, ReadCount(n), n <= Reservable[Loop[parser].of]
  PROVE  /\ n \in Piece /\ n \in Nat /\ input' = Append(input, n) /\ input \in Seq(Piece)
         /\ parser \in {"tx_count", "input_count", "signature_length", "output_count", "pub_length"}
         /\ found'[parser] = n /\ items'[parser] = <<>> /\ parser' = Turn(parser, 0, n)
         /\ \A name \in DOMAIN Loop \cup DOMAIN NextRead : name # parser => found'[name] = found[name]
         /\ \A loop \in DOMAIN Loop : loop # parser => items'[loop] = items[loop]
<1>1. n \in Piece /\ n \in Nat
  BY TransactionAssumption DEF Piece
<1>2. DOMAIN Loop = {"tx_count", "input_count", "signature_length", "output_count", "pub_length"}
  BY DEF Loop
<1> QED BY <1>1, <1>2 DEF ReadCount, Reads, ParserTypeOK

\* The counts of a transaction that follows are read as they are, and there
\* is room for as many.
LEMMA CountsFollow ==
  ASSUME ParserTypeOK, NEW ts \in Seq(AnyTransaction), NEW j \in 0 .. Len(ts) - 1, NEW t \in AnyTransaction,
         OwnTx(t), InTx(ts, j, t), AtTx(ts, j, t), NEW n \in Count, ReadCount(n),
         IsPrefix(input', RawTransactions(ts))
  PROVE  AtTx(ts, j, t)' /\ InTx(ts, j, t)'
<1>1. n \in Piece /\ input' = Append(input, n) /\ input \in Seq(Piece) /\ parser \in DOMAIN Loop
  BY TransactionAssumption DEF ReadCount, Reads, ParserTypeOK, Piece
<1>2. /\ DOMAIN Loop = {"tx_count", "input_count", "signature_length", "output_count", "pub_length"}
      /\ DOMAIN NextRead = {"version", "tx_id", "v_out", "value"}
  BY DEF Loop, NextRead
<1>3. ASSUME NEW x \in Piece, NEW rest \in Seq(Piece), Left(input, ts, Cons(x, rest))
      PROVE  n = x /\ Left(input', ts, rest)
  BY <1>1, <1>3, ReadsTheNext
<1>4. parser # "tx_count"
  BY StageOf DEF InStages, OutStages
<1>5. CASE parser = "input_count"
  <2>1. found.version = t.version /\ Left(input, ts, Cons(Len(t.inputs), InsLeft(ts, j, t, 0)))
    BY <1>5, StageOf
  <2>2. t.inputs \in Seq(AnyIn) /\ Len(t.inputs) \in Piece /\ 0 \in 0 .. Len(t.inputs)
    BY DEF AnyTransaction, Piece
  <2>3. InsLeft(ts, j, t, 0) \in Seq(Piece)
    BY <2>2, InsLeftIs
  <2>4. n = Len(t.inputs) /\ Left(input', ts, InsLeft(ts, j, t, 0))
    BY <1>3, <2>1, <2>2, <2>3
  <2>5. n <= Reservable[Loop[parser].of]
    BY <1>5, <2>4 DEF OwnTx, Fits, Loop
  <2>6. found'.version = t.version /\ found'.input_count = Len(t.inputs) /\ items'.input_count = <<>>
        /\ parser' = Turn("input_count", 0, Len(t.inputs))
    BY <1>2, <1>5, <2>1, <2>4, <2>5, CountIs
  <2>7. items'.input_count = Upto(t.inputs, 0)
    BY <2>2, <2>6, UptoIs
  <2>8. InTx(ts, j, t)'
    BY <1>2, <1>5, <2>5, CountIs, StillIn
  <2> QED BY <2>2, <2>4, <2>6, <2>7, <2>8, NextInput
<1>6. CASE parser = "output_count"
  <2>1. PastInputs(t) /\ Left(input, ts, Cons(Len(t.outputs), OutsLeft(ts, j, t, 0)))
    BY <1>6, StageOf
  <2>2. t.outputs \in Seq(AnyOut) /\ Len(t.outputs) \in Piece /\ 0 \in 0 .. Len(t.outputs)
    BY DEF AnyTransaction, Piece
  <2>3. OutsLeft(ts, j, t, 0) \in Seq(Piece)
    BY <2>2, OutsLeftIs
  <2>4. n = Len(t.outputs) /\ Left(input', ts, OutsLeft(ts, j, t, 0))
    BY <1>3, <2>1, <2>2, <2>3
  <2>5. n <= Reservable[Loop[parser].of]
    BY <1>6, <2>4 DEF OwnTx, Fits, Loop
  <2>6. found'.version = found.version /\ items'.input_count = items.input_count
        /\ found'.output_count = Len(t.outputs) /\ items'.output_count = <<>>
        /\ parser' = Turn("output_count", 0, Len(t.outputs))
    BY <1>2, <1>6, <2>4, <2>5, CountIs
  <2>7. items'.output_count = Upto(t.outputs, 0) /\ PastInputs(t)'
    BY <2>1, <2>2, <2>6, UptoIs DEF PastInputs
  <2>8. InTx(ts, j, t)'
    BY <1>2, <1>6, <2>5, CountIs, StillIn
  <2> QED BY <2>2, <2>4, <2>6, <2>7, <2>8, NextOutput
<1>7. CASE parser = "signature_length"
  <2>1. PICK k \in Nat, i \in AnyIn : InInputs(t, k, i) /\ AtInput(ts, j, t, k, i)
    BY <1>7, StageOf DEF InStages
  <2> DEFINE string == BytesLeft(i.signature, 0, Cons(i.sequence, InsLeft(ts, j, t, k + 1)))
  <2>2. /\ i.sequence \in Piece /\ i.signature \in Seq(Piece) /\ Len(i.signature) \in Piece
        /\ 0 \in 0 .. Len(i.signature) /\ t.inputs \in Seq(AnyIn) /\ Len(t.inputs) \in Nat
    BY DEF AnyIn, AnyTransaction, Piece
  <2>3. k \in 0 .. Len(t.inputs) - 1 /\ k + 1 \in 1 .. Len(t.inputs) /\ k + 1 \in 0 .. Len(t.inputs)
        /\ i = t.inputs[k + 1]
    BY <2>1, <2>2 DEF InInputs
  <2>4. string \in Seq(Piece)
    <3>1. Cons(i.sequence, InsLeft(ts, j, t, k + 1)) \in Seq(Piece)
      BY <2>2, <2>3, InsLeftIs, ConsIs
    <3> QED BY <2>2, <3>1, BytesLeftIs
  <2>5. /\ found.tx_id = i.tx_id /\ found.v_out = i.v_out
        /\ Left(input, ts, Cons(Len(i.signature), string))
    BY <1>7, <2>1 DEF AtInput
  <2>6. n = Len(i.signature) /\ Left(input', ts, string)
    <3> HIDE DEF string
    <3> QED BY <1>3, <2>2, <2>4, <2>5
  <2>7. n <= Reservable[Loop[parser].of]
    BY <1>7, <2>3, <2>6 DEF OwnTx, OwnIn, Fits, Loop
  <2>8. found'.tx_id = i.tx_id /\ found'.v_out = i.v_out /\ found'.signature_length = Len(i.signature)
        /\ items'.signature_length = <<>> /\ parser' = Turn("signature_length", 0, Len(i.signature))
    BY <1>2, <1>7, <2>5, <2>6, <2>7, CountIs
  <2>9. items'.signature_length = Upto(i.signature, 0)
    BY <2>2, <2>8, UptoIs
  <2>10. AtInput(ts, j, t, k, i)'
    BY <2>2, <2>3, <2>6, <2>8, <2>9, NextOfSignature
  <2>11. InTx(ts, j, t)'
    BY <1>2, <1>7, <2>7, CountIs, StillIn
  <2>12. InInputs(t, k, i)'
    <3>1. found'.version = found.version /\ found'.input_count = found.input_count
          /\ items'.input_count = items.input_count
      BY <1>2, <1>7, <2>7, CountIs
    <3> QED BY <2>1, <3>1 DEF InInputs
  <2> QED BY <2>10, <2>11, <2>12 DEF AtTx
<1>8. CASE parser = "pub_length"
  <2>1. PICK m \in Nat, o \in AnyOut : InOutputs(t, m, o) /\ AtOutput(ts, j, t, m, o)
    BY <1>8, StageOf DEF OutStages
  <2> DEFINE string == BytesLeft(o.destiny_pub_key, 0, OutsLeft(ts, j, t, m + 1))
  <2>2. /\ o.destiny_pub_key \in Seq(Piece) /\ Len(o.destiny_pub_key) \in Piece
        /\ 0 \in 0 .. Len(o.destiny_pub_key) /\ t.outputs \in Seq(AnyOut) /\ Len(t.outputs) \in Nat
    BY DEF AnyOut, AnyTransaction, Piece
  <2>3. m \in 0 .. Len(t.outputs) - 1 /\ m + 1 \in 1 .. Len(t.outputs) /\ m + 1 \in 0 .. Len(t.outputs)
        /\ o = t.outputs[m + 1]
    BY <2>1, <2>2 DEF InOutputs
  <2>4. string \in Seq(Piece)
    <3>1. OutsLeft(ts, j, t, m + 1) \in Seq(Piece)
      BY <2>3, OutsLeftIs
    <3> QED BY <2>2, <3>1, BytesLeftIs
  <2>5. found.value = o.value /\ Left(input, ts, Cons(Len(o.destiny_pub_key), string))
    BY <1>8, <2>1 DEF AtOutput
  <2>6. n = Len(o.destiny_pub_key) /\ Left(input', ts, string)
    <3> HIDE DEF string
    <3> QED BY <1>3, <2>2, <2>4, <2>5
  <2>7. n <= Reservable[Loop[parser].of]
    BY <1>8, <2>3, <2>6 DEF OwnTx, OwnOut, Fits, Loop
  <2>8. found'.value = o.value /\ found'.pub_length = Len(o.destiny_pub_key)
        /\ items'.pub_length = <<>> /\ parser' = Turn("pub_length", 0, Len(o.destiny_pub_key))
    BY <1>2, <1>8, <2>5, <2>6, <2>7, CountIs
  <2>9. items'.pub_length = Upto(o.destiny_pub_key, 0)
    BY <2>2, <2>8, UptoIs
  <2>10. AtOutput(ts, j, t, m, o)'
    BY <2>2, <2>3, <2>6, <2>8, <2>9, NextOfPubKey
  <2>11. InTx(ts, j, t)'
    BY <1>2, <1>8, <2>7, CountIs, StillIn
  <2>12. InOutputs(t, m, o)'
    <3>1. found'.version = found.version /\ found'.output_count = found.output_count
          /\ items'.input_count = items.input_count /\ items'.output_count = items.output_count
      BY <1>2, <1>8, <2>7, CountIs
    <3> QED BY <2>1, <3>1 DEF InOutputs, PastInputs
  <2> QED BY <2>10, <2>11, <2>12 DEF AtTx
<1> QED BY <1>1, <1>2, <1>4, <1>5, <1>6, <1>7, <1>8

\* What pushing the element in turn changes.
LEMMA PushesTheNext ==
  ASSUME ParserTypeOK, NEW loop \in DOMAIN Loop, NEW S, NEW s \in Seq(S), NEW n \in 0 .. Len(s) - 1,
         NEW element, element = s[n + 1], Push(loop, element), items[loop] = Upto(s, n), found[loop] = Len(s)
  PROVE  /\ found' = found /\ items'[loop] = Upto(s, n + 1) /\ parser' = Turn(loop, n + 1, Len(s))
         /\ n + 1 \in 0 .. Len(s)
         /\ \A l \in DOMAIN Loop : l # loop => items'[l] = items[l]
<1>1. n \in 0 .. Len(s) /\ n < Len(s) /\ n + 1 \in 0 .. Len(s)
  OBVIOUS
<1>2. Upto(s, n + 1) = Append(Upto(s, n), element) /\ Len(Upto(s, n + 1)) = n + 1
  BY <1>1, UptoIs
<1>3. found' = found /\ items'[loop] = Append(items[loop], element)
      /\ \A l \in DOMAIN Loop : l # loop => items'[l] = items[l]
  BY DEF Push, ParserTypeOK
<1>4. parser' = Turn(loop, Len(items'[loop]), found[loop])
  BY DEF Push
<1> QED BY <1>1, <1>2, <1>3, <1>4

\* A byte of a string of a transaction that follows.
LEMMA BytesFollow ==
  ASSUME ParserTypeOK, NEW ts \in Seq(AnyTransaction), NEW j \in 0 .. Len(ts) - 1, NEW t \in AnyTransaction,
         InTx(ts, j, t), AtTx(ts, j, t), NEW b \in Byte, ReadByte(b), IsPrefix(input', RawTransactions(ts))
  PROVE  AtTx(ts, j, t)' /\ InTx(ts, j, t)'
<1>1. b \in Piece /\ input' = Append(input, b) /\ input \in Seq(Piece)
  BY DEF ReadByte, Reads, ParserTypeOK, Piece
<1>2. DOMAIN Loop = {"tx_count", "input_count", "signature_length", "output_count", "pub_length"}
  BY DEF Loop
<1>3. ASSUME NEW x \in Piece, NEW rest \in Seq(Piece), Left(input, ts, Cons(x, rest))
      PROVE  b = x /\ Left(input', ts, rest)
  BY <1>1, <1>3, ReadsTheNext
<1>4. \/ parser = "signature" /\ Push("signature_length", b)
      \/ parser = "pub_key" /\ Push("pub_length", b)
  BY DEF ReadByte, Loop
<1>5. CASE parser = "signature" /\ Push("signature_length", b)
  <2>1. PICK k \in Nat, i \in AnyIn : InInputs(t, k, i) /\ AtInput(ts, j, t, k, i)
    BY <1>5, StageOf DEF InStages
  <2> DEFINE after == Cons(i.sequence, InsLeft(ts, j, t, k + 1))
  <2>2. /\ i.sequence \in Piece /\ i.signature \in Seq(Piece) /\ Len(i.signature) \in Nat
        /\ t.inputs \in Seq(AnyIn) /\ Len(t.inputs) \in Nat
    BY DEF AnyIn, AnyTransaction
  <2>3. k \in 0 .. Len(t.inputs) - 1 /\ k + 1 \in 0 .. Len(t.inputs) /\ i = t.inputs[k + 1]
    BY <2>1, <2>2 DEF InInputs
  <2>4. after \in Seq(Piece)
    BY <2>2, <2>3, InsLeftIs, ConsIs
  <2>5. found.tx_id = i.tx_id /\ found.v_out = i.v_out
    BY <1>5, <2>1 DEF AtInput
  <2>6. PICK l \in Nat : /\ InBytes("signature_length", i.signature, l)
                         /\ Left(input, ts, BytesLeft(i.signature, l, after))
    BY <1>5, <2>1 DEF AtInput
  <2> HIDE DEF after
  <2>7. PICK s \in Seq(Piece) : s = i.signature
    BY <2>2
  <2>8. /\ l \in 0 .. Len(s) - 1 /\ l \in 0 .. Len(s) /\ l < Len(s) /\ l + 1 \in 0 .. Len(s) /\ s[l + 1] \in Piece
        /\ items.signature_length = Upto(s, l) /\ found.signature_length = Len(s)
    BY <2>2, <2>6, <2>7 DEF InBytes
  <2>9. BytesLeft(s, l, after) = Cons(s[l + 1], BytesLeft(s, l + 1, after)) /\ BytesLeft(s, l + 1, after) \in Seq(Piece)
    BY <2>4, <2>8, BytesLeftIs
  <2>10. b = s[l + 1] /\ Left(input', ts, BytesLeft(s, l + 1, after))
    BY <1>3, <2>6, <2>7, <2>8, <2>9
  <2>11. /\ found' = found /\ items'.signature_length = Upto(s, l + 1)
         /\ parser' = Turn("signature_length", l + 1, Len(s))
         /\ \A x \in DOMAIN Loop : x # "signature_length" => items'[x] = items[x]
    BY <1>2, <1>5, <2>8, <2>10, PushesTheNext
  <2>12. AtInput(ts, j, t, k, i)'
    BY <2>3, <2>5, <2>7, <2>8, <2>10, <2>11, NextOfSignature DEF after
  <2>13. InTx(ts, j, t)' /\ InInputs(t, k, i)'
    BY <1>2, <2>1, <2>11 DEF InTx, InInputs
  <2> QED BY <2>12, <2>13 DEF AtTx
<1>6. CASE parser = "pub_key" /\ Push("pub_length", b)
  <2>1. PICK m \in Nat, o \in AnyOut : InOutputs(t, m, o) /\ AtOutput(ts, j, t, m, o)
    BY <1>6, StageOf DEF OutStages
  <2> DEFINE after == OutsLeft(ts, j, t, m + 1)
  <2>2. /\ o.destiny_pub_key \in Seq(Piece) /\ Len(o.destiny_pub_key) \in Nat
        /\ t.outputs \in Seq(AnyOut) /\ Len(t.outputs) \in Nat
    BY DEF AnyOut, AnyTransaction
  <2>3. m \in 0 .. Len(t.outputs) - 1 /\ m + 1 \in 0 .. Len(t.outputs) /\ o = t.outputs[m + 1]
    BY <2>1, <2>2 DEF InOutputs
  <2>4. after \in Seq(Piece)
    BY <2>3, OutsLeftIs
  <2>5. found.value = o.value
    BY <1>6, <2>1 DEF AtOutput
  <2>6. PICK l \in Nat : /\ InBytes("pub_length", o.destiny_pub_key, l)
                         /\ Left(input, ts, BytesLeft(o.destiny_pub_key, l, after))
    BY <1>6, <2>1 DEF AtOutput
  <2> HIDE DEF after
  <2>7. PICK s \in Seq(Piece) : s = o.destiny_pub_key
    BY <2>2
  <2>8. /\ l \in 0 .. Len(s) - 1 /\ l \in 0 .. Len(s) /\ l < Len(s) /\ l + 1 \in 0 .. Len(s) /\ s[l + 1] \in Piece
        /\ items.pub_length = Upto(s, l) /\ found.pub_length = Len(s)
    BY <2>2, <2>6, <2>7 DEF InBytes
  <2>9. BytesLeft(s, l, after) = Cons(s[l + 1], BytesLeft(s, l + 1, after)) /\ BytesLeft(s, l + 1, after) \in Seq(Piece)
    BY <2>4, <2>8, BytesLeftIs
  <2>10. b = s[l + 1] /\ Left(input', ts, BytesLeft(s, l + 1, after))
    BY <1>3, <2>6, <2>7, <2>8, <2>9
  <2>11. /\ found' = found /\ items'.pub_length = Upto(s, l + 1)
         /\ parser' = Turn("pub_length", l + 1, Len(s))
         /\ \A x \in DOMAIN Loop : x # "pub_length" => items'[x] = items[x]
    BY <1>2, <1>6, <2>8, <2>10, PushesTheNext
  <2>12. AtOutput(ts, j, t, m, o)'
    BY <2>3, <2>5, <2>7, <2>8, <2>10, <2>11, NextOfPubKey DEF after
  <2>13. InTx(ts, j, t)' /\ InOutputs(t, m, o)'
    BY <1>2, <2>1, <2>11 DEF InTx, InOutputs, PastInputs
  <2> QED BY <2>12, <2>13 DEF AtTx
<1> QED BY <1>4, <1>5, <1>6

\* The sequence number of an input that follows completes it.
LEMMA SequencesFollow ==
  ASSUME ParserTypeOK, NEW ts \in Seq(AnyTransaction), NEW j \in 0 .. Len(ts) - 1, NEW t \in AnyTransaction,
         InTx(ts, j, t), AtTx(ts, j, t), NEW u \in Field, ReadSequence(u), IsPrefix(input', RawTransactions(ts))
  PROVE  AtTx(ts, j, t)' /\ InTx(ts, j, t)'
<1>1. u \in Piece /\ input' = Append(input, u) /\ input \in Seq(Piece) /\ parser = "sequence"
  BY DEF ReadSequence, Reads, ParserTypeOK, Piece
<1>2. DOMAIN Loop = {"tx_count", "input_count", "signature_length", "output_count", "pub_length"}
  BY DEF Loop
<1>3. PICK k \in Nat, i \in AnyIn : InInputs(t, k, i) /\ AtInput(ts, j, t, k, i)
  BY <1>1, StageOf DEF InStages
<1>4. /\ i.sequence \in Piece /\ t.inputs \in Seq(AnyIn) /\ Len(t.inputs) \in Nat
  BY DEF AnyIn, AnyTransaction
<1>5. k \in 0 .. Len(t.inputs) - 1 /\ k + 1 \in 0 .. Len(t.inputs) /\ i = t.inputs[k + 1]
  BY <1>3, <1>4 DEF InInputs
<1>6. InsLeft(ts, j, t, k + 1) \in Seq(Piece)
  BY <1>5, InsLeftIs
<1>7. /\ found.tx_id = i.tx_id /\ found.v_out = i.v_out /\ items.signature_length = i.signature
      /\ Left(input, ts, Cons(i.sequence, InsLeft(ts, j, t, k + 1)))
  BY <1>1, <1>3 DEF AtInput
<1>8. u = i.sequence /\ Left(input', ts, InsLeft(ts, j, t, k + 1))
  BY <1>1, <1>4, <1>6, <1>7, ReadsTheNext
<1>9. Push("input_count", i)
  <2>1. i = [tx_id |-> found.tx_id, v_out |-> found.v_out, signature |-> items.signature_length, sequence |-> u]
    BY <1>7, <1>8 DEF AnyIn
  <2> QED BY <2>1 DEF ReadSequence
<1>10. /\ found' = found /\ items'.input_count = Upto(t.inputs, k + 1)
       /\ parser' = Turn("input_count", k + 1, Len(t.inputs))
       /\ \A x \in DOMAIN Loop : x # "input_count" => items'[x] = items[x]
  <2>1. items["input_count"] = Upto(t.inputs, k) /\ found["input_count"] = Len(t.inputs)
    BY <1>3 DEF InInputs
  <2> QED BY <1>2, <1>4, <1>5, <1>9, <2>1, PushesTheNext
<1>11. found'.version = t.version /\ found'.input_count = Len(t.inputs)
  BY <1>3, <1>10 DEF InInputs
<1>12. InTx(ts, j, t)'
  BY <1>2, <1>10 DEF InTx
<1> QED BY <1>5, <1>8, <1>10, <1>11, <1>12, NextInput

\* An output that follows is made of what was read.
LEMMA OutputsFollow ==
  ASSUME ParserTypeOK, NEW ts \in Seq(AnyTransaction), NEW j \in 0 .. Len(ts) - 1, NEW t \in AnyTransaction,
         InTx(ts, j, t), AtTx(ts, j, t), MakeOutput
  PROVE  AtTx(ts, j, t)' /\ InTx(ts, j, t)'
<1>1. input' = input /\ parser = "output"
  BY DEF MakeOutput
<1>2. DOMAIN Loop = {"tx_count", "input_count", "signature_length", "output_count", "pub_length"}
  BY DEF Loop
<1>3. PICK m \in Nat, o \in AnyOut : InOutputs(t, m, o) /\ AtOutput(ts, j, t, m, o)
  BY <1>1, StageOf DEF OutStages
<1>4. t.outputs \in Seq(AnyOut) /\ Len(t.outputs) \in Nat
  BY DEF AnyTransaction
<1>5. m \in 0 .. Len(t.outputs) - 1 /\ m + 1 \in 0 .. Len(t.outputs) /\ o = t.outputs[m + 1]
  BY <1>3, <1>4 DEF InOutputs
<1>6. /\ found.value = o.value /\ items.pub_length = o.destiny_pub_key
      /\ Left(input, ts, OutsLeft(ts, j, t, m + 1))
  BY <1>1, <1>3 DEF AtOutput
<1>7. Push("output_count", o)
  <2>1. o = [value |-> found.value, destiny_pub_key |-> items.pub_length]
    BY <1>6 DEF AnyOut
  <2> QED BY <2>1 DEF MakeOutput
<1>8. /\ found' = found /\ items'.output_count = Upto(t.outputs, m + 1)
      /\ parser' = Turn("output_count", m + 1, Len(t.outputs))
      /\ \A x \in DOMAIN Loop : x # "output_count" => items'[x] = items[x]
  <2>1. items["output_count"] = Upto(t.outputs, m) /\ found["output_count"] = Len(t.outputs)
    BY <1>3 DEF InOutputs
  <2> QED BY <1>2, <1>4, <1>5, <1>7, <2>1, PushesTheNext
<1>9. PastInputs(t)' /\ found'.output_count = Len(t.outputs)
  BY <1>2, <1>3, <1>8 DEF InOutputs, PastInputs
<1>10. InTx(ts, j, t)'
  BY <1>2, <1>8 DEF InTx
<1>11. Left(input', ts, OutsLeft(ts, j, t, m + 1))
  BY <1>1, <1>6
<1> QED BY <1>5, <1>8, <1>9, <1>10, <1>11, NextOutput

\* The lock time of a transaction that follows completes it.
LEMMA LockTimesFollow ==
  ASSUME ParserTypeOK, NEW ts \in Seq(AnyTransaction), NEW j \in 0 .. Len(ts) - 1, NEW t \in AnyTransaction,
         InTx(ts, j, t), AtTx(ts, j, t), NEW u \in Field, ReadLockTime(u), IsPrefix(input', RawTransactions(ts))
  PROVE  Follows(ts)'
<1>1. u \in Piece /\ input' = Append(input, u) /\ input \in Seq(Piece) /\ parser = "lock_time"
  BY DEF ReadLockTime, Reads, ParserTypeOK, Piece
<1>2. DOMAIN Loop = {"tx_count", "input_count", "signature_length", "output_count", "pub_length"}
  BY DEF Loop
<1>3. j + 1 \in 0 .. Len(ts) /\ t.lock_time \in Piece /\ t = ts[j + 1]
  BY DEF AnyTransaction, InTx
<1>4. TxsLeft(ts, j + 1) \in Seq(Piece)
  BY <1>3, TxsLeftIs
<1>5. /\ PastInputs(t) /\ items.output_count = t.outputs
      /\ Left(input, ts, Cons(t.lock_time, TxsLeft(ts, j + 1)))
  BY <1>1, StageOf
<1>6. u = t.lock_time /\ Left(input', ts, TxsLeft(ts, j + 1))
  BY <1>1, <1>3, <1>4, <1>5, ReadsTheNext
<1>7. Push("tx_count", t)
  <2>1. t = [version |-> found.version, inputs |-> items.input_count,
             outputs |-> items.output_count, lock_time |-> u]
    BY <1>5, <1>6 DEF AnyTransaction, PastInputs
  <2> QED BY <2>1 DEF ReadLockTime
<1>8. found' = found /\ items'.tx_count = Upto(ts, j + 1) /\ parser' = Turn("tx_count", j + 1, Len(ts))
  <2>1. items["tx_count"] = Upto(ts, j) /\ found["tx_count"] = Len(ts)
    BY DEF InTx
  <2> QED BY <1>2, <1>3, <1>7, <2>1, PushesTheNext
<1>9. found'.tx_count = Len(ts)
  BY <1>8 DEF InTx
<1> QED BY <1>3, <1>6, <1>8, <1>9, NextTransaction

\* A string that does not decode is not one of those.
LEMMA StringsDecode ==
  ASSUME ParserTypeOK, NEW ts \in Seq(AnyTransaction), NEW j \in 0 .. Len(ts) - 1, NEW t \in AnyTransaction,
         OwnTx(t), InTx(ts, j, t), AtTx(ts, j, t), InvalidUtf8
  PROVE  FALSE
<1>1. CASE parser = "sequence" /\ ~ Utf8(items.signature_length)
  <2>1. PICK k \in Nat, i \in AnyIn : InInputs(t, k, i) /\ AtInput(ts, j, t, k, i)
    BY <1>1, StageOf DEF InStages
  <2>2. t.inputs \in Seq(AnyIn) /\ Len(t.inputs) \in Nat
    BY DEF AnyTransaction
  <2>3. k + 1 \in 1 .. Len(t.inputs) /\ i = t.inputs[k + 1]
    BY <2>1, <2>2 DEF InInputs
  <2>4. Utf8(i.signature)
    BY <2>3 DEF OwnTx, OwnIn
  <2>5. items.signature_length = i.signature
    BY <1>1, <2>1 DEF AtInput
  <2> QED BY <1>1, <2>4, <2>5
<1>2. CASE parser = "output" /\ ~ Utf8(items.pub_length)
  <2>1. PICK m \in Nat, o \in AnyOut : InOutputs(t, m, o) /\ AtOutput(ts, j, t, m, o)
    BY <1>2, StageOf DEF OutStages
  <2>2. t.outputs \in Seq(AnyOut) /\ Len(t.outputs) \in Nat
    BY DEF AnyTransaction
  <2>3. m + 1 \in 1 .. Len(t.outputs) /\ o = t.outputs[m + 1]
    BY <2>1, <2>2 DEF InOutputs
  <2>4. Utf8(o.destiny_pub_key)
    BY <2>3 DEF OwnTx, OwnOut
  <2>5. items.pub_length = o.destiny_pub_key
    BY <1>2, <2>1 DEF AtOutput
  <2> QED BY <1>2, <2>4, <2>5
<1> QED BY <1>1, <1>2 DEF InvalidUtf8

\* The first count of a list that follows.
LEMMA FirstCountFollows ==
  ASSUME ParserInv, NEW ts \in OwnList, NEW n \in Count, ReadCount(n), parser = "tx_count",
         IsPrefix(input', RawTransactions(ts))
  PROVE  Follows(ts)'
<1> USE DEF ParserInv
<1>1. ts \in Seq(AnyTransaction) /\ Fits(ts, "tx")
  BY DEF OwnList
<1>2. n \in Piece /\ input' = Append(input, n) /\ input \in Seq(Piece) /\ input = <<>>
  BY TransactionAssumption DEF ReadCount, Reads, ParserTypeOK, Piece, WhatWasRead
<1>3. Left(input, ts, Cons(Len(ts), TxsLeft(ts, 0)))
  <2>1. RawTransactions(ts) = Cons(Len(ts), TxsLeft(ts, 0)) /\ RawTransactions(ts) \in Seq(Piece)
    BY <1>1, RawIs
  <2>2. PICK r \in Seq(Piece) : r = RawTransactions(ts)
    BY <2>1
  <2>3. <<>> \o r = r
    BY ConcatEmptySeq
  <2> QED BY <1>2, <2>1, <2>2, <2>3 DEF Left
<1>4. Len(ts) \in Piece /\ TxsLeft(ts, 0) \in Seq(Piece)
  BY <1>1, RawIs
<1>5. n = Len(ts) /\ Left(input', ts, TxsLeft(ts, 0))
  BY <1>2, <1>3, <1>4, ReadsTheNext
<1>6. n <= Reservable[Loop[parser].of]
  BY <1>1, <1>5 DEF Fits, Loop
<1>7. found'.tx_count = Len(ts) /\ items'.tx_count = <<>> /\ parser' = Turn("tx_count", 0, Len(ts))
  BY <1>5, <1>6, CountIs
<1>8. 0 \in 0 .. Len(ts) /\ items'.tx_count = Upto(ts, 0)
  BY <1>1, <1>7, UptoIs
<1> QED BY <1>1, <1>5, <1>7, <1>8, NextTransaction

\* One step of the parser in a list that follows.
LEMMA FollowsOn ==
  ASSUME ParserInv, NEW ts \in OwnList, [TransactionNext]_transactionVars,
         IsPrefix(input, RawTransactions(ts)) => Follows(ts), IsPrefix(input', RawTransactions(ts))
  PROVE  Follows(ts)'
<1> USE DEF ParserInv
<1>1. ts \in Seq(AnyTransaction) /\ \A j \in 1 .. Len(ts) : OwnTx(ts[j])
  BY DEF OwnList
<1>2. ASSUME NEW u \in Piece, input' = Append(input, u)
      PROVE  Follows(ts)
  <2>1. RawTransactions(ts) \in Seq(Piece) /\ input \in Seq(Piece)
    BY <1>1, RawIs DEF ParserTypeOK
  <2>2. IsPrefix(input, RawTransactions(ts))
    BY <1>2, <2>1, PrefixBefore
  <2> QED BY <2>2
<1>3. ASSUME NEW j \in Nat, NEW t \in AnyTransaction, InTx(ts, j, t)
      PROVE  j \in 0 .. Len(ts) - 1 /\ OwnTx(t)
  BY <1>1, <1>3 DEF InTx
<1>4. ASSUME NEW j \in Nat, NEW t \in AnyTransaction, InTx(ts, j, t)', AtTx(ts, j, t)'
      PROVE  Follows(ts)'
  BY <1>4 DEF Follows
<1>5. ASSUME NEW n \in Count, ReadCount(n)
      PROVE  Follows(ts)'
  <2>1. n \in Piece /\ input' = Append(input, n) /\ parser \in DOMAIN Loop
    BY <1>5, TransactionAssumption DEF ReadCount, Reads, Piece
  <2>2. CASE parser = "tx_count"
    BY <1>5, <2>2, FirstCountFollows
  <2>3. CASE parser # "tx_count"
    <3>1. PICK j \in Nat, t \in AnyTransaction : InTx(ts, j, t) /\ AtTx(ts, j, t)
      <4>1. Follows(ts)
        BY <1>2, <2>1
      <4> QED BY <2>1, <2>3, <4>1 DEF Follows, Loop
    <3> QED BY <1>1, <1>3, <1>4, <1>5, <3>1, CountsFollow
  <2> QED BY <2>2, <2>3
<1>6. ASSUME NEW u \in Field, ReadField(u) \/ ReadSequence(u) \/ ReadLockTime(u)
      PROVE  Follows(ts)'
  <2>1. u \in Piece /\ input' = Append(input, u) /\ parser \in DOMAIN NextRead \cup {"sequence", "lock_time"}
    BY <1>6 DEF ReadField, ReadSequence, ReadLockTime, Reads, Piece
  <2>2. PICK j \in Nat, t \in AnyTransaction : InTx(ts, j, t) /\ AtTx(ts, j, t)
    <3>1. Follows(ts)
      BY <1>2, <2>1
    <3> QED BY <2>1, <3>1 DEF Follows, NextRead
  <2> QED BY <1>1, <1>3, <1>4, <1>6, <2>2, FieldsFollow, SequencesFollow, LockTimesFollow
<1>7. ASSUME NEW b \in Byte, ReadByte(b)
      PROVE  Follows(ts)'
  <2>1. b \in Piece /\ input' = Append(input, b) /\ parser \in {"signature", "pub_key"}
    BY <1>7 DEF ReadByte, Reads, Piece, Loop
  <2>2. PICK j \in Nat, t \in AnyTransaction : InTx(ts, j, t) /\ AtTx(ts, j, t)
    <3>1. Follows(ts)
      BY <1>2, <2>1
    <3> QED BY <2>1, <3>1 DEF Follows
  <2> QED BY <1>1, <1>3, <1>4, <1>7, <2>2, BytesFollow
<1>8. ASSUME MakeOutput \/ InvalidUtf8
      PROVE  Follows(ts)'
  <2>1. input' = input /\ parser \in {"sequence", "output"}
    BY <1>8 DEF MakeOutput, InvalidUtf8
  <2>2. PICK j \in Nat, t \in AnyTransaction : InTx(ts, j, t) /\ AtTx(ts, j, t)
    <3>1. Follows(ts)
      BY <2>1
    <3> QED BY <2>1, <3>1 DEF Follows
  <2> QED BY <1>1, <1>3, <1>4, <1>8, <2>2, OutputsFollow, StringsDecode
<1>9. CASE Eof
  BY <1>9 DEF Eof, Follows
<1>10. ASSUME Over \/ UNCHANGED transactionVars
       PROVE  Follows(ts)'
  <2>1. parser' = parser /\ input' = input /\ found' = found /\ items' = items
    BY <1>10 DEF Over, transactionVars
  <2>2. Follows(ts)
    BY <2>1
  <2>3. ASSUME NEW j \in Nat, NEW t \in AnyTransaction
        PROVE  /\ InTx(ts, j, t)' = InTx(ts, j, t)
               /\ AtTx(ts, j, t)' = AtTx(ts, j, t)
    BY <2>1 DEF InTx, AtTx, InInputs, InOutputs, PastInputs, AtInput, AtOutput, InBytes, Left
  <2> QED BY <2>1, <2>2, <2>3 DEF Follows
<1> QED BY <1>5, <1>6, <1>7, <1>8, <1>9, <1>10 DEF TransactionNext

\* OwnFollowed is an invariant of the parser.
LEMMA OwnFollowedHolds ==
  TransactionSpec => []OwnFollowed
<1>1. TransactionInit => OwnFollowed
  BY DEF TransactionInit, OwnFollowed, Follows
<1>2. ParserInv /\ OwnFollowed /\ [TransactionNext]_transactionVars => OwnFollowed'
  <2> SUFFICES ASSUME ParserInv, OwnFollowed, [TransactionNext]_transactionVars
               PROVE  OwnFollowed'
    OBVIOUS
  <2> SUFFICES ASSUME NEW ts \in OwnList, IsPrefix(input', RawTransactions(ts))
               PROVE  Follows(ts)'
    BY DEF OwnFollowed
  <2>1. IsPrefix(input, RawTransactions(ts)) => Follows(ts)
    BY DEF OwnFollowed
  <2> QED BY <2>1, FollowsOn
<1> QED BY <1>1, <1>2, ParserInvHolds, PTL DEF TransactionSpec

\* The parser ends with a list of transactions whose encoding begins with what
\* it has read only as that list, and neither refuses it nor panics.
OwnListsUnderstood ==
  parser \in {"refused", "panicked", "done"} =>
    \A ts \in OwnList : IsPrefix(input, RawTransactions(ts)) => parser = "done" /\ items.tx_count = ts

\* The parser of a block reads back every list of transactions this code can
\* hold, of any number of inputs, outputs and bytes, and no part of its
\* encoding passes for the whole.
THEOREM OwnListsHold ==
  TransactionSpec => []OwnListsUnderstood
<1>1. ASSUME OwnFollowed
      PROVE  OwnListsUnderstood
  <2> SUFFICES ASSUME parser \in {"refused", "panicked", "done"},
                      NEW ts \in OwnList, IsPrefix(input, RawTransactions(ts))
               PROVE  parser = "done" /\ items.tx_count = ts
    BY DEF OwnListsUnderstood
  <2>1. Follows(ts)
    BY <1>1 DEF OwnFollowed
  <2>2. ASSUME NEW j \in Nat, NEW t \in AnyTransaction, AtTx(ts, j, t)
        PROVE  FALSE
    BY <2>2, StageOf DEF InStages, OutStages
  <2> QED BY <2>1, <2>2 DEF Follows
<1> QED BY <1>1, OwnFollowedHolds, PTL

\* A bounded sequence of things of one sort is one of things of a wider sort.
LEMMA BoundedIs ==
  ASSUME NEW S, NEW T, S \subseteq T, NEW n \in Nat, NEW s \in BoundedSeq(S, n)
  PROVE  s \in Seq(T) /\ Len(s) <= n /\ \A k \in 1 .. Len(s) : s[k] \in S
<1>1. s \in Seq(S) /\ Len(s) <= n
  BY BoundedIsSeq
<1> QED BY <1>1

\* The transactions of the runs are among those: one with at most one input
\* and one output, read back, is that transaction.
THEOREM OwnTransactionsHold ==
  TransactionSpec => []OwnTransactionsUnderstood
<1>1. ASSUME OwnListsUnderstood
      PROVE  OwnTransactionsUnderstood
  <2> SUFFICES ASSUME parser \in {"refused", "panicked", "done"},
                      NEW w \in Written, IsPrefix(input, w.raw)
               PROVE  items.tx_count = <<w.tx>>
    BY DEF OwnTransactionsUnderstood
  <2>1. PICK t \in SmallTransactions : w = [tx |-> t, raw |-> RawTransactions(<<t>>)]
    BY DEF Written
  <2>2. \A type \in {"tx", "in", "out", "byte"} : Reservable[type] \in Nat /\ 2 <= Reservable[type]
    BY TransactionAssumption
  <2>3. ASSUME NEW s \in String
        PROVE  s \in Seq(Piece) /\ Fits(s, "byte") /\ Utf8(s)
    <3>1. s \in BoundedSeq(Byte, 2) /\ Utf8(s) /\ Byte \subseteq Piece
      BY DEF String, Piece
    <3>2. s \in Seq(Piece) /\ Len(s) <= 2
      BY <3>1, BoundedIs
    <3> QED BY <2>2, <3>1, <3>2 DEF Fits
  <2>4. \A i \in TxIn : i \in AnyIn /\ OwnIn(i)
    BY <2>3 DEF TxIn, AnyIn, OwnIn, Piece
  <2>5. \A o \in TxOut : o \in AnyOut /\ OwnOut(o)
    BY <2>3 DEF TxOut, AnyOut, OwnOut, Piece
  <2>6. /\ t.inputs \in BoundedSeq(TxIn, 1) /\ t.outputs \in BoundedSeq(TxOut, 1)
        /\ t.version \in Piece /\ t.lock_time \in Piece
        /\ t = [version |-> t.version, inputs |-> t.inputs, outputs |-> t.outputs, lock_time |-> t.lock_time]
    BY DEF SmallTransactions, Piece
  <2>7. t.inputs \in Seq(AnyIn) /\ Len(t.inputs) <= 1 /\ \A k \in 1 .. Len(t.inputs) : t.inputs[k] \in TxIn
    BY <2>4, <2>6, BoundedIs
  <2>8. t.outputs \in Seq(AnyOut) /\ Len(t.outputs) <= 1 /\ \A k \in 1 .. Len(t.outputs) : t.outputs[k] \in TxOut
    BY <2>5, <2>6, BoundedIs
  <2>9. t \in AnyTransaction
    BY <2>6, <2>7, <2>8 DEF AnyTransaction
  <2>10. OwnTx(t)
    BY <2>2, <2>4, <2>5, <2>7, <2>8 DEF OwnTx, Fits
  <2>11. <<t>> \in OwnList
    <3>1. <<t>> \in Seq(AnyTransaction) /\ Len(<<t>>) = 1 /\ \A j \in 1 .. 1 : <<t>>[j] = t
      BY <2>9
    <3> QED BY <2>2, <2>10, <3>1 DEF OwnList, Fits
  <2> QED BY <1>1, <2>1, <2>11 DEF OwnListsUnderstood
<1> QED BY <1>1, OwnListsHold, PTL
=============================================================================
