-------------------------- MODULE LifecycleProofs --------------------------
(***************************************************************************)
(* What a connection's handshake, its messages and its history have to do  *)
(* with each other, for any number of connections and all traffic, and     *)
(* that the connections implement the safety half of PeerLifecycle.        *)
(*                                                                         *)
(* A step drops entries, admits one, or advances one in the handshake by   *)
(* what its own peer sent (EntryStep of ConnectionsProofs): the handshake, *)
(* the deadline and the refinement rest on these three shapes.  What a     *)
(* peer is owed rests on a count: the answers among the messages that the  *)
(* writer still has number the answers owed, front to front.               *)
(***************************************************************************)
EXTENDS ConnectionsProofs, SequenceTheorems

\* Handshake messages are accepted, and the latch set, only by a reader that
\* runs; teardown forgets them.
QuietOutsideLoop ==
  \A c \in Conn : greeted[c] # <<>> \/ ready[c]
                    => stage[c] \in InReadLoop \cup {"dropping", "unwinding"}

\* The writer has written nothing until the opening, and the opening first.
OpeningInv ==
  /\ first \in [Conn -> {"nothing", "version"}]
  /\ \A c \in Conn : /\ writer[c] \in {"none", "opening"} => first[c] = "nothing"
                     /\ writer[c] \in {"top", "recv", "writing"} => first[c] = "version"

-----------------------------------------------------------------------------
(* What the handshake shows and what was said.                             *)

\* Where a connection may remember handshake messages.
Remembers == InReadLoop \cup {"dropping", "unwinding"}

\* The steps that change what a connection remembers of its handshake.
Greets(c) ==
  HandleVersion(c) \/ HandleVerack(c) \/ CheckHandshake(c) \/ Release(c) \/ Unwind(c)

\* No other step changes it, or leaves the stages in which there is something
\* to remember.
LEMMA GreetedKept ==
  ASSUME TypeOK, [Next]_vars, ~ \E c \in Conn : Greets(c)
  PROVE  /\ UNCHANGED <<greeted, ready>>
         /\ \A c \in Conn : stage[c] \in Remembers => stage'[c] \in Remembers
<1> DEFINE Kept == /\ UNCHANGED <<greeted, ready>>
                   /\ \A c \in Conn : stage[c] \in Remembers => stage'[c] \in Remembers
<1>0. stage \in [Conn -> Stages]
  BY DEF TypeOK, ControlTypeOK
<1>1. ASSUME NEW c \in Conn, Dial(c) \/ Accept(c)
      PROVE  Kept
  <2>1. PICK a, o : Spawn(c, a, o)
    BY <1>1 DEF Dial, Accept
  <2> QED BY <1>0, <2>1 DEF Spawn, At, GoTo, Remembers, InReadLoop, loopVars, history
<1>2. ASSUME NEW c \in Conn, NoPeerAddr(c) \/ Open(c) \/ SetUp(c) \/ SetUpFails(c) \/ Join(c)
      PROVE  Kept
  <2>1. UNCHANGED <<greeted, ready>>
    BY <1>2 DEF NoPeerAddr, Open, SetUp, SetUpFails, Join, loopVars, history
  <2>2. stage[c] \notin Remembers /\ \E s : stage' = [stage EXCEPT ![c] = s]
    BY <1>2 DEF NoPeerAddr, Open, SetUp, SetUpFails, Join, At, GoTo, Remembers, InReadLoop
  <2> QED BY <1>0, <2>1, <2>2
<1>3. ASSUME NEW c \in Conn, Read(c) \/ HandleOutOfTurn(c) \/ HandlePing(c) \/ HandlePong(c)
               \/ Deliver(c) \/ BadFrame(c) \/ ParsedAll(c)
      PROVE  Kept
  <2>1. UNCHANGED <<greeted, ready>>
    BY <1>3
    DEF Read, ReadData, ReadNothing, ReadEof, ReadFails, HandleOutOfTurn, HandlePing,
        HandlePong, Deliver, BadFrame, ParsedAll, loopVars
  <2>2. InLoop(c)
    BY <1>3 DEF InLoop, Handle
  <2> QED BY <1>0, <2>1, <2>2, InLoopSteps DEF Remembers
<1>4. ASSUME NEW c \in Conn, Writer(c)
      PROVE  Kept
  <2>1. UNCHANGED <<greeted, ready>>
    BY <1>4
    DEF Writer, WriteOpening, WritePing, SkipPing, Receive, ReceiveTimeout, WriteQueued,
        WriteFails, Disconnected, LeaveWriteLoop, ShutDown, NotWriting, loopVars
  <2> QED BY <1>4, <2>1, WriterSteps
<1>5. ASSUME NEW c \in Conn, PingFallsDue(c) \/ HandshakeFallsLate(c) \/ PeerStalls(c)
      PROVE  Kept
  BY <1>5 DEF PingFallsDue, HandshakeFallsLate, PeerStalls, loopVars, history
<1>6. CASE Broadcast \/ DialFails \/ Quiet \/ UNCHANGED vars
  BY <1>6 DEF Broadcast, DialFails, Quiet, vars, loopVars, history
<1> QED
  BY <1>1, <1>2, <1>3, <1>4, <1>5, <1>6 DEF Next, Reader, Handle, Greets

\* What HandshakeIsEarned says of one entry.
Earned(id) ==
  LET g == greeted[peers[id].outbound]
  IN  /\ peers[id].handshake = "AwaitingVersion" => g = <<>>
      /\ peers[id].handshake = "AwaitingVerack" => g = <<"Version">>
      /\ peers[id].handshake = "Ready" => g = <<"Version", "Verack">>

\* The invariant with which HandshakeIsEarned is inductive.
EarnedInv == OwnEntry /\ QuietOutsideLoop /\ HandshakeIsEarned

\* Appending to a sequence of one gives the two, in order.
LEMMA AppendToOne ==
  ASSUME NEW a \in HandshakeEvent, NEW b \in HandshakeEvent
  PROVE  Append(<<a>>, b) = <<a, b>>
<1> DEFINE s == Append(<<a>>, b)
           t == <<a, b>>
<1>1. <<a>> \in Seq(HandshakeEvent) /\ t \in Seq(HandshakeEvent)
  OBVIOUS
<1>2. s \in Seq(HandshakeEvent) /\ Len(s) = 2 /\ s[1] = a /\ s[2] = b
  BY <1>1
<1>3. Len(t) = 2 /\ t[1] = a /\ t[2] = b
  OBVIOUS
<1>4. Len(s) = Len(t) /\ \A i \in 1 .. Len(s) : s[i] = t[i]
  <2> HIDE DEF s, t
  <2> QED BY <1>2, <1>3
<1>5. s = t
  <2> HIDE DEF s, t
  <2> QED BY <1>1, <1>2, <1>4, SeqEqual
<1> QED BY <1>5

\* A step that accepts a handshake message of a connection moves the entry of
\* that connection, and no other.
LEMMA AdvancedEarned ==
  ASSUME TypeOK, NoOrphanEntry, EarnedInv, NEW c \in Conn,
         \/ Advanced(c, "AwaitingVersion", "Version", "AwaitingVerack")
         \/ Advanced(c, "AwaitingVerack", "Verack", "Ready")
  PROVE  HandshakeIsEarned'
<1>0. /\ greeted \in [Conn -> Seq(HandshakeEvent)] /\ ready \in [Conn -> BOOLEAN]
      /\ peers \in [DOMAIN peers -> PeerHandle]
      /\ \A id \in DOMAIN peers : peers[id].outbound \in Conn /\ Earned(id)
  BY DEF TypeOK, BuffersTypeOK, FlagsTypeOK, TableTypeOK, PeerHandle, Conn, EarnedInv,
         HandshakeIsEarned, Earned
<1>1. PICK p \in DOMAIN peers : p = pid[c] /\ peers[p].outbound = c
  BY DEF Advanced, EarnedInv, OwnEntry
<1>2. ~ ready[c]
  <2>1. greeted[c] \in {<<>>, <<"Version">>}
    BY <1>0, <1>1 DEF Advanced, Earned
  <2>2. greeted[c] # <<"Version", "Verack">>
    BY <2>1
  <2> QED BY <2>2 DEF EarnedInv, HandshakeIsEarned
<1>3. /\ DOMAIN peers' = DOMAIN peers /\ UNCHANGED ready
      /\ \A id \in DOMAIN peers : /\ peers'[id].outbound = peers[id].outbound
                                  /\ id # p => peers'[id] = peers[id]
      /\ \A d \in Conn : d # c => greeted'[d] = greeted[d]
  BY <1>0, <1>1, ZenonT(60) DEF Advanced, PeerHandle
<1>4. ASSUME NEW id \in DOMAIN peers, id # p
      PROVE  Earned(id)'
  <2>1. peers[id].outbound # c
    BY <1>1, <1>4 DEF NoOrphanEntry
  <2> QED BY <1>0, <1>3, <1>4, <2>1 DEF Earned
<1>5. Earned(p)'
  <2>1. CASE Advanced(c, "AwaitingVersion", "Version", "AwaitingVerack")
    <3>1. peers'[p].handshake = "AwaitingVerack" /\ peers'[p].outbound = c
      BY <1>0, <1>1, <2>1, ZenonT(60) DEF Advanced, PeerHandle
    <3>2. greeted'[c] = <<"Version">>
      <4>1. greeted[c] = <<>>
        BY <1>0, <1>1, <2>1, Zenon DEF Advanced, Earned
      <4>2. greeted'[c] = Append(greeted[c], "Version")
        BY <1>0, <2>1 DEF Advanced
      <4> QED BY <4>1, <4>2
    <3> QED BY <3>1, <3>2 DEF Earned
  <2>2. CASE Advanced(c, "AwaitingVerack", "Verack", "Ready")
    <3>1. peers'[p].handshake = "Ready" /\ peers'[p].outbound = c
      BY <1>0, <1>1, <2>2, ZenonT(60) DEF Advanced, PeerHandle
    <3>2. greeted'[c] = <<"Version", "Verack">>
      <4>1. greeted[c] = <<"Version">>
        BY <1>0, <1>1, <2>2, Zenon DEF Advanced, Earned
      <4>2. greeted'[c] = Append(greeted[c], "Verack")
        BY <1>0, <2>2 DEF Advanced
      <4>3. Append(<<"Version">>, "Verack") = <<"Version", "Verack">>
        BY AppendToOne DEF HandshakeEvent
      <4> QED BY <4>1, <4>2, <4>3
    <3> QED BY <3>1, <3>2 DEF Earned
  <2> QED BY <2>1, <2>2
<1> QED BY <1>2, <1>3, <1>4, <1>5 DEF HandshakeIsEarned, Earned, EarnedInv

\* A step keeps the handshake earned: registration starts from nothing said,
\* an accepted message is added to what was said, and what is forgotten has
\* no entry left.
LEMMA EarnedStep ==
  ASSUME TypeOK, GuardInv, NoOrphanEntry, EarnedInv, [Next]_vars
  PROVE  EarnedInv'
<1> USE DEF EarnedInv
<1>0. /\ greeted \in [Conn -> Seq(HandshakeEvent)] /\ ready \in [Conn -> BOOLEAN]
      /\ stage \in [Conn -> Stages] /\ next_id \in Nat
      /\ DOMAIN peers \subseteq 0 .. next_id - 1
      /\ \A id \in DOMAIN peers : peers[id].outbound \in Conn /\ Earned(id)
  BY DEF TypeOK, BuffersTypeOK, FlagsTypeOK, ControlTypeOK, TableTypeOK, PeerHandle, Conn,
         HandshakeIsEarned, Earned
<1>1. OwnEntry'
  BY OwnEntryStep
<1>2. CASE ~ \E c \in Conn : Greets(c)
  <2>1. UNCHANGED <<greeted, ready>> /\ QuietOutsideLoop'
    BY <1>2, GreetedKept DEF QuietOutsideLoop, Remembers
  <2>2. CASE Drops
    BY <1>0, <1>1, <2>1, <2>2 DEF Drops, HandshakeIsEarned, Earned
  <2>3. ASSUME NEW c \in Conn, Admitted(c)
        PROVE  EarnedInv'
    <3>1. greeted[c] = <<>>
      BY <2>3 DEF Admitted, Open, At, QuietOutsideLoop, InReadLoop
    <3>2. ASSUME NEW id \in DOMAIN peers'
          PROVE  Earned(id)'
      <4>1. CASE id = next_id
        BY <2>1, <2>3, <3>1, <4>1 DEF Admitted, Earned
      <4>2. CASE id # next_id
        BY <1>0, <2>1, <2>3, <3>2, <4>2 DEF Admitted, Earned
      <4> QED BY <4>1, <4>2
    <3> QED BY <1>1, <2>1, <3>2 DEF HandshakeIsEarned, Earned
  <2> QED BY <1>2, <2>2, <2>3, EntryStep DEF Greets
<1>3. ASSUME NEW c \in Conn, HandleVersion(c) \/ HandleVerack(c)
      PROVE  EarnedInv'
  <2>1. HandshakeIsEarned'
    BY <1>3, HandleShape, AdvancedEarned
  <2>2. InLoop(c)
    BY <1>3 DEF InLoop, Handle
  <2>3. /\ UNCHANGED ready
        /\ \A d \in Conn : d # c => greeted'[d] = greeted[d]
    BY <1>0, <1>3, HandleShape DEF Advanced
  <2>4. QuietOutsideLoop'
    BY <1>0, <2>2, <2>3, InLoopSteps DEF QuietOutsideLoop
  <2> QED BY <1>1, <2>1, <2>4
<1>4. ASSUME NEW c \in Conn, CheckHandshake(c)
      PROVE  EarnedInv'
  <2>1. UNCHANGED <<peers, greeted>>
    BY <1>4 DEF CheckHandshake, tableVars
  <2>2. ready' = [ready EXCEPT ![c] = ready[c] \/ handshake_of(pid[c]) = "Ready"]
    BY <1>4 DEF CheckHandshake
  <2>3. InLoop(c)
    BY <1>4 DEF InLoop
  <2>4. QuietOutsideLoop'
    BY <1>0, <2>1, <2>2, <2>3, InLoopSteps DEF QuietOutsideLoop
  <2>5. handshake_of(pid[c]) = "Ready" => greeted[c] = <<"Version", "Verack">>
    BY <1>0 DEF handshake_of, OwnEntry, Earned
  <2>6. \A d \in Conn : ready'[d] => greeted[d] = <<"Version", "Verack">>
    BY <1>0, <2>2, <2>5 DEF HandshakeIsEarned
  <2> QED BY <1>1, <2>1, <2>4, <2>6 DEF HandshakeIsEarned
<1>5. ASSUME NEW c \in Conn, Release(c) \/ Unwind(c)
      PROVE  EarnedInv'
  <2>1. /\ greeted' = [greeted EXCEPT ![c] = <<>>]
        /\ ready' = [ready EXCEPT ![c] = FALSE]
        /\ \E s : stage' = [stage EXCEPT ![c] = s]
    BY <1>5 DEF Release, Unwind, LeaveReadLoop, GoTo
  <2>2. /\ DOMAIN peers' = DOMAIN peers \ {pid[c]}
        /\ \A id \in DOMAIN peers' : peers'[id] = peers[id]
    BY <1>5 DEF Release, Unwind, remove, Without, Restrict
  <2>3. \A id \in DOMAIN peers' : peers'[id].outbound # c
    BY <2>2 DEF NoOrphanEntry
  <2>4. QuietOutsideLoop'
    BY <1>0, <2>1 DEF QuietOutsideLoop
  <2>5. \A id \in DOMAIN peers' : Earned(id)'
    BY <1>0, <2>1, <2>2, <2>3 DEF Earned
  <2>6. \A d \in Conn : ready'[d] => greeted'[d] = <<"Version", "Verack">>
    BY <1>0, <2>1 DEF HandshakeIsEarned
  <2> QED BY <1>1, <2>4, <2>5, <2>6 DEF HandshakeIsEarned, Earned
<1> QED BY <1>2, <1>3, <1>4, <1>5 DEF Greets

\* The handshake a node shows for a peer, and the latch of its reader, are
\* what that very peer sent, in order and once, whatever other connections
\* do and however often ids and slots change hands.
THEOREM HandshakeHolds == Spec => []HandshakeIsEarned
<1>1. Init => EarnedInv
  BY DEF Init, TableInit, EarnedInv, OwnEntry, QuietOutsideLoop, HandshakeIsEarned
<1>2. TypeOK /\ GuardInv /\ NoOrphanEntry /\ EarnedInv /\ [Next]_vars => EarnedInv'
  BY EarnedStep
<1>3. EarnedInv => HandshakeIsEarned
  BY DEF EarnedInv
<1> QED BY <1>1, <1>2, <1>3, TypeCorrect, NoOrphanHolds, PTL DEF Spec

\* Only its own foot of the read loop moves a reader that checks its
\* deadline.
LEMMA CheckingStep ==
  ASSUME TypeOK, [Next]_vars, NEW c \in Conn, stage[c] = "checking", stage'[c] # stage[c]
  PROVE  CheckHandshake(c)
<1>0. stage \in [Conn -> Stages]
  BY DEF TypeOK, ControlTypeOK
<1>1. ASSUME NEW d \in Conn, Dial(d) \/ Accept(d)
      PROVE  FALSE
  <2>1. PICK a, o : Spawn(d, a, o)
    BY <1>1 DEF Dial, Accept
  <2> QED BY <1>0, <2>1 DEF Spawn, At, GoTo
<1>2. ASSUME NEW d \in Conn, NoPeerAddr(d) \/ Open(d) \/ SetUp(d) \/ SetUpFails(d)
               \/ Release(d) \/ Join(d) \/ Unwind(d)
      PROVE  FALSE
  BY <1>0, <1>2
  DEF NoPeerAddr, Open, SetUp, SetUpFails, Release, Join, Unwind, At, GoTo
<1>3. ASSUME NEW d \in Conn, InLoop(d)
      PROVE  CheckHandshake(c)
  <2>1. d = c
    BY <1>0, <1>3, InLoopSteps
  <2> QED
    BY <1>3, <2>1
    DEF InLoop, Read, ReadData, ReadNothing, ReadEof, ReadFails, Handle, HandleVersion,
        HandleVerack, HandleOutOfTurn, HandlePing, HandlePong, Deliver, BadFrame, ParsedAll,
        Framed, At
<1>4. ASSUME NEW d \in Conn, Writer(d) \/ PingFallsDue(d) \/ HandshakeFallsLate(d) \/ PeerStalls(d)
      PROVE  FALSE
  BY <1>4, WriterSteps DEF PingFallsDue, HandshakeFallsLate, PeerStalls
<1>5. CASE Broadcast \/ DialFails \/ Quiet \/ UNCHANGED vars
  BY <1>5 DEF Broadcast, DialFails, Quiet, vars
<1> QED BY <1>1, <1>2, <1>3, <1>4, <1>5 DEF Next, Reader, InLoop

\* The deadline drops no registered peer that has completed the handshake:
\* the latch is refreshed from the table before the clock is looked at.
THEOREM DeadlineHolds == Spec => DeadlineSparesReadyPeers
<1> DEFINE Spares == \A c \in Conn :
                       stage[c] = "checking" /\ stage'[c] = "dropping" /\ HasSender(c)
                         => greeted[c] # <<"Version", "Verack">>
<1>1. ASSUME TypeOK, NoOrphanEntry, HandshakeIsEarned, [Next]_vars
      PROVE  Spares
  <2> SUFFICES ASSUME NEW c \in Conn, stage[c] = "checking", stage'[c] = "dropping",
                      HasSender(c)
               PROVE  greeted[c] # <<"Version", "Verack">>
    OBVIOUS
  <2>1. CheckHandshake(c)
    BY <1>1, CheckingStep
  <2>2. stage \in [Conn -> Stages] /\ ready \in [Conn -> BOOLEAN]
    BY <1>1 DEF TypeOK, ControlTypeOK, FlagsTypeOK
  <2>3. ~ ready'[c]
    BY <2>1, <2>2 DEF CheckHandshake, GoTo
  <2>4. ready' = [ready EXCEPT ![c] = ready[c] \/ handshake_of(pid[c]) = "Ready"]
    BY <2>1 DEF CheckHandshake
  <2>5. handshake_of(pid[c]) # "Ready"
    BY <2>2, <2>3, <2>4
  <2>6. PICK id \in DOMAIN peers : peers[id].outbound = c /\ pid[c] = id
    BY <1>1 DEF HasSender, NoOrphanEntry
  <2>7. peers[id].handshake \in {"AwaitingVersion", "AwaitingVerack"}
    BY <1>1, <2>5, <2>6 DEF handshake_of, TypeOK, TableTypeOK, PeerHandle, Handshake
  <2>8. greeted[c] = <<>> \/ greeted[c] = <<"Version">>
    BY <1>1, <2>6, <2>7, Zenon DEF HandshakeIsEarned
  <2>9. CASE greeted[c] = <<>>
    BY <2>9
  <2>10. CASE greeted[c] = <<"Version">>
    BY <2>10
  <2> QED BY <2>8, <2>9, <2>10
<1> QED
  BY <1>1, TypeCorrect, NoOrphanHolds, HandshakeHolds, PTL DEF Spec, DeadlineSparesReadyPeers
-----------------------------------------------------------------------------
(* The opening.                                                            *)

\* A step keeps the opening first: the writer comes into being before it and
\* reaches its loop only by writing it.
LEMMA OpeningStep ==
  ASSUME TypeOK, GuardInv, OpeningInv, [Next]_vars
  PROVE  OpeningInv'
<1> USE DEF OpeningInv
<1>0. writer \in [Conn -> WriterStages]
  BY DEF TypeOK, ControlTypeOK
<1>1. ASSUME NEW c \in Conn, SetUp(c)
      PROVE  OpeningInv'
  <2>1. writer[c] = "none"
    BY <1>1 DEF SetUp, At, GuardInv
  <2> QED BY <1>0, <1>1, <2>1 DEF SetUp, history
<1>2. ASSUME NEW c \in Conn, WriteOpening(c) \/ WritePing(c) \/ WriteQueued(c)
      PROVE  OpeningInv'
  <2>1. /\ writer[c] \in {"opening", "top", "writing"}
        /\ \E s \in {"top", "recv"} : writer' = [writer EXCEPT ![c] = s]
    BY <1>2 DEF WriteOpening, WritePing, WriteQueued, WriterAt, WriterGoTo
  <2>2. PICK m : /\ first' = [first EXCEPT ![c] = IF first[c] = "nothing" THEN m ELSE first[c]]
                 /\ writer[c] = "opening" => m = "version"
    BY <1>2 DEF WriteOpening, WritePing, WriteQueued, Writes, WriterAt
  <2>3. first' = [first EXCEPT ![c] = "version"]
    BY <2>1, <2>2
  <2> QED BY <1>0, <2>1, <2>3
<1>3. ASSUME NEW c \in Conn, SkipPing(c) \/ Receive(c) \/ ReceiveTimeout(c) \/ WriteFails(c)
               \/ Disconnected(c) \/ ShutDown(c)
      PROVE  OpeningInv'
  <2>1. /\ UNCHANGED first
        /\ writer[c] \in {"opening", "top", "recv", "writing", "closing"}
        /\ \/ writer[c] \in {"top", "recv"} /\ \E s \in {"top", "recv", "writing"} :
                writer' = [writer EXCEPT ![c] = s]
           \/ \E s \in {"closing", "ended"} : writer' = [writer EXCEPT ![c] = s]
    BY <1>3
    DEF SkipPing, Receive, ReceiveTimeout, WriteFails, Disconnected, LeaveWriteLoop, ShutDown,
        WriterAt, WriterGoTo
  <2> QED BY <1>0, <2>1
<1>4. ASSUME NEW c \in Conn,
             \/ Dial(c) \/ Accept(c) \/ NoPeerAddr(c) \/ Open(c) \/ SetUpFails(c)
             \/ InLoop(c) \/ Release(c) \/ Join(c) \/ Unwind(c)
             \/ PingFallsDue(c) \/ HandshakeFallsLate(c) \/ PeerStalls(c)
      PROVE  OpeningInv'
  <2>1. UNCHANGED <<writer, first>>
    BY <1>4
    DEF Dial, Accept, Spawn, NoPeerAddr, Open, SetUpFails, InLoop, Read, ReadData, ReadNothing,
        ReadEof, ReadFails, Handle, HandleVersion, HandleVerack, HandleOutOfTurn, HandlePing,
        HandlePong, Deliver, BadFrame, ParsedAll, CheckHandshake, Release, Join, Unwind,
        LeaveReadLoop, NotReading, PingFallsDue, HandshakeFallsLate, PeerStalls,
        writerVars, history
  <2> QED BY <2>1
<1>5. CASE Broadcast \/ DialFails \/ Quiet \/ UNCHANGED vars
  BY <1>5 DEF Broadcast, DialFails, Quiet, vars, writerVars, history
<1> QED BY <1>1, <1>2, <1>3, <1>4, <1>5 DEF Next, Reader, Writer, InLoop

\* Nothing overtakes our version on a connection, although replies and
\* broadcasts are queued before it is written.
THEOREM OpeningHolds == Spec => []OpeningFirst
<1>1. Init => OpeningInv
  BY DEF Init, OpeningInv
<1>2. TypeOK /\ GuardInv /\ OpeningInv /\ [Next]_vars => OpeningInv'
  BY OpeningStep
<1>3. OpeningInv => OpeningFirst
  BY DEF OpeningInv, OpeningFirst
<1> QED BY <1>1, <1>2, <1>3, TypeCorrect, PTL DEF Spec
-----------------------------------------------------------------------------
(* The connections implement the safety half of PeerLifecycle.             *)

\* The connections that hold a seat are those with a sender in the table.
LEMMA SeatedSenders == Lifecycle!Seated = {c \in Conn : HasSender(c)}
BY DEF Lifecycle!Seated, Standing

\* There are no more of them than entries.
LEMMA SeatsCounted ==
  ASSUME TypeOK
  PROVE  /\ Cardinality(Lifecycle!Seated) \in Nat
         /\ Cardinality(DOMAIN peers) \in Nat
         /\ Cardinality(Lifecycle!Seated) <= Cardinality(DOMAIN peers)
<1> DEFINE f == [id \in DOMAIN peers |-> peers[id].outbound]
<1>1. \A id \in DOMAIN peers : peers[id].outbound \in Conn
  BY DEF TypeOK, TableTypeOK, PeerHandle, Conn
<1>2. f \in Surjection(DOMAIN peers, Lifecycle!Seated)
  BY <1>1, SeatedSenders DEF Surjection, HasSender
<1>3. IsFiniteSet(DOMAIN peers)
  BY FinitelyManyPeers DEF TypeOK
<1>4. /\ IsFiniteSet(Lifecycle!Seated)
      /\ Cardinality(Lifecycle!Seated) <= Cardinality(DOMAIN peers)
  BY <1>2, <1>3, FS_Surjection
<1> QED BY <1>3, <1>4, FS_CardinalityType

\* The instance counts as the table does.
LEMMA SameCount ==
  ASSUME NEW S
  PROVE  Lifecycle!Cardinality(S) = Cardinality(S)
BY DEF Lifecycle!Cardinality, Cardinality

\* No step changes whom a registered connection serves.
LEMMA WhoKept ==
  ASSUME TypeOK, [Next]_vars
  PROVE  \A c \in Conn : stage[c] \in Registered => who'[c] = who[c]
<1>1. CASE ~ \E c \in Conn : Open(c)
  BY <1>1, GuardsKept
<1>2. CASE \E c \in Conn : Open(c)
  BY <1>2 DEF Open
<1> QED BY <1>1, <1>2

\* A step that drops entries is one in which their connections leave, or
\* nobody does.
LEMMA DropsLeave ==
  ASSUME TypeOK, NoOrphanEntry, [Next]_vars, Drops
  PROVE  [Lifecycle!Next]_(Lifecycle!vars)
<1> DEFINE gone == {c \in Conn : HasSender(c) /\ ~ HasSender(c)'}
<1>0. /\ pid' = pid /\ DOMAIN peers' \subseteq DOMAIN peers
      /\ \A id \in DOMAIN peers' : peers'[id] = peers[id]
  BY DEF Drops
<1>1. ASSUME NEW c \in Conn, c \in gone
      PROVE  Standing'[c] = "gone" /\ DialledTo'[c] = "none"
  <2>1. PICK id \in DOMAIN peers : peers[id].outbound = c /\ pid[c] = id
    BY <1>1 DEF HasSender, NoOrphanEntry
  <2>2. pid'[c] # NoPeer
    BY <1>0, <2>1 DEF NoPeer, TypeOK, TableTypeOK
  <2> QED BY <1>1, <2>2 DEF Standing, DialledTo
<1>2. ASSUME NEW c \in Conn, c \notin gone
      PROVE  Standing'[c] = Standing[c] /\ DialledTo'[c] = DialledTo[c]
  <2>1. CASE HasSender(c)'
    <3>1. PICK id \in DOMAIN peers' : peers'[id].outbound = c
      BY <2>1 DEF HasSender
    <3>2. HasSender(c) /\ pid[c] = id /\ stage[c] \in Registered
      BY <1>0, <3>1 DEF HasSender, NoOrphanEntry
    <3>3. handshake_of(pid[c])' = handshake_of(pid[c]) /\ who'[c] = who[c]
      BY <1>0, <3>1, <3>2, WhoKept DEF handshake_of
    <3> QED BY <2>1, <3>2, <3>3 DEF Standing, DialledTo
  <2>2. CASE ~ HasSender(c)'
    BY <1>0, <1>2, <2>2 DEF Standing, DialledTo
  <2> QED BY <2>1, <2>2
<1>3. gone \in SUBSET Lifecycle!Seated
  BY SeatedSenders
<1>4. /\ Standing' = [c \in Conn |-> IF c \in gone THEN "gone" ELSE Standing[c]]
      /\ DialledTo' = [c \in Conn |-> IF c \in gone THEN "none" ELSE DialledTo[c]]
  <2>1. /\ Standing' = [c \in Conn |-> Standing'[c]]
        /\ DialledTo' = [c \in Conn |-> DialledTo'[c]]
    BY DEF Standing, DialledTo
  <2> HIDE DEF gone
  <2> QED BY <1>1, <1>2, <2>1, Zenon
<1>5. CASE gone = {}
  <2>1. /\ Standing = [c \in Conn |-> Standing[c]]
        /\ DialledTo = [c \in Conn |-> DialledTo[c]]
    BY DEF Standing, DialledTo
  <2>2. Standing' = Standing /\ DialledTo' = DialledTo
    BY <1>4, <1>5, <2>1
  <2> QED BY <2>2 DEF Lifecycle!vars
<1>6. CASE gone # {}
  <2> HIDE DEF gone
  <2>1. Lifecycle!Leave(gone)
    BY <1>4, <1>6 DEF Lifecycle!Leave, Lifecycle!NoAddress
  <2> QED BY <1>3, <2>1 DEF Lifecycle!Next
<1> QED BY <1>5, <1>6

\* An admission seats one connection that was never seated, under the limit
\* and, if it dials, at an address nobody seated was dialled to.
LEMMA AdmittedSeats ==
  ASSUME TypeOK, GuardInv, NoOrphanEntry, NEW c \in Conn, Admitted(c)
  PROVE  Lifecycle!Next
<1> DEFINE a == IF who[c].origin = "Dialled" THEN who[c].address ELSE "none"
<1>0. /\ stage[c] = "spawned" /\ UNCHANGED who
      /\ pid \in [Conn -> Nat \cup {NoPeer}] /\ next_id \in Nat
      /\ DOMAIN peers \subseteq 0 .. next_id - 1
      /\ pid' = [pid EXCEPT ![c] = next_id]
      /\ Admits(who[c].address, who[c].origin)
  BY DEF Admitted, Open, At, TypeOK, ControlTypeOK, TableTypeOK
<1>1. /\ DOMAIN peers' = DOMAIN peers \cup {next_id} /\ next_id \notin DOMAIN peers
      /\ \A id \in DOMAIN peers : peers'[id] = peers[id]
      /\ peers'[next_id] = [address |-> who[c].address, origin |-> who[c].origin,
                            handshake |-> "AwaitingVersion", outbound |-> c]
  BY <1>0 DEF Admitted
<1>2. Standing[c] = "out"
  <2>1. ~ HasSender(c)
    BY <1>0 DEF HasSender, NoOrphanEntry, Registered, InReadLoop
  <2>2. pid[c] = NoPeer
    BY <1>0 DEF GuardInv
  <2> QED BY <2>1, <2>2 DEF Standing
<1>3. Cardinality(Lifecycle!Seated) < MAX_PEERS
  <2>1. Cardinality(DOMAIN peers) < MAX_PEERS
    BY <1>0 DEF Admits
  <2> QED BY <2>1, SeatsCounted, BoundsAssumption
<1>4. a # "none" => \A d \in Lifecycle!Seated : DialledTo[d] # a
  <2> SUFFICES ASSUME a # "none", NEW d \in Conn, HasSender(d), DialledTo[d] = a
               PROVE  FALSE
    BY SeatedSenders
  <2>1. who[c].origin = "Dialled" /\ a = who[c].address
    OBVIOUS
  <2>2. who[d].origin = "Dialled" /\ who[d].address = a
    BY DEF DialledTo
  <2>3. PICK id \in DOMAIN peers : peers[id].origin = "Dialled" /\ peers[id].address = a
    BY <2>2 DEF HasSender, NoOrphanEntry
  <2> QED BY <1>0, <2>1, <2>3 DEF Admits, dialled
<1>5. Standing'[c] = "greeting" /\ DialledTo'[c] = a
  <2>1. HasSender(c)' /\ handshake_of(pid[c])' = "AwaitingVersion"
    BY <1>0, <1>1 DEF HasSender, handshake_of
  <2> QED BY <1>0, <2>1 DEF Standing, DialledTo
<1>6. ASSUME NEW d \in Conn, d # c
      PROVE  Standing'[d] = Standing[d] /\ DialledTo'[d] = DialledTo[d]
  <2>1. HasSender(d)' <=> HasSender(d)
    BY <1>1, <1>6 DEF HasSender
  <2>2. pid'[d] = pid[d] /\ pid[d] # next_id
    BY <1>0, <1>6 DEF GuardInv, NoPeer
  <2>3. handshake_of(pid[d])' = handshake_of(pid[d])
    BY <1>1, <2>2 DEF handshake_of
  <2> QED BY <1>0, <2>1, <2>2, <2>3 DEF Standing, DialledTo
<1>7. /\ Standing' = [Standing EXCEPT ![c] = "greeting"]
      /\ DialledTo' = [DialledTo EXCEPT ![c] = a]
  <2>1. /\ Standing = [d \in Conn |-> Standing[d]] /\ Standing' = [d \in Conn |-> Standing'[d]]
        /\ DialledTo = [d \in Conn |-> DialledTo[d]] /\ DialledTo' = [d \in Conn |-> DialledTo'[d]]
    BY DEF Standing, DialledTo
  <2> HIDE DEF a
  <2> QED BY <1>5, <1>6, <2>1
<1>8. a \in Address \cup {"none"}
  BY <1>0 DEF GuardInv
<1>9. PICK b \in Address \cup {"none"} :
        /\ b # "none" => \A d \in Lifecycle!Seated : DialledTo[d] # b
        /\ DialledTo' = [DialledTo EXCEPT ![c] = b]
  BY <1>4, <1>7, <1>8, Zenon
<1>10. Lifecycle!Seat(c, b)
  BY <1>2, <1>3, <1>7, <1>9, SameCount DEF Lifecycle!Seat, Lifecycle!NoAddress
<1> QED BY <1>9, <1>10 DEF Lifecycle!Next, Lifecycle!NoAddress

\* A handshake message that is accepted makes its own connection ready, or
\* leaves everyone's standing as it was.
LEMMA AdvancedGreets ==
  ASSUME TypeOK, NoOrphanEntry, OwnEntry, UNCHANGED who, NEW c \in Conn,
         \/ Advanced(c, "AwaitingVersion", "Version", "AwaitingVerack")
         \/ Advanced(c, "AwaitingVerack", "Verack", "Ready")
  PROVE  [Lifecycle!Next]_(Lifecycle!vars)
<1>0. /\ UNCHANGED pid /\ pid[c] \in DOMAIN peers /\ peers[pid[c]].outbound = c
      /\ peers[pid[c]].handshake # "Ready"
      /\ peers \in [DOMAIN peers -> PeerHandle]
  BY DEF Advanced, OwnEntry, TypeOK, TableTypeOK
<1>1. /\ DOMAIN peers' = DOMAIN peers
      /\ \A id \in DOMAIN peers : /\ peers'[id].outbound = peers[id].outbound
                                  /\ id # pid[c] => peers'[id] = peers[id]
  BY <1>0 DEF Advanced, PeerHandle
<1>2. \A d \in Conn : HasSender(d)' <=> HasSender(d)
  BY <1>1 DEF HasSender
<1>3. ASSUME NEW d \in Conn, d # c
      PROVE  Standing'[d] = Standing[d]
  <2>1. CASE HasSender(d)
    <3>1. PICK id \in DOMAIN peers : peers[id].outbound = d /\ pid[d] = id
      BY <2>1 DEF HasSender, NoOrphanEntry
    <3>2. id # pid[c]
      BY <1>0, <1>3, <3>1
    <3>3. handshake_of(pid[d])' = handshake_of(pid[d])
      BY <1>0, <1>1, <3>1, <3>2 DEF handshake_of
    <3> QED BY <1>0, <1>2, <3>3 DEF Standing
  <2>2. CASE ~ HasSender(d)
    BY <1>0, <1>2, <2>2 DEF Standing
  <2> QED BY <2>1, <2>2
<1>4. UNCHANGED DialledTo
  BY <1>2 DEF DialledTo
<1>5. /\ Standing = [d \in Conn |-> Standing[d]]
      /\ Standing' = [d \in Conn |-> Standing'[d]]
  BY DEF Standing
<1>6. HasSender(c) /\ Standing[c] = "greeting"
  BY <1>0 DEF HasSender, Standing, handshake_of
<1>7. CASE Advanced(c, "AwaitingVersion", "Version", "AwaitingVerack")
  <2>1. handshake_of(pid[c])' = "AwaitingVerack"
    BY <1>0, <1>1, <1>7 DEF Advanced, handshake_of, PeerHandle
  <2>2. Standing'[c] = Standing[c]
    BY <1>2, <1>6, <2>1 DEF Standing
  <2>3. UNCHANGED Standing
    BY <1>3, <1>5, <2>2, Zenon
  <2> QED BY <1>4, <2>3 DEF Lifecycle!vars
<1>8. CASE Advanced(c, "AwaitingVerack", "Verack", "Ready")
  <2>1. handshake_of(pid[c])' = "Ready"
    BY <1>0, <1>1, <1>8 DEF Advanced, handshake_of, PeerHandle
  <2>2. Standing'[c] = "ready"
    BY <1>2, <1>6, <2>1 DEF Standing
  <2>3. Standing' = [Standing EXCEPT ![c] = "ready"]
    BY <1>3, <1>5, <2>2
  <2>4. Lifecycle!Greet(c)
    BY <1>4, <1>6, <2>3 DEF Lifecycle!Greet
  <2> QED BY <2>4 DEF Lifecycle!Next
<1> QED BY <1>7, <1>8

\* Threads, guards, ids, channels and queues together implement seats that
\* are counted and taken once: what PeerLifecycle promises, save that a
\* greeting connection settles.
THEOREM LifecycleRefinement == Spec => LifecycleSafety
<1>1. Init => Lifecycle!Init
  BY DEF Init, TableInit, Lifecycle!Init, Lifecycle!NoAddress, Standing, DialledTo, HasSender
<1>2. ASSUME TypeOK, GuardInv, NoOrphanEntry, OwnEntry, [Next]_vars
      PROVE  [Lifecycle!Next]_(Lifecycle!vars)
  <2>1. CASE Drops
    BY <1>2, <2>1, DropsLeave
  <2>2. ASSUME NEW c \in Conn, Admitted(c)
        PROVE  Lifecycle!Next
    BY <1>2, <2>2, AdmittedSeats
  <2>3. ASSUME NEW c \in Conn, HandleVersion(c) \/ HandleVerack(c)
        PROVE  [Lifecycle!Next]_(Lifecycle!vars)
    <3>1. UNCHANGED who
      BY <2>3 DEF HandleVersion, HandleVerack, NotReading, guardVars
    <3> QED BY <1>2, <2>3, <3>1, HandleShape, AdvancedGreets
  <2> QED BY <1>2, <2>1, <2>2, <2>3, EntryStep
<1> QED
  BY <1>1, <1>2, TypeCorrect, NoOrphanHolds, OwnEntryHolds, PTL
  DEF Spec, LifecycleSafety, Lifecycle!Spec

-----------------------------------------------------------------------------
(* Answers and what is owed.                                               *)

\* The answers among the first messages of a sequence, counted one by one.
LEMMA AnswersCounted ==
  ASSUME NEW s, NEW i \in Nat
  PROVE  /\ Answers(s, 0) = 0 /\ Answers(s, i) \in Nat
         /\ Answers(s, i + 1) = IF s[i + 1] # Block THEN Answers(s, i) + 1 ELSE Answers(s, i)
<1> DEFINE A(n) == {k \in 1 .. n : s[k] # Block}
<1>1. A(0) = {}
  OBVIOUS
<1>2. IsFiniteSet(A(i)) /\ Cardinality(A(i)) \in Nat
  <2>1. IsFiniteSet(1 .. i) /\ A(i) \in SUBSET (1 .. i)
    BY FS_Interval
  <2> QED
    BY <2>1, FS_Subset, FS_CardinalityType
<1>3. i + 1 \notin A(i)
  OBVIOUS
<1>4. A(i + 1) = IF s[i + 1] # Block THEN A(i) \cup {i + 1} ELSE A(i)
  OBVIOUS
<1>5. Cardinality(A(i + 1)) =
        IF s[i + 1] # Block THEN Cardinality(A(i)) + 1 ELSE Cardinality(A(i))
  BY <1>2, <1>3, <1>4, FS_AddElement
<1> QED
  BY <1>1, <1>2, <1>5, FS_EmptySet DEF Answers

LEMMA AnswersOfFront ==
  ASSUME NEW s, NEW u, NEW i \in Nat, \A k \in 1 .. i : u[k] = s[k]
  PROVE  Answers(u, i) = Answers(s, i)
<1>1. {k \in 1 .. i : u[k] # Block} = {k \in 1 .. i : s[k] # Block}
  OBVIOUS
<1> QED
  BY <1>1 DEF Answers

LEMMA AnswersOfTail ==
  ASSUME NEW s, NEW u, NEW i \in Nat, \A k \in 1 .. i : u[k] = s[k + 1]
  PROVE  Answers(s, i + 1) = IF s[1] # Block THEN Answers(u, i) + 1 ELSE Answers(u, i)
<1> DEFINE A == {k \in 1 .. i + 1 : s[k] # Block}
           B == {k \in 1 .. i : u[k] # Block}
           C == {k \in 2 .. i + 1 : s[k] # Block}
           f == [k \in B |-> k + 1]
<1>1. IsFiniteSet(B)
  <2>1. IsFiniteSet(1 .. i) /\ B \in SUBSET (1 .. i)
    BY FS_Interval
  <2> QED
    BY <2>1, FS_Subset
<1>2. ExistsBijection(B, C)
  <2>1. f \in [B -> C]
    OBVIOUS
  <2>2. \A x, y \in B : f[x] = f[y] => x = y
    OBVIOUS
  <2>3. \A y \in C : \E x \in B : f[x] = y
    <3> SUFFICES ASSUME NEW y \in C PROVE \E x \in B : f[x] = y
      OBVIOUS
    <3>1. y - 1 \in B /\ f[y - 1] = y
      OBVIOUS
    <3> QED
      BY <3>1
  <2>4. DOMAIN f = B
    OBVIOUS
  <2> HIDE DEF f, B, C
  <2>5. f \in Bijection(B, C)
    BY <2>1, <2>2, <2>3, <2>4 DEF Bijection, Injection, Surjection, IsInjective
  <2> QED
    BY <2>5 DEF ExistsBijection
<1>3. IsFiniteSet(C) /\ Cardinality(C) = Cardinality(B)
  BY <1>1, <1>2, FS_Bijection
<1>4. A = (IF s[1] # Block THEN C \cup {1} ELSE C) /\ 1 \notin C
  OBVIOUS
<1>5. Cardinality(A) = IF s[1] # Block THEN Cardinality(C) + 1 ELSE Cardinality(C)
  BY <1>3, <1>4, FS_AddElement
<1> QED
  BY <1>3, <1>5 DEF Answers

\* An answer at place i is at least the first.
LEMMA AnswerHere ==
  ASSUME NEW s, NEW i \in Nat \ {0}, s[i] # Block
  PROVE  Answers(s, i) \in Nat /\ Answers(s, i) >= 1
<1>1. i - 1 \in Nat /\ (i - 1) + 1 = i
  OBVIOUS
<1> QED
  BY <1>1, AnswersCounted

\* A message behind s: a broadcast changes nothing, and an answer is in order
\* if it is the one owed next.
LEMMA QueueMore ==
  ASSUME NEW s \in Seq(Message), NEW u \in Seq(Message), NEW debt \in Seq(Message),
         Len(u) = Len(s) + 1, \A k \in 1 .. Len(s) : u[k] = s[k], OldestOwed(s, debt)
  PROVE  /\ u[Len(u)] = Block =>
              /\ OldestOwed(u, debt)
              /\ \A rest : AllOwed(s, rest, debt) => AllOwed(u, rest, debt)
         /\ u[Len(u)] # Block /\ AllOwed(s, <<u[Len(u)]>>, debt) =>
              OldestOwed(u, debt) /\ AllOwed(u, <<>>, debt)
<1> DEFINE n == Len(s)
           m == u[n + 1]
<1>0. n \in Nat /\ DOMAIN s = 1 .. n /\ DOMAIN u = 1 .. n + 1 /\ Len(u) = n + 1
  OBVIOUS
<1>1. ASSUME NEW i \in 0 .. n PROVE Answers(u, i) = Answers(s, i)
  <2>1. i \in Nat /\ \A k \in 1 .. i : u[k] = s[k]
    BY <1>0
  <2> QED
    BY <2>1, AnswersOfFront
<1>2. /\ Answers(s, n) \in Nat /\ Answers(u, n) = Answers(s, n)
      /\ Answers(u, n + 1) = IF m # Block THEN Answers(s, n) + 1 ELSE Answers(s, n)
  <2>1. Answers(u, n) = Answers(s, n)
    BY <1>0, <1>1
  <2>2. Answers(s, n) \in Nat
    BY <1>0, AnswersCounted
  <2>3. Answers(u, n + 1) = IF u[n + 1] # Block THEN Answers(u, n) + 1 ELSE Answers(u, n)
    BY <1>0, AnswersCounted
  <2> QED
    BY <2>1, <2>2, <2>3
<1> HIDE DEF n, m
<1>3. \A i \in 1 .. n : u[i] # Block =>
        Answers(u, i) <= Len(debt) /\ u[i] = debt[Answers(u, i)]
  BY <1>0, <1>1 DEF OldestOwed, n
<1>4. ASSUME m = Block
      PROVE  OldestOwed(u, debt) /\ \A rest : AllOwed(s, rest, debt) => AllOwed(u, rest, debt)
  <2>1. OldestOwed(u, debt)
    BY <1>0, <1>3, <1>4 DEF OldestOwed, m
  <2>2. ASSUME NEW rest, AllOwed(s, rest, debt) PROVE AllOwed(u, rest, debt)
    BY <1>0, <1>2, <1>4, <2>2 DEF AllOwed, n
  <2> QED
    BY <2>1, <2>2
<1>5. ASSUME m # Block, AllOwed(s, <<m>>, debt)
      PROVE  OldestOwed(u, debt) /\ AllOwed(u, <<>>, debt)
  <2>1. Len(<<m>>) = 1 /\ DOMAIN <<m>> = {1} /\ <<m>>[1] = m
    OBVIOUS
  <2>2. Len(debt) = Answers(s, n) + 1 /\ m = debt[Answers(s, n) + 1]
    BY <1>5, <2>1 DEF AllOwed, n
  <2>3. OldestOwed(u, debt)
    BY <1>0, <1>2, <1>3, <1>5, <2>2 DEF OldestOwed, m
  <2>4. Len(<<>>) = 0 /\ DOMAIN <<>> = {}
    OBVIOUS
  <2>5. AllOwed(u, <<>>, debt)
    BY <1>0, <1>2, <1>5, <2>2, <2>4 DEF AllOwed
  <2> QED
    BY <2>3, <2>5
<1> QED
  BY <1>0, <1>4, <1>5 DEF m

\* A message at the front of s goes: a broadcast settles nothing, and an
\* answer is the one owed first.
LEMMA TakeFirst ==
  ASSUME NEW s \in Seq(Message), NEW u \in Seq(Message), NEW debt \in Seq(Message),
         Len(s) = Len(u) + 1, \A k \in 1 .. Len(u) : u[k] = s[k + 1], OldestOwed(s, debt)
  PROVE  /\ s[1] = Block =>
              /\ OldestOwed(u, debt)
              /\ \A rest : AllOwed(s, rest, debt) => AllOwed(u, rest, debt)
         /\ s[1] # Block =>
              /\ debt # <<>> /\ OldestOwed(u, Tail(debt))
              /\ \A rest \in Seq(Message) : AllOwed(s, rest, debt) => AllOwed(u, rest, Tail(debt))
<1> DEFINE n == Len(u)
<1>0. n \in Nat /\ DOMAIN u = 1 .. n /\ DOMAIN s = 1 .. n + 1 /\ Len(s) = n + 1
  OBVIOUS
<1>1. ASSUME NEW i \in 0 .. n
      PROVE  /\ Answers(u, i) \in Nat
             /\ Answers(s, i + 1) = IF s[1] # Block THEN Answers(u, i) + 1 ELSE Answers(u, i)
  <2>1. i \in Nat /\ \A k \in 1 .. i : u[k] = s[k + 1]
    BY <1>0
  <2>2. Answers(u, i) \in Nat
    BY <2>1, AnswersCounted
  <2>3. Answers(s, i + 1) = IF s[1] # Block THEN Answers(u, i) + 1 ELSE Answers(u, i)
    BY <2>1, AnswersOfTail
  <2> QED
    BY <2>2, <2>3
<1>2. ASSUME NEW i \in 1 .. n, u[i] # Block
      PROVE  /\ Answers(u, i) >= 1 /\ Answers(s, i + 1) <= Len(debt)
             /\ u[i] = debt[Answers(s, i + 1)]
  <2>1. i + 1 \in DOMAIN s /\ s[i + 1] = u[i] /\ i \in Nat \ {0}
    BY <1>0
  <2> QED
    BY <1>2, <2>1, AnswerHere DEF OldestOwed
<1> HIDE DEF n
<1>3. ASSUME s[1] = Block
      PROVE  OldestOwed(u, debt) /\ \A rest : AllOwed(s, rest, debt) => AllOwed(u, rest, debt)
  <2>1. OldestOwed(u, debt)
    BY <1>0, <1>1, <1>2, <1>3 DEF OldestOwed
  <2>2. n \in 0 .. n /\ Answers(s, n + 1) = Answers(u, n)
    BY <1>0, <1>1, <1>3
  <2>3. ASSUME NEW rest, AllOwed(s, rest, debt) PROVE AllOwed(u, rest, debt)
    BY <1>0, <2>2, <2>3 DEF AllOwed, n
  <2> QED
    BY <2>1, <2>3
<1>4. ASSUME s[1] # Block
      PROVE  /\ debt # <<>> /\ OldestOwed(u, Tail(debt))
             /\ \A rest \in Seq(Message) : AllOwed(s, rest, debt) => AllOwed(u, rest, Tail(debt))
  <2>1. 1 \in DOMAIN s /\ Answers(s, 1) \in Nat /\ Answers(s, 1) >= 1
    BY <1>0, <1>4, AnswerHere
  <2>2. Len(debt) >= 1 /\ debt # <<>>
    BY <1>4, <2>1 DEF OldestOwed
  <2>3. /\ Tail(debt) \in Seq(Message) /\ Len(Tail(debt)) = Len(debt) - 1
        /\ \A i \in 1 .. Len(debt) - 1 : Tail(debt)[i] = debt[i + 1]
    BY <2>2, HeadTailProperties
  <2>4. OldestOwed(u, Tail(debt))
    <3> SUFFICES ASSUME NEW i \in 1 .. n, u[i] # Block
                 PROVE  Answers(u, i) <= Len(Tail(debt)) /\ u[i] = Tail(debt)[Answers(u, i)]
      BY <1>0 DEF OldestOwed
    <3>1. Answers(u, i) \in Nat /\ Answers(s, i + 1) = Answers(u, i) + 1
      BY <1>0, <1>1, <1>4
    <3>2. Answers(u, i) \in 1 .. Len(debt) - 1
      BY <1>2, <3>1
    <3> QED
      BY <1>2, <2>3, <3>1, <3>2
  <2>5. n \in 0 .. n /\ Answers(u, n) \in Nat /\ Answers(s, n + 1) = Answers(u, n) + 1
    BY <1>0, <1>1, <1>4
  <2>6. ASSUME NEW rest \in Seq(Message), AllOwed(s, rest, debt) PROVE AllOwed(u, rest, Tail(debt))
    <3>1. /\ Len(debt) = Answers(u, n) + 1 + Len(rest)
          /\ \A i \in DOMAIN rest : rest[i] = debt[Answers(u, n) + 1 + i]
      BY <1>0, <2>5, <2>6 DEF AllOwed
    <3>2. ASSUME NEW i \in DOMAIN rest PROVE rest[i] = Tail(debt)[Answers(u, n) + i]
      <4>1. i \in 1 .. Len(rest) /\ Len(rest) \in Nat
        OBVIOUS
      <4>2. \A a, l, d \in Nat : d = a + 1 + l /\ i \in 1 .. l =>
              a + i \in 1 .. d - 1 /\ a + 1 + i = (a + i) + 1
        OBVIOUS
      <4>3. Len(debt) \in Nat
        OBVIOUS
      <4>4. /\ Answers(u, n) + i \in 1 .. Len(debt) - 1
            /\ Answers(u, n) + 1 + i = (Answers(u, n) + i) + 1
        BY <2>5, <3>1, <4>1, <4>2, <4>3
      <4> QED
        BY <2>3, <3>1, <4>4
    <3>3. Len(Tail(debt)) = Answers(u, n) + Len(rest)
      BY <2>3, <2>5, <3>1
    <3> QED
      BY <3>2, <3>3 DEF AllOwed, n
  <2> QED
    BY <2>2, <2>4, <2>6
<1> QED
  BY <1>3, <1>4

\* One more answer is owed: the oldest stay the oldest, and it is the rest.
LEMMA OweMore ==
  ASSUME NEW s \in Seq(Message), NEW debt \in Seq(Message), NEW m \in Message,
         OldestOwed(s, debt)
  PROVE  /\ OldestOwed(s, Append(debt, m))
         /\ AllOwed(s, <<>>, debt) => AllOwed(s, <<m>>, Append(debt, m))
<1> DEFINE more == Append(debt, m)
<1>1. /\ more \in Seq(Message) /\ Len(more) = Len(debt) + 1 /\ more[Len(debt) + 1] = m
      /\ \A i \in 1 .. Len(debt) : more[i] = debt[i]
  BY AppendProperties
<1> HIDE DEF more
<1>2. Len(debt) \in Nat /\ DOMAIN s = 1 .. Len(s) /\ Len(s) \in Nat
  OBVIOUS
<1>3. OldestOwed(s, more)
  <2> SUFFICES ASSUME NEW i \in DOMAIN s, s[i] # Block
               PROVE  Answers(s, i) <= Len(more) /\ s[i] = more[Answers(s, i)]
    BY DEF OldestOwed
  <2>1. Answers(s, i) \in Nat /\ Answers(s, i) >= 1
    BY <1>2, AnswerHere
  <2>2. Answers(s, i) <= Len(debt) /\ s[i] = debt[Answers(s, i)]
    BY DEF OldestOwed
  <2> QED
    BY <1>1, <1>2, <2>1, <2>2
<1>4. ASSUME AllOwed(s, <<>>, debt) PROVE AllOwed(s, <<m>>, more)
  <2>1. Answers(s, Len(s)) \in Nat
    BY <1>2, AnswersCounted
  <2>2. Len(debt) = Answers(s, Len(s))
    BY <1>4, <2>1 DEF AllOwed
  <2>3. Len(<<m>>) = 1 /\ DOMAIN <<m>> = {1} /\ <<m>>[1] = m
    OBVIOUS
  <2> QED
    BY <1>1, <2>2, <2>3 DEF AllOwed
<1> QED
  BY <1>3, <1>4 DEF more

\* Where nothing is owed, there are no answers.
LEMMA NothingOwed ==
  ASSUME NEW s \in Seq(Message)
  PROVE  OldestOwed(s, <<>>) => AllOwed(s, <<>>, <<>>)
<1>1. ASSUME OldestOwed(s, <<>>) PROVE Answers(s, Len(s)) = 0
  <2>1. \A i \in 1 .. Len(s) : s[i] = Block
    <3> SUFFICES ASSUME NEW i \in 1 .. Len(s), s[i] # Block PROVE FALSE
      OBVIOUS
    <3>1. Answers(s, i) <= 0 /\ i \in Nat \ {0}
      BY <1>1 DEF OldestOwed
    <3>2. Answers(s, i) \in Nat /\ Answers(s, i) >= 1
      BY <3>1, AnswerHere
    <3> QED
      BY <3>1, <3>2
  <2>2. {k \in 1 .. Len(s) : s[k] # Block} = {}
    BY <2>1
  <2> QED
    BY <2>2, FS_EmptySet DEF Answers
<1>2. Len(<<>>) = 0 /\ DOMAIN <<>> = {}
  OBVIOUS
<1> QED
  BY <1>1, <1>2 DEF AllOwed

\* Where there is nothing, it is in order.
LEMMA NothingKept == \A debt : OldestOwed(<<>>, debt)
<1>1. DOMAIN <<>> = {}
  OBVIOUS
<1> QED
  BY <1>1 DEF OldestOwed

-----------------------------------------------------------------------------
Unstarted == {"idle", "spawned", "setup"}

\* What the reader promises, what the writer has, and what is owed, of one
\* connection: nothing is owed or promised before the read loop, a reply is
\* promised exactly while it is delivered, and nothing outlives the receiver.
DebtOf(c) ==
  /\ receiver[c] # "live" => hand[c] = <<>> /\ queue[c] = <<>>
  /\ Len(hand[c]) <= 1
  /\ stage[c] \in Unstarted => owed[c] = <<>>
  /\ stage[c] \in Unstarted \cup (InReadLoop \ {"replying"}) => reply[c] = <<>>
  /\ stage[c] = "replying" => \E m \in Message : m # Block /\ reply[c] = <<m>>
  /\ OldestOwed(hand[c] \o queue[c], owed[c])
  /\ stage[c] \in InReadLoop /\ HasSender(c) /\ receiver[c] = "live"
       => AllOwed(hand[c] \o queue[c], reply[c], owed[c])

DebtInv == \A c \in Conn : DebtOf(c)

\* A step in which a connection neither takes on nor settles a debt.
Calm(c) ==
  /\ hand'[c] = hand[c] /\ queue'[c] = queue[c]
  /\ owed'[c] = owed[c] /\ receiver'[c] = receiver[c]
  /\ HasSender(c)' => HasSender(c)
  /\ \/ stage'[c] \notin Unstarted \cup InReadLoop
     \/ /\ reply'[c] = reply[c]
        /\ \/ stage'[c] = stage[c]
           \/ {stage[c], stage'[c]} \subseteq InReadLoop \ {"replying"}
           \/ stage[c] = "idle" /\ stage'[c] = "spawned"
           \/ stage[c] = "setup" /\ stage'[c] = "reading"

LEMMA CalmKeepsDebt ==
  ASSUME TypeOK, NEW c \in Conn, DebtOf(c), Calm(c)
  PROVE  DebtOf(c)'
<1> DEFINE kept == hand[c] \o queue[c]
<1>1. /\ hand'[c] = hand[c] /\ queue'[c] = queue[c] /\ owed'[c] = owed[c]
      /\ receiver'[c] = receiver[c]
  BY DEF Calm
<1>2. hand[c] \in Seq(Message) /\ queue[c] \in Seq(Message)
  BY DEF TypeOK, BuffersTypeOK, TableTypeOK, Conn
<1>3. kept \in Seq(Message)
  BY <1>2, ConcatProperties
<1>4. hand'[c] \o queue'[c] = kept
  BY <1>1
<1> HIDE DEF kept
<1>5. /\ receiver'[c] # "live" => hand'[c] = <<>> /\ queue'[c] = <<>>
      /\ Len(hand'[c]) <= 1
      /\ OldestOwed(kept, owed[c])
  BY <1>1 DEF DebtOf, kept
<1>6. CASE stage'[c] \notin Unstarted \cup InReadLoop
  BY <1>1, <1>4, <1>5, <1>6 DEF DebtOf, InReadLoop
<1>7. CASE reply'[c] = reply[c] /\ stage'[c] = stage[c]
  <2>1. stage'[c] \in InReadLoop /\ HasSender(c)' /\ receiver'[c] = "live"
          => AllOwed(kept, reply'[c], owed'[c])
    BY <1>1, <1>7 DEF DebtOf, Calm, kept
  <2>2. /\ stage'[c] \in Unstarted => owed'[c] = <<>>
        /\ stage'[c] \in Unstarted \cup (InReadLoop \ {"replying"}) => reply'[c] = <<>>
        /\ stage'[c] = "replying" => \E m \in Message : m # Block /\ reply'[c] = <<m>>
    BY <1>1, <1>7 DEF DebtOf
  <2> QED
    BY <1>1, <1>4, <1>5, <2>1, <2>2 DEF DebtOf
<1>8. CASE reply'[c] = reply[c] /\ {stage[c], stage'[c]} \subseteq InReadLoop \ {"replying"}
  <2>1. stage'[c] \in InReadLoop /\ HasSender(c)' /\ receiver'[c] = "live"
          => AllOwed(kept, reply'[c], owed'[c])
    BY <1>1, <1>8 DEF DebtOf, Calm, kept
  <2>2. stage'[c] \notin Unstarted /\ stage'[c] # "replying" /\ reply'[c] = <<>>
    BY <1>8 DEF DebtOf, InReadLoop, Unstarted
  <2> QED
    BY <1>1, <1>4, <1>5, <2>1, <2>2 DEF DebtOf
<1>9. CASE reply'[c] = reply[c] /\ stage[c] = "idle" /\ stage'[c] = "spawned"
  <2>1. owed'[c] = <<>> /\ reply'[c] = <<>> /\ stage'[c] \notin InReadLoop
    BY <1>1, <1>9 DEF DebtOf, InReadLoop, Unstarted
  <2> QED
    BY <1>1, <1>4, <1>5, <1>9, <2>1 DEF DebtOf
<1>10. CASE reply'[c] = reply[c] /\ stage[c] = "setup" /\ stage'[c] = "reading"
  <2>1. owed'[c] = <<>> /\ reply'[c] = <<>> /\ stage'[c] \notin Unstarted
    BY <1>1, <1>10 DEF DebtOf, Unstarted
  <2>2. AllOwed(kept, <<>>, <<>>)
    BY <1>1, <1>3, <1>5, <2>1, NothingOwed
  <2> QED
    BY <1>1, <1>4, <1>5, <1>10, <2>1, <2>2 DEF DebtOf
<1> QED
  BY <1>6, <1>7, <1>8, <1>9, <1>10 DEF Calm

\* A step of one connection is calm for every other.
StepOf(c) ==
  Dial(c) \/ Accept(c) \/ Reader(c) \/ Writer(c) \/ PingFallsDue(c) \/ HandshakeFallsLate(c)
    \/ PeerStalls(c)

LEMMA OthersStayCalm ==
  ASSUME TypeOK, OwnEntry, [Next]_vars, NEW c \in Conn, StepOf(c), NEW d \in Conn, d # c
  PROVE  Calm(d)
<1> DEFINE Same == /\ hand'[d] = hand[d] /\ owed'[d] = owed[d] /\ reply'[d] = reply[d]
                   /\ stage'[d] = stage[d] /\ queue'[d] = queue[d]
                   /\ receiver'[d] = receiver[d]
<1>0. /\ hand \in [Conn -> Seq(Message)] /\ owed \in [Conn -> Seq(Message)]
      /\ reply \in [Conn -> Seq(Message)] /\ stage \in [Conn -> Stages]
      /\ queue \in [Conn -> Seq(Message)]
      /\ receiver \in [Conn -> {"unopened", "live", "dropped"}]
  BY DEF TypeOK, ControlTypeOK, BuffersTypeOK, TableTypeOK, Conn
<1>1. CASE Dial(c) \/ Accept(c)
  <2>1. PICK a, o : Spawn(c, a, o)
    BY <1>1 DEF Dial, Accept
  <2> QED
    BY <1>0, <2>1 DEF Spawn, GoTo, Calm, HasSender, tableVars, loopVars, writerVars, history
<1>2. ASSUME Same PROVE Calm(d)
  <2>1. ~ Open(d)
    BY <1>0, <1>2 DEF Open, At, GoTo
  <2>2. HasSender(d)' => HasSender(d)
    BY <2>1, SenderStays
  <2> QED
    BY <1>2, <2>2 DEF Calm
<1>3. CASE NoPeerAddr(c) \/ Open(c) \/ SetUp(c) \/ SetUpFails(c) \/ Join(c)
  <2>1. Same
    BY <1>0, <1>3
    DEF NoPeerAddr, Open, register, SetUp, SetUpFails, drop_receiver, Join, NotReading, GoTo,
        tableVars, loopVars, writerVars, history
  <2> QED
    BY <1>2, <2>1
<1>4. CASE Read(c) \/ CheckHandshake(c) \/ BadFrame(c) \/ ParsedAll(c) \/ HandlePong(c)
  <2>1. Same
    BY <1>0, <1>4
    DEF Read, ReadData, ReadNothing, ReadEof, ReadFails, CheckHandshake, BadFrame, ParsedAll,
        HandlePong, NotReading, RecordThen, GoTo, tableVars, loopVars, writerVars
  <2> QED
    BY <1>2, <2>1
<1>5. CASE HandleVersion(c) \/ HandleVerack(c) \/ HandleOutOfTurn(c) \/ HandlePing(c)
  <2>1. Same
    BY <1>0, <1>5
    DEF HandleVersion, HandleVerack, HandleOutOfTurn, HandlePing, Promise, advance_handshake,
        NotReading, RecordThen, GoTo, tableVars, loopVars, writerVars
  <2> QED
    BY <1>2, <2>1
<1>6. CASE Deliver(c)
  <2>1. Reaches(pid[c]) => peers[pid[c]].outbound = c
    BY DEF Reaches, OwnEntry
  <2>2. Same
    BY <1>0, <1>6, <2>1 DEF Deliver, send_to, NotReading, GoTo, loopVars, writerVars
  <2> QED
    BY <1>2, <2>2
<1>7. CASE Release(c) \/ Unwind(c)
  <2>1. Same
    BY <1>0, <1>7 DEF Release, Unwind, remove, LeaveReadLoop, GoTo, writerVars
  <2> QED
    BY <1>2, <2>1
<1>8. CASE Writer(c)
  <2>1. Same
    BY <1>0, <1>8
    DEF Writer, WriteOpening, WritePing, SkipPing, Receive, recv, ReceiveTimeout, WriteQueued,
        WriteFails, Disconnected, LeaveWriteLoop, drop_receiver, ShutDown, NotWriting,
        tableVars, loopVars
  <2> QED
    BY <1>2, <2>1
<1>9. CASE PingFallsDue(c) \/ HandshakeFallsLate(c) \/ PeerStalls(c)
  <2>1. Same
    BY <1>9 DEF PingFallsDue, HandshakeFallsLate, PeerStalls, tableVars, loopVars, writerVars, history
  <2> QED
    BY <1>2, <2>1
<1> QED
  BY <1>1, <1>3, <1>4, <1>5, <1>6, <1>7, <1>8, <1>9 DEF StepOf, Reader, Handle

\* The steps by which a connection takes on or settles a debt.
Settles(c) ==
  \/ Open(c) \/ SetUpFails(c) \/ HandleVersion(c) \/ HandlePing(c) \/ Deliver(c)
  \/ Receive(c) \/ WriteQueued(c) \/ WriteFails(c) \/ Disconnected(c)

LEMMA OwnCalm ==
  ASSUME TypeOK, [Next]_vars, NEW c \in Conn, StepOf(c), ~ Settles(c)
  PROVE  Calm(c)
<1>0. stage \in [Conn -> Stages] /\ reply \in [Conn -> Seq(Message)]
  BY DEF TypeOK, ControlTypeOK, BuffersTypeOK
<1>1. HasSender(c)' => HasSender(c)
  BY SenderStays DEF Settles
<1>2. CASE Dial(c) \/ Accept(c)
  <2>1. PICK a, o : Spawn(c, a, o)
    BY <1>2 DEF Dial, Accept
  <2> QED
    BY <1>0, <1>1, <2>1
    DEF Spawn, At, GoTo, Calm, tableVars, loopVars, writerVars, history
<1>3. CASE NoPeerAddr(c) \/ SetUp(c) \/ Join(c)
  BY <1>0, <1>1, <1>3
  DEF NoPeerAddr, SetUp, Join, NotReading, At, GoTo, Calm, tableVars, loopVars, writerVars, history,
      Unstarted, InReadLoop
<1>4. CASE Read(c) \/ CheckHandshake(c) \/ BadFrame(c) \/ ParsedAll(c) \/ HandlePong(c)
  <2>1. /\ hand' = hand /\ queue' = queue /\ owed' = owed /\ receiver' = receiver
        /\ reply' = reply
    BY <1>4
    DEF Read, ReadData, ReadNothing, ReadEof, ReadFails, CheckHandshake, BadFrame, ParsedAll,
        HandlePong, NotReading, tableVars, loopVars, writerVars
  <2>2. /\ stage[c] \in InReadLoop \ {"replying"}
        /\ stage'[c] \in {"framed", "checking", "dropping", "unwinding", "reading", "parsing"}
    BY <1>0, <1>4
    DEF Read, ReadData, ReadNothing, ReadEof, ReadFails, CheckHandshake, BadFrame, ParsedAll,
        HandlePong, RecordThen, GoTo, At, Framed, InReadLoop
  <2> QED
    BY <1>1, <2>1, <2>2 DEF Calm, Unstarted, InReadLoop
<1>5. CASE HandleVerack(c) \/ HandleOutOfTurn(c)
  <2>1. /\ hand' = hand /\ queue' = queue /\ owed' = owed /\ receiver' = receiver
        /\ reply' = reply
    BY <1>5 DEF HandleVerack, HandleOutOfTurn, advance_handshake, NotReading, writerVars
  <2>2. /\ stage[c] \in InReadLoop \ {"replying"}
        /\ stage'[c] \in {"parsing", "dropping", "unwinding"}
    BY <1>0, <1>5 DEF HandleVerack, HandleOutOfTurn, RecordThen, GoTo, At, Framed, InReadLoop
  <2> QED
    BY <1>1, <2>1, <2>2 DEF Calm, Unstarted, InReadLoop
<1>6. CASE Release(c) \/ Unwind(c)
  BY <1>0, <1>1, <1>6
  DEF Release, Unwind, remove, LeaveReadLoop, GoTo, writerVars, Calm, Unstarted, InReadLoop
<1>7. CASE WriteOpening(c) \/ WritePing(c) \/ SkipPing(c) \/ ReceiveTimeout(c) \/ ShutDown(c)
  BY <1>1, <1>7
  DEF WriteOpening, WritePing, SkipPing, ReceiveTimeout, ShutDown, NotWriting, tableVars,
      loopVars, Calm
<1>8. CASE PingFallsDue(c) \/ HandshakeFallsLate(c) \/ PeerStalls(c)
  BY <1>1, <1>8
  DEF PingFallsDue, HandshakeFallsLate, PeerStalls, tableVars, loopVars, writerVars, history, Calm
<1> QED
  BY <1>2, <1>3, <1>4, <1>5, <1>6, <1>7, <1>8 DEF StepOf, Reader, Handle, Writer, Settles

LEMMA OneMessage ==
  ASSUME NEW s \in Seq(Message), Len(s) = 1
  PROVE  s[1] \in Message /\ s = <<s[1]>>
<1>1. s[1] \in Message
  BY ElementOfSeq
<1>2. <<s[1]>> \in Seq(Message) /\ Len(<<s[1]>>) = 1 /\ <<s[1]>>[1] = s[1]
  BY <1>1
<1> QED
  BY <1>1, <1>2, SeqEqual

\* What the writer has, from its hand on, and the same with one more behind.
Kept(h, q) == h \o q

KeptAnd(h, q, m) == h \o Append(q, m)

LEMMA KeptMore ==
  ASSUME NEW h \in Seq(Message), NEW q \in Seq(Message), NEW m \in Message
  PROVE  /\ Kept(h, q) \in Seq(Message) /\ KeptAnd(h, q, m) \in Seq(Message)
         /\ Len(KeptAnd(h, q, m)) = Len(Kept(h, q)) + 1
         /\ \A k \in 1 .. Len(Kept(h, q)) : KeptAnd(h, q, m)[k] = Kept(h, q)[k]
         /\ KeptAnd(h, q, m)[Len(KeptAnd(h, q, m))] = m
<1> DEFINE r == Append(q, m)
<1>1. /\ r \in Seq(Message) /\ Len(r) = Len(q) + 1 /\ r[Len(q) + 1] = m
      /\ \A k \in 1 .. Len(q) : r[k] = q[k]
  BY AppendProperties
<1> HIDE DEF r
<1>2. /\ h \o q \in Seq(Message) /\ Len(h \o q) = Len(h) + Len(q)
      /\ \A k \in 1 .. Len(h) + Len(q) : (h \o q)[k] = IF k <= Len(h) THEN h[k] ELSE q[k - Len(h)]
  BY ConcatProperties
<1>3. /\ h \o r \in Seq(Message) /\ Len(h \o r) = Len(h) + Len(q) + 1
      /\ \A k \in 1 .. Len(h) + Len(q) + 1 :
           (h \o r)[k] = IF k <= Len(h) THEN h[k] ELSE r[k - Len(h)]
  <2>1. /\ h \o r \in Seq(Message) /\ Len(h \o r) = Len(h) + Len(r)
        /\ \A k \in 1 .. Len(h) + Len(r) : (h \o r)[k] = IF k <= Len(h) THEN h[k] ELSE r[k - Len(h)]
    BY <1>1, ConcatProperties
  <2>2. Len(h) + Len(r) = Len(h) + Len(q) + 1
    BY <1>1
  <2> QED
    BY <2>1, <2>2
<1>4. Len(h) \in Nat /\ Len(q) \in Nat
  OBVIOUS
<1>5. ASSUME NEW k \in 1 .. Len(h) + Len(q) PROVE (h \o r)[k] = (h \o q)[k]
  <2>1. k > Len(h) => k - Len(h) \in 1 .. Len(q)
    BY <1>4
  <2> QED
    BY <1>1, <1>2, <1>3, <1>4, <2>1
<1>6. (h \o r)[Len(h) + Len(q) + 1] = m
  <2>1. /\ Len(h) + Len(q) + 1 \in 1 .. Len(h) + Len(q) + 1
        /\ ~ (Len(h) + Len(q) + 1 <= Len(h))
        /\ (Len(h) + Len(q) + 1) - Len(h) = Len(q) + 1
    BY <1>4
  <2> QED
    BY <1>1, <1>3, <2>1
<1>7. Kept(h, q) = h \o q /\ KeptAnd(h, q, m) = h \o r
  BY DEF Kept, KeptAnd, r
<1> QED
  BY <1>2, <1>3, <1>5, <1>6, <1>7

\* A reader that promises a reply owes it.
LEMMA PromiseKeepsDebt ==
  ASSUME TypeOK, [Next]_vars, NEW c \in Conn, HandleVersion(c) \/ HandlePing(c), DebtOf(c)
  PROVE  DebtOf(c)'
<1> DEFINE kept == hand[c] \o queue[c]
<1>0. /\ reply \in [Conn -> Seq(Message)] /\ owed \in [Conn -> Seq(Message)]
      /\ stage \in [Conn -> Stages]
      /\ hand[c] \in Seq(Message) /\ queue[c] \in Seq(Message)
  BY DEF TypeOK, ControlTypeOK, BuffersTypeOK, TableTypeOK, Conn
<1>1. PICK m \in Message : m # Block /\ Promise(c, m)
  <2>1. Verack # Block /\ \A n : Pong(n) # Block
    <3>1. Verack.type = "verack" /\ Block.type = "block" /\ \A n : Pong(n).type = "pong"
      BY DEF Verack, Block, Pong
    <3> QED
      BY <3>1
  <2> QED
    BY <2>1, OwnMessages DEF HandleVersion, HandlePing
<1>2. reply'[c] = <<m>> /\ owed'[c] = Append(owed[c], m)
  BY <1>0, <1>1 DEF Promise
<1>3. hand' = hand /\ queue' = queue /\ receiver' = receiver
  BY DEF HandleVersion, HandlePing, advance_handshake, NotReading, tableVars, writerVars
<1>4. stage[c] \in {"framed", "parsing"} /\ stage'[c] \in {"replying", "unwinding"}
  BY <1>0 DEF HandleVersion, HandlePing, Framed, At, RecordThen, GoTo
<1>5. HasSender(c)' => HasSender(c)
  <2>1. ~ Open(c)
    BY <1>4 DEF Open, At
  <2> QED
    BY <2>1, SenderStays
<1>6. kept \in Seq(Message)
  BY <1>0, ConcatProperties
<1>7. /\ reply[c] = <<>> /\ OldestOwed(kept, owed[c])
      /\ HasSender(c) /\ receiver[c] = "live" => AllOwed(kept, <<>>, owed[c])
  BY <1>4 DEF DebtOf, InReadLoop
<1>8. /\ receiver[c] # "live" => hand[c] = <<>> /\ queue[c] = <<>>
      /\ Len(hand[c]) <= 1
  BY DEF DebtOf
<1> HIDE DEF kept
<1>9. /\ OldestOwed(kept, owed'[c])
      /\ HasSender(c) /\ receiver[c] = "live" => AllOwed(kept, reply'[c], owed'[c])
  BY <1>0, <1>2, <1>6, <1>7, OweMore
<1>10. kept = hand'[c] \o queue'[c]
  BY <1>3 DEF kept
<1>11. /\ stage'[c] \notin Unstarted \cup (InReadLoop \ {"replying"})
       /\ \E r \in Message : r # Block /\ reply'[c] = <<r>>
  BY <1>1, <1>2, <1>4 DEF Unstarted, InReadLoop
<1> QED
  BY <1>3, <1>5, <1>8, <1>9, <1>10, <1>11 DEF DebtOf

\* A reply that is delivered goes from the reader to the end of the queue,
\* and one that is refused ends the loop.
LEMMA DeliverKeepsDebt ==
  ASSUME TypeOK, OwnEntry, [Next]_vars, NEW c \in Conn, Deliver(c), DebtOf(c)
  PROVE  DebtOf(c)'
<1> DEFINE kept == hand[c] \o queue[c]
<1>0. /\ reply \in [Conn -> Seq(Message)] /\ owed \in [Conn -> Seq(Message)]
      /\ stage \in [Conn -> Stages] /\ queue \in [Conn -> Seq(Message)]
      /\ hand[c] \in Seq(Message) /\ queue[c] \in Seq(Message)
  BY DEF TypeOK, ControlTypeOK, BuffersTypeOK, TableTypeOK, Conn
<1>1. /\ hand' = hand /\ receiver' = receiver /\ owed' = owed /\ stage[c] = "replying"
      /\ reply'[c] = <<>>
  BY <1>0 DEF Deliver, send_to, NotReading, writerVars, At
<1>2. PICK m \in Message : m # Block /\ reply[c] = <<m>>
  BY <1>1 DEF DebtOf
<1>3. /\ receiver[c] # "live" => hand[c] = <<>> /\ queue[c] = <<>>
      /\ Len(hand[c]) <= 1
      /\ OldestOwed(kept, owed[c])
  BY DEF DebtOf
<1>4. CASE Reaches(pid[c])
  <2>1. peers[pid[c]].outbound = c /\ pid[c] \in DOMAIN peers /\ receiver[c] = "live"
    BY <1>4 DEF Reaches, OwnEntry, Accepts
  <2>2. AllOwed(kept, <<m>>, owed[c])
    BY <1>1, <1>2, <2>1 DEF DebtOf, InReadLoop, HasSender
  <2>3. Head(reply[c]) = m
    BY <1>2
  <2>4. queue'[c] = Append(queue[c], m) /\ stage'[c] = "parsing"
    BY <1>0, <1>4, <2>1, <2>3 DEF Deliver, send_to, GoTo
  <2> DEFINE more == hand[c] \o Append(queue[c], m)
  <2>5. /\ kept \in Seq(Message) /\ more \in Seq(Message) /\ Len(more) = Len(kept) + 1
        /\ \A k \in 1 .. Len(kept) : more[k] = kept[k]
        /\ more[Len(more)] = m
    <3>1. /\ hand[c] \in Seq(Message) /\ queue[c] \in Seq(Message)
          /\ kept = Kept(hand[c], queue[c]) /\ more = KeptAnd(hand[c], queue[c], m)
      BY <1>0 DEF Kept, KeptAnd
    <3> HIDE DEF kept, more
    <3> QED
      BY <3>1, KeptMore, ZenonT(60)
  <2>6. hand'[c] \o queue'[c] = more
    BY <1>1, <2>4
  <2> HIDE DEF more, kept
  <2>7. OldestOwed(more, owed[c]) /\ AllOwed(more, <<>>, owed[c])
    <3>1. owed[c] \in Seq(Message) /\ <<more[Len(more)]>> = <<m>>
      BY <1>0, <2>5
    <3> QED
      BY <1>2, <1>3, <2>2, <2>5, <3>1, QueueMore
  <2> QED
    BY <1>1, <1>3, <2>1, <2>4, <2>6, <2>7 DEF DebtOf, Unstarted
<1>5. CASE ~ Reaches(pid[c])
  <2>1. queue' = queue /\ stage'[c] = "dropping"
    BY <1>0, <1>5 DEF Deliver, send_to, GoTo
  <2> QED
    BY <1>1, <1>3, <2>1 DEF DebtOf, Unstarted, InReadLoop
<1> QED
  BY <1>4, <1>5

\* Registering, failing to set up, taking a message from the queue, writing
\* it, and leaving the write loop with all that is left.
LEMMA ChannelKeepsDebt ==
  ASSUME TypeOK, GuardInv, [Next]_vars, NEW c \in Conn, DebtOf(c),
         \/ Open(c) \/ SetUpFails(c) \/ Receive(c) \/ WriteQueued(c)
         \/ WriteFails(c) \/ Disconnected(c)
  PROVE  DebtOf(c)'
<1> DEFINE kept == hand[c] \o queue[c]
<1>0. /\ reply \in [Conn -> Seq(Message)] /\ owed \in [Conn -> Seq(Message)]
      /\ stage \in [Conn -> Stages] /\ queue \in [Conn -> Seq(Message)]
      /\ hand \in [Conn -> Seq(Message)] /\ hand[c] \in Seq(Message) /\ queue[c] \in Seq(Message)
      /\ owed[c] \in Seq(Message) /\ reply[c] \in Seq(Message)
      /\ receiver \in [Conn -> {"unopened", "live", "dropped"}]
      /\ hand[c] = <<>> <=> writer[c] # "writing"
  BY DEF TypeOK, ControlTypeOK, BuffersTypeOK, TableTypeOK, Conn
<1>1. /\ OldestOwed(kept, owed[c]) /\ Len(hand[c]) <= 1
      /\ stage[c] \in InReadLoop /\ HasSender(c) /\ receiver[c] = "live"
           => AllOwed(kept, reply[c], owed[c])
      /\ stage[c] \in Unstarted => owed[c] = <<>>
      /\ stage[c] \in Unstarted \cup (InReadLoop \ {"replying"}) => reply[c] = <<>>
      /\ stage[c] = "replying" => \E m \in Message : m # Block /\ reply[c] = <<m>>
  BY DEF DebtOf
<1>2. ASSUME hand'[c] = <<>>, queue'[c] = <<>>
      PROVE  OldestOwed(hand'[c] \o queue'[c], owed'[c]) /\ Len(hand'[c]) <= 1
  <2>1. hand'[c] \o queue'[c] = <<>> /\ Len(hand'[c]) = 0
    BY <1>2
  <2> QED
    BY <2>1, NothingKept
<1>3. CASE Open(c)
  <2>1. /\ receiver[c] = "unopened" /\ queue' = queue /\ hand' = hand /\ reply' = reply
        /\ owed' = owed /\ stage[c] = "spawned" /\ stage'[c] \in {"setup", "done"}
    BY <1>0, <1>3 DEF Open, register, At, GoTo, loopVars, writerVars, history
  <2>2. hand[c] = <<>> /\ queue[c] = <<>> /\ owed[c] = <<>> /\ reply[c] = <<>>
    BY <1>1, <2>1 DEF DebtOf, Unstarted
  <2> QED
    BY <1>2, <2>1, <2>2 DEF DebtOf, Unstarted, InReadLoop
<1>4. CASE SetUpFails(c)
  <2>1. /\ hand' = hand /\ queue'[c] = <<>> /\ stage[c] = "setup" /\ stage'[c] = "unwinding"
    BY <1>0, <1>4 DEF SetUpFails, drop_receiver, At, GoTo
  <2>2. hand[c] = <<>>
    BY <1>0, <2>1 DEF GuardInv
  <2> QED
    BY <1>2, <2>1, <2>2 DEF DebtOf, Unstarted, InReadLoop
<1>5. CASE Receive(c)
  <2>1. /\ receiver[c] = "live" /\ receiver' = receiver /\ queue[c] # <<>> /\ hand[c] = <<>>
        /\ queue'[c] = Tail(queue[c]) /\ hand'[c] = <<Head(queue[c])>>
        /\ owed' = owed /\ reply' = reply /\ stage' = stage /\ peers' = peers
    BY <1>0, <1>5 DEF Receive, recv, WriterAt, NotWriting, loopVars
  <2>2. /\ <<Head(queue[c])>> \o Tail(queue[c]) = queue[c] /\ kept = queue[c]
        /\ Len(<<Head(queue[c])>>) = 1
    BY <1>0, <2>1
  <2>3. hand'[c] \o queue'[c] = kept /\ Len(hand'[c]) <= 1
    BY <2>1, <2>2
  <2>4. HasSender(c)' => HasSender(c)
    BY <2>1 DEF HasSender
  <2> HIDE DEF kept
  <2> QED
    BY <1>1, <2>1, <2>3, <2>4 DEF DebtOf
<1>6. CASE WriteQueued(c)
  <2>1. /\ writer[c] = "writing" /\ hand'[c] = <<>>
        /\ owed'[c] = IF hand[c] = <<Block>> \/ owed[c] = <<>> THEN owed[c] ELSE Tail(owed[c])
        /\ UNCHANGED <<tableVars, stage, reply>>
    BY <1>0, <1>6 DEF WriteQueued, WriterAt, NotWriting, loopVars
  <2>2. PICK m \in Message : hand[c] = <<m>>
    <3>1. Len(hand[c]) \in Nat \ {0}
      BY <1>0, <2>1, EmptySeq
    <3>2. hand[c] = <<hand[c][1]>> /\ hand[c][1] \in Message
      <4>1. Len(hand[c]) <= 1
        BY <1>1
      <4>2. \A n \in Nat \ {0} : n <= 1 => n = 1
        OBVIOUS
      <4>3. Len(hand[c]) = 1
        BY <3>1, <4>1, <4>2, Zenon
      <4> QED
        BY <1>0, <4>3, OneMessage
    <3> QED
      BY <3>2
  <2>3. /\ kept \in Seq(Message) /\ Len(kept) = Len(queue[c]) + 1 /\ kept[1] = m
        /\ \A k \in 1 .. Len(queue[c]) : queue[c][k] = kept[k + 1]
    <3>1. <<m>> \in Seq(Message) /\ Len(<<m>>) = 1 /\ <<m>>[1] = m /\ kept = <<m>> \o queue[c]
      BY <2>2
    <3>2. /\ kept \in Seq(Message) /\ Len(kept) = 1 + Len(queue[c])
          /\ \A i \in 1 .. 1 + Len(queue[c]) :
               kept[i] = IF i <= 1 THEN <<m>>[i] ELSE queue[c][i - 1]
      BY <1>0, <3>1, ConcatProperties
    <3>3. Len(queue[c]) \in Nat
      BY <1>0
    <3> HIDE DEF kept
    <3>4. kept[1] = m
      BY <3>1, <3>2, <3>3
    <3>5. ASSUME NEW k \in 1 .. Len(queue[c]) PROVE queue[c][k] = kept[k + 1]
      <4>1. k + 1 \in 1 .. 1 + Len(queue[c]) /\ ~ (k + 1 <= 1) /\ (k + 1) - 1 = k
        BY <3>3
      <4> QED
        BY <3>2, <4>1
    <3> QED
      BY <3>2, <3>3, <3>4, <3>5
  <2>4. hand'[c] \o queue'[c] = queue[c] /\ Len(hand'[c]) <= 1
    <3>1. queue'[c] = queue[c] /\ <<>> \o queue[c] = queue[c] /\ Len(<<>>) = 0
      BY <1>0, <2>1 DEF tableVars
    <3> QED
      BY <2>1, <3>1
  <2> HIDE DEF kept
  <2>5. /\ OldestOwed(queue[c], owed'[c])
        /\ AllOwed(kept, reply[c], owed[c]) => AllOwed(queue[c], reply[c], owed'[c])
    <3>0. /\ m = Block =>
               /\ OldestOwed(queue[c], owed[c])
               /\ \A rest : AllOwed(kept, rest, owed[c]) => AllOwed(queue[c], rest, owed[c])
          /\ m # Block =>
               /\ owed[c] # <<>> /\ OldestOwed(queue[c], Tail(owed[c]))
               /\ \A rest \in Seq(Message) :
                    AllOwed(kept, rest, owed[c]) => AllOwed(queue[c], rest, Tail(owed[c]))
      <4>1. /\ kept \in Seq(Message) /\ queue[c] \in Seq(Message) /\ owed[c] \in Seq(Message)
            /\ OldestOwed(kept, owed[c])
        BY <1>0, <1>1, <2>3
      <4> QED
        BY <2>3, <4>1, TakeFirst
    <3>1. CASE m = Block
      <4>1. owed'[c] = owed[c]
        BY <2>1, <2>2, <3>1
      <4> QED
        BY <3>0, <3>1, <4>1
    <3>2. CASE m # Block
      <4>1. hand[c] # <<Block>>
        BY <2>2, <3>2
      <4>2. owed[c] # <<>>
        BY <3>0, <3>2
      <4>3. owed'[c] = Tail(owed[c])
        BY <2>1, <4>1, <4>2
      <4> QED
        BY <1>0, <3>0, <3>2, <4>3
    <3> QED
      BY <3>1, <3>2
  <2>6. receiver[c] # "live" => hand[c] = <<>>
    BY DEF DebtOf
  <2>7. receiver'[c] = "live" /\ (HasSender(c)' => HasSender(c))
    BY <1>0, <2>1, <2>6 DEF tableVars, HasSender
  <2>8. stage'[c] \in Unstarted => owed'[c] = <<>>
    BY <1>1, <2>1
  <2>9. stage' = stage /\ reply' = reply
    BY <2>1
  <2>10. stage'[c] \in InReadLoop /\ HasSender(c)' /\ receiver'[c] = "live"
           => AllOwed(queue[c], reply'[c], owed'[c])
    <3>1. receiver[c] = "live"
      BY <2>2, <2>6
    <3> QED
      BY <1>1, <2>5, <2>7, <2>9, <3>1
  <2>11. /\ stage'[c] \in Unstarted \cup (InReadLoop \ {"replying"}) => reply'[c] = <<>>
         /\ stage'[c] = "replying" => \E r \in Message : r # Block /\ reply'[c] = <<r>>
    BY <1>1, <2>9
  <2> QED
    BY <2>4, <2>5, <2>7, <2>8, <2>10, <2>11 DEF DebtOf
<1>7. CASE WriteFails(c) \/ Disconnected(c)
  <2>1. /\ hand'[c] = <<>> /\ queue'[c] = <<>> /\ owed'[c] = <<>> /\ receiver'[c] = "dropped"
        /\ stage' = stage /\ reply' = reply
    BY <1>0, <1>7
    DEF WriteFails, Disconnected, LeaveWriteLoop, drop_receiver, NotWriting, loopVars
  <2> QED
    BY <1>1, <1>2, <2>1 DEF DebtOf
<1> QED
  BY <1>3, <1>4, <1>5, <1>6, <1>7

\* A broadcast queues no answer.
LEMMA BroadcastKeepsDebt ==
  ASSUME TypeOK, NEW c \in Conn, Broadcast, DebtOf(c)
  PROVE  DebtOf(c)'
<1> DEFINE kept == hand[c] \o queue[c]
           more == hand[c] \o Append(queue[c], Block)
<1>0. /\ hand[c] \in Seq(Message) /\ queue[c] \in Seq(Message) /\ owed[c] \in Seq(Message)
      /\ peers \in [DOMAIN peers -> PeerHandle] /\ Block \in Message
  BY OwnMessages DEF TypeOK, BuffersTypeOK, TableTypeOK, Conn
<1>1. /\ hand' = hand /\ receiver' = receiver /\ owed' = owed /\ stage' = stage /\ reply' = reply
      /\ queue'[c] = IF Accepts(c) /\ HasSender(c) THEN Append(queue[c], Block) ELSE queue[c]
  BY DEF Broadcast, broadcast, loopVars, writerVars, history, Conn
<1>2. HasSender(c)' => HasSender(c)
  BY DEF Broadcast, broadcast, Without, Restrict, HasSender
<1>3. CASE Accepts(c) /\ HasSender(c)
  <2>1. /\ kept \in Seq(Message) /\ more \in Seq(Message) /\ Len(more) = Len(kept) + 1
        /\ \A k \in 1 .. Len(kept) : more[k] = kept[k]
        /\ more[Len(more)] = Block
    <3>1. /\ hand[c] \in Seq(Message) /\ queue[c] \in Seq(Message) /\ Block \in Message
          /\ kept = Kept(hand[c], queue[c]) /\ more = KeptAnd(hand[c], queue[c], Block)
      BY <1>0 DEF Kept, KeptAnd
    <3> HIDE DEF kept, more
    <3> QED
      BY <3>1, KeptMore, ZenonT(60)
  <2>2. OldestOwed(kept, owed[c])
    BY DEF DebtOf
  <2>3. hand'[c] \o queue'[c] = more /\ receiver[c] = "live"
    BY <1>1, <1>3 DEF Accepts
  <2>4. stage[c] \in InReadLoop /\ HasSender(c) /\ receiver[c] = "live"
          => AllOwed(kept, reply[c], owed[c])
    BY DEF DebtOf
  <2> HIDE DEF kept, more
  <2>5. OldestOwed(more, owed[c]) /\ \A rest : AllOwed(kept, rest, owed[c]) => AllOwed(more, rest, owed[c])
    BY <1>0, <2>1, <2>2, QueueMore
  <2> QED
    BY <1>1, <1>2, <2>3, <2>4, <2>5 DEF DebtOf
<1>4. CASE ~ (Accepts(c) /\ HasSender(c))
  <2>1. Calm(c)
    BY <1>1, <1>2, <1>4 DEF Calm
  <2> QED
    BY <2>1, CalmKeepsDebt
<1> QED
  BY <1>3, <1>4

LEMMA DebtStep ==
  ASSUME TypeOK, GuardInv, OwnEntry, DebtInv, [Next]_vars
  PROVE  DebtInv'
<1> SUFFICES ASSUME NEW d \in Conn PROVE DebtOf(d)'
  BY DEF DebtInv
<1>0. DebtOf(d)
  BY DEF DebtInv
<1>1. ASSUME NEW c \in Conn, StepOf(c) PROVE DebtOf(d)'
  <2>1. CASE d # c
    BY <1>0, <1>1, <2>1, OthersStayCalm, CalmKeepsDebt
  <2>2. CASE d = c /\ ~ Settles(c)
    BY <1>0, <1>1, <2>2, OwnCalm, CalmKeepsDebt
  <2>3. CASE d = c /\ Settles(c)
    BY <1>0, <2>3, PromiseKeepsDebt, DeliverKeepsDebt, ChannelKeepsDebt DEF Settles
  <2> QED
    BY <2>1, <2>2, <2>3
<1>2. CASE Broadcast
  BY <1>0, <1>2, BroadcastKeepsDebt
<1>3. CASE DialFails \/ Quiet \/ UNCHANGED vars
  <2>1. Calm(d)
    BY <1>3
    DEF DialFails, Quiet, vars, tableVars, loopVars, writerVars, history, Calm, HasSender
  <2> QED
    BY <1>0, <2>1, CalmKeepsDebt
<1> QED
  BY <1>1, <1>2, <1>3 DEF Next, StepOf

\* Every answer that a peer is owed is written in the order of its questions,
\* and none is lost or doubled while both halves of the connection live
\* (deliver, send_to and write_loop of src/protocol.rs and src/node.rs).
THEOREM RepliesHold == Spec => []RepliesInOrder
<1>1. Init => DebtInv
  <2> SUFFICES ASSUME Init, NEW c \in Conn PROVE DebtOf(c)
    BY DEF DebtInv
  <2>1. /\ hand[c] = <<>> /\ queue[c] = <<>> /\ owed[c] = <<>> /\ reply[c] = <<>>
        /\ stage[c] = "idle"
    BY DEF Init, TableInit, Conn
  <2>2. hand[c] \o queue[c] = <<>> /\ Len(hand[c]) = 0
    BY <2>1
  <2> QED
    BY <2>1, <2>2, NothingKept DEF DebtOf, InReadLoop
<1>2. TypeOK /\ GuardInv /\ OwnEntry /\ DebtInv /\ [Next]_vars => DebtInv'
  BY DebtStep
<1>3. DebtInv => RepliesInOrder
  BY DEF DebtInv, DebtOf, RepliesInOrder
<1> QED
  BY <1>1, <1>2, <1>3, TypeCorrect, OwnEntryHolds, PTL DEF Spec
=============================================================================
