--------------------------- MODULE LoopbackProofs ---------------------------
(***************************************************************************)
(* Two ends that run this code never find each other out of turn, and      *)
(* Ready is mutual, for every queue and wire capacity.                     *)
(*                                                                         *)
(* A run of Loopback is a run of Connections, so what is proved of         *)
(* connections holds here.  The invariant follows what one end says to the *)
(* other along its whole way, from the speaker's reader through its queue, *)
(* its writer and the wire to the listener's buffer: the version goes      *)
(* first and once, and there is one verack at most.                        *)
(***************************************************************************)
EXTENDS Loopback, LifecycleProofs

Type == {"version", "verack", "ping", "pong"}

Answer == {Verack} \cup {Pong(n) : n \in Nonce}

\* The stages of a reader that has left its loop.
Left == {"dropping", "unwinding", "joining", "done"}

Has(s, x) == \E i \in DOMAIN s : s[i] = x

Once(s, x) == \A i, j \in DOMAIN s : s[i] = x /\ s[j] = x => i = j

\* What an end has been sent and has not handled.
Ahead(c) == recv_buffer[c] \o wire[Other(c)]

Complete(c) == greeted[c] = <<"Version", "Verack">>

\* The shapes of what is on its way.
WayTypeOK ==
  /\ wire \in [Conn -> Seq(Type)] /\ recv_buffer \in [Conn -> Seq(Type)]
  /\ hand \in [Conn -> Seq(Answer)] /\ queue \in [Conn -> Seq(Answer)]
  /\ reply \in [Conn -> Seq(Answer)]

\* To an end that has heard nothing the version comes first, and to none does
\* it come twice.
VersionFirst(c) ==
  /\ writer[Other(c)] \in {"none", "opening"} => Ahead(c) = <<>> /\ greeted[c] = <<>>
  /\ stage[c] \notin Left =>
       /\ greeted[c] = <<>> /\ Ahead(c) # <<>>
            => Head(Ahead(c)) = "version" /\ Once(Ahead(c), "version")
       /\ greeted[c] # <<>> => ~ Has(Ahead(c), "version")
       /\ writer[Other(c)] \in {"top", "recv", "writing"}
            => Ahead(c) # <<>> \/ greeted[c] # <<>>

\* There is one verack at most between the reader that promises it and the
\* reader that accepts it, and none before a version was accepted.
OneVerack(c) ==
  LET o == Other(c)
      a == Has(Ahead(c), "verack")
      h == Has(hand[o], Verack)
      q == Has(queue[o], Verack)
      r == Has(reply[o], Verack)
      g == Complete(c)
  IN  /\ Once(Ahead(c), "verack") /\ Once(queue[o], Verack)
      /\ a => ~ (h \/ q \/ r \/ g)
      /\ h => ~ (q \/ r \/ g)
      /\ q => ~ (r \/ g)
      /\ r => ~ g
      /\ stage[o] \notin Left /\ greeted[o] = <<>> => ~ (a \/ h \/ q \/ r \/ g)

WayInv == WayTypeOK /\ \A c \in Conn : VersionFirst(c) /\ OneVerack(c)

-----------------------------------------------------------------------------
(* Sequences on the way.                                                   *)

\* Nothing is in the empty sequence, and what is in a sequence is at its
\* head or behind it.
LEMMA HasNothing == \A x : ~ Has(<<>>, x) /\ Once(<<>>, x)
<1>1. DOMAIN <<>> = {}
  OBVIOUS
<1> QED BY <1>1 DEF Has, Once

LEMMA HasOne == \A x, y : (Has(<<y>>, x) <=> y = x) /\ Once(<<y>>, x)
<1> SUFFICES ASSUME NEW x, NEW y PROVE (Has(<<y>>, x) <=> y = x) /\ Once(<<y>>, x)
  OBVIOUS
<1>1. DOMAIN <<y>> = {1} /\ <<y>>[1] = y
  OBVIOUS
<1> QED BY <1>1 DEF Has, Once

LEMMA HasTail ==
  ASSUME NEW S, NEW s \in Seq(S), s # <<>>, NEW x
  PROVE  /\ Has(s, x) <=> Head(s) = x \/ Has(Tail(s), x)
         /\ Once(s, x) => Once(Tail(s), x)
         /\ Once(s, x) /\ Head(s) = x => ~ Has(Tail(s), x)
<1>1. /\ DOMAIN s = 1 .. Len(s) /\ Len(s) \in Nat /\ Len(s) > 0 /\ Head(s) = s[1]
      /\ DOMAIN Tail(s) = 1 .. Len(s) - 1
      /\ \A i \in 1 .. Len(s) - 1 : Tail(s)[i] = s[i + 1]
  OBVIOUS
<1>2. Has(Tail(s), x) => Has(s, x)
  <2> SUFFICES ASSUME NEW i \in 1 .. Len(s) - 1, s[i + 1] = x PROVE Has(s, x)
    BY <1>1 DEF Has
  <2>1. i + 1 \in 1 .. Len(s)
    BY <1>1
  <2> QED BY <1>1, <2>1 DEF Has
<1>3. Has(s, x) => Head(s) = x \/ Has(Tail(s), x)
  <2> SUFFICES ASSUME NEW i \in 1 .. Len(s), s[i] = x, i # 1 PROVE Has(Tail(s), x)
    BY <1>1 DEF Has
  <2>1. i - 1 \in 1 .. Len(s) - 1 /\ (i - 1) + 1 = i
    BY <1>1
  <2> QED BY <1>1, <2>1 DEF Has
<1>4. Head(s) = x => Has(s, x)
  <2>1. 1 \in 1 .. Len(s)
    BY <1>1
  <2> QED BY <1>1, <2>1 DEF Has
<1>5. Once(s, x) => Once(Tail(s), x)
  <2> SUFFICES ASSUME Once(s, x), NEW i \in 1 .. Len(s) - 1, NEW j \in 1 .. Len(s) - 1,
                      s[i + 1] = x, s[j + 1] = x
               PROVE  i = j
    BY <1>1 DEF Once
  <2>1. i + 1 \in 1 .. Len(s) /\ j + 1 \in 1 .. Len(s)
    BY <1>1
  <2>2. i + 1 = j + 1
    BY <1>1, <2>1 DEF Once
  <2> QED BY <2>2
<1>6. Once(s, x) /\ Head(s) = x => ~ Has(Tail(s), x)
  <2> SUFFICES ASSUME Once(s, x), Head(s) = x, NEW i \in 1 .. Len(s) - 1, s[i + 1] = x
               PROVE  FALSE
    BY <1>1 DEF Has
  <2>1. i + 1 \in 1 .. Len(s) /\ 1 \in 1 .. Len(s) /\ i + 1 # 1
    BY <1>1
  <2> QED BY <1>1, <2>1 DEF Once
<1> QED BY <1>2, <1>3, <1>4, <1>5, <1>6

LEMMA HasAppend ==
  ASSUME NEW S, NEW s \in Seq(S), NEW y \in S, NEW x
  PROVE  /\ Has(Append(s, y), x) <=> Has(s, x) \/ y = x
         /\ Once(s, x) /\ ~ (Has(s, x) /\ y = x) => Once(Append(s, y), x)
         /\ Append(s, y) # <<>> /\ (s # <<>> => Head(Append(s, y)) = Head(s))
         /\ s = <<>> => Head(Append(s, y)) = y
<1> DEFINE t == Append(s, y)
           n == Len(s)
<1>1. /\ DOMAIN s = 1 .. n /\ n \in Nat /\ DOMAIN t = 1 .. n + 1
      /\ t[n + 1] = y /\ \A i \in 1 .. n : t[i] = s[i]
      /\ t # <<>> /\ (s # <<>> => Head(t) = Head(s)) /\ (s = <<>> => Head(t) = y)
  OBVIOUS
<1>2. \A i \in 1 .. n + 1 : i \in 1 .. n \/ i = n + 1
  BY <1>1
<1>3. \A i \in 1 .. n : i \in 1 .. n + 1
  BY <1>1
<1>4. n + 1 \in 1 .. n + 1
  BY <1>1
<1> HIDE DEF t, n
<1>5. Has(t, x) <=> Has(s, x) \/ y = x
  BY <1>1, <1>2, <1>3, <1>4 DEF Has
<1>6. Once(s, x) /\ ~ (Has(s, x) /\ y = x) => Once(t, x)
  BY <1>1, <1>2, <1>3 DEF Has, Once
<1> QED BY <1>1, <1>5, <1>6 DEF t

\* Two sequences joined: what the head, the tail and the back of them are, and
\* that it does not matter where they are cut.
LEMMA JoinedShape ==
  ASSUME NEW S, NEW a \in Seq(S), NEW b \in Seq(S)
  PROVE  /\ a \o b \in Seq(S)
         /\ a # <<>> => a \o b # <<>> /\ Head(a \o b) = Head(a) /\ Tail(a \o b) = Tail(a) \o b
         /\ \A x \in S : a \o Append(b, x) = Append(a \o b, x)
         /\ \A n \in 1 .. Len(b) :
              (a \o SubSeq(b, 1, n)) \o SubSeq(b, n + 1, Len(b)) = a \o b
<1>1. a \o b \in Seq(S)
  OBVIOUS
<1>2. a # <<>> => a \o b # <<>> /\ Head(a \o b) = Head(a) /\ Tail(a \o b) = Tail(a) \o b
  <2> SUFFICES ASSUME a # <<>>
               PROVE  a \o b # <<>> /\ Head(a \o b) = Head(a) /\ Tail(a \o b) = Tail(a) \o b
    OBVIOUS
  <2>1. a \o b # <<>> /\ Head(a \o b) = Head(a)
    OBVIOUS
  <2>2. Tail(a \o b) = Tail(a) \o b
    OBVIOUS
  <2> QED BY <2>1, <2>2
<1>3. \A x \in S : a \o Append(b, x) = Append(a \o b, x)
  OBVIOUS
<1>4. \A n \in 1 .. Len(b) : (a \o SubSeq(b, 1, n)) \o SubSeq(b, n + 1, Len(b)) = a \o b
  <2> SUFFICES ASSUME NEW n \in 1 .. Len(b)
               PROVE  (a \o SubSeq(b, 1, n)) \o SubSeq(b, n + 1, Len(b)) = a \o b
    OBVIOUS
  <2>1. PICK x \in Seq(S) : x = SubSeq(b, 1, n)
    <3>1. SubSeq(b, 1, n) \in Seq(S)
      OBVIOUS
    <3> QED BY <3>1
  <2>2. PICK y \in Seq(S) : y = SubSeq(b, n + 1, Len(b))
    <3>1. SubSeq(b, n + 1, Len(b)) \in Seq(S)
      OBVIOUS
    <3> QED BY <3>1
  <2>3. b = x \o y
    BY <2>1, <2>2
  <2>4. (a \o x) \o y = a \o (x \o y)
    BY ConcatAssociative, SMTT(60)
  <2> QED BY <2>1, <2>2, <2>3, <2>4
<1> QED BY <1>1, <1>2, <1>3, <1>4

-----------------------------------------------------------------------------
(* The two ends.                                                           *)

LEMMA TwoEnds ==
  \A c \in Conn : /\ Other(c) \in Conn /\ Other(c) # c /\ Other(Other(c)) = c
                  /\ \A d \in Conn : d = c \/ d = Other(c)
BY LoopbackAssumption DEF Other

\* A step of the two ends is a step of Connections.
LEMMA StepOfConnections == [LoopbackNext]_loopbackVars => [Next]_vars
<1>1. ASSUME Connect PROVE Next
  <2>1. Near \in Conn /\ Far \in Conn
    BY LoopbackAssumption
  <2> QED BY <1>1, <2>1 DEF Connect, Next
<1>2. ASSUME NEW c \in Conn, ReaderStep(c) \/ WriterStep(c) \/ Fault(c) PROVE Next
  <2>1. Reader(c) \/ Writer(c) \/ HandshakeFallsLate(c)
    BY <1>2
    DEF ReaderStep, Receives, ReceivesNothing, HandlesNext, OutOfTurn, WriterStep, Write,
        CannotWrite, Fault, Reader, Read, Handle, Writer
  <2> QED BY <2>1 DEF Next
<1>3. ASSUME Quiet PROVE Next
  BY <1>3 DEF Next
<1>4. UNCHANGED loopbackVars => UNCHANGED vars
  BY DEF loopbackVars
<1> QED BY <1>1, <1>2, <1>3, <1>4 DEF LoopbackNext

\* A run of the two ends is a run of Connections.
THEOREM LoopbackIsConnections == LoopbackSpec => Spec
<1>1. LoopbackInit => Init
  BY DEF LoopbackInit
<1> QED BY <1>1, StepOfConnections, PTL DEF LoopbackSpec, Spec

-----------------------------------------------------------------------------
(* What a step does to one way.                                            *)

\* The listener's reader moves.  It takes nothing, or the message ahead of
\* it: a version as the first, a verack after that, another one, or one for
\* which it gives up.
Hears(c) ==
  LET o == Other(c)
      took == stage[c] \notin Left /\ Ahead(c) # <<>> /\ Ahead(c)' = Tail(Ahead(c))
  IN  /\ UNCHANGED <<writer[o], hand[o], queue[o], reply[o], stage[o], greeted[o]>>
      /\ stage[c] \in Left => stage'[c] \in Left
      /\ \/ Ahead(c)' = Ahead(c) /\ UNCHANGED greeted[c]
         \/ Ahead(c)' = Ahead(c) /\ greeted'[c] = <<>> /\ stage[c] \in Left
         \/ /\ took /\ Head(Ahead(c)) = "version"
            /\ greeted[c] = <<>> /\ greeted'[c] = <<"Version">>
         \/ /\ took /\ Head(Ahead(c)) = "verack"
            /\ greeted[c] = <<"Version">> /\ greeted'[c] = <<"Version", "Verack">>
         \/ took /\ Head(Ahead(c)) \in {"ping", "pong"} /\ UNCHANGED greeted[c]
         \/ took /\ stage'[c] \in Left /\ UNCHANGED greeted[c]

Opened == {"top", "recv", "writing"}

\* The speaker moves, and what it has said is lost or stays.
Retains(c) ==
  LET o == Other(c)
  IN  /\ UNCHANGED Ahead(c)
      /\ \/ writer[o] \in {"none", "opening"} /\ writer'[o] \in {"none", "opening"}
         \/ writer[o] \in Opened /\ writer'[o] \in Opened
         \/ writer'[o] \in {"closing", "ended"}
      /\ UNCHANGED hand[o] \/ hand'[o] = <<>>
      /\ UNCHANGED queue[o] \/ queue'[o] = <<>>
      /\ UNCHANGED reply[o] \/ ~ Has(reply'[o], Verack)
      /\ greeted'[o] = <<>> => greeted[o] = <<>> \/ stage'[o] \in Left

\* It promises its verack, in answer to the first version.
Promises(c) ==
  LET o == Other(c)
  IN  /\ UNCHANGED <<Ahead(c), writer[o], hand[o], queue[o]>>
      /\ stage[o] \notin Left /\ greeted[o] = <<>> /\ greeted'[o] # <<>>

\* It queues a reply.
Queues(c) ==
  LET o == Other(c)
  IN  /\ UNCHANGED <<Ahead(c), writer[o], hand[o], greeted[o]>>
      /\ reply[o] # <<>> /\ reply'[o] = <<>>
      /\ queue'[o] = Append(queue[o], Head(reply[o]))

\* Its writer takes a reply from the queue.
Takes(c) ==
  LET o == Other(c)
  IN  /\ UNCHANGED <<Ahead(c), reply[o], greeted[o]>>
      /\ writer[o] \in Opened /\ writer'[o] \in Opened
      /\ hand[o] = <<>> /\ queue[o] # <<>>
      /\ hand'[o] = <<Head(queue[o])>> /\ queue'[o] = Tail(queue[o])

\* Its writer writes the opening, a ping, or the reply it holds.
Puts(c) ==
  LET o == Other(c)
  IN  /\ UNCHANGED <<queue[o], reply[o], greeted[o]>> /\ writer'[o] \in Opened
      /\ \/ /\ writer[o] = "opening" /\ UNCHANGED hand[o]
            /\ Ahead(c)' = Append(Ahead(c), "version")
         \/ /\ writer[o] \in Opened /\ UNCHANGED hand[o]
            /\ Ahead(c)' = Append(Ahead(c), "ping")
         \/ /\ writer[o] \in Opened /\ hand[o] # <<>> /\ hand'[o] = <<>>
            /\ Ahead(c)' = Append(Ahead(c), Head(hand[o]).type)

Says(c) ==
  /\ UNCHANGED <<stage[c], greeted[c]>>
  /\ stage[Other(c)] \in Left => stage'[Other(c)] \in Left
  /\ Retains(c) \/ Promises(c) \/ Queues(c) \/ Takes(c) \/ Puts(c)

LEMMA WayTypes ==
  ASSUME WayTypeOK, NEW c \in Conn
  PROVE  /\ Ahead(c) \in Seq(Type) /\ hand[Other(c)] \in Seq(Answer)
         /\ queue[Other(c)] \in Seq(Answer) /\ reply[Other(c)] \in Seq(Answer)
<1>1. /\ recv_buffer[c] \in Seq(Type) /\ wire[Other(c)] \in Seq(Type)
      /\ hand[Other(c)] \in Seq(Answer)
      /\ queue[Other(c)] \in Seq(Answer) /\ reply[Other(c)] \in Seq(Answer)
  BY TwoEnds DEF WayTypeOK
<1>2. Ahead(c) \in Seq(Type)
  BY <1>1, JoinedShape DEF Ahead
<1> QED BY <1>1, <1>2

\* The listener keeps the way as it is.
LEMMA HearsKeeps ==
  ASSUME WayTypeOK, NEW c \in Conn, VersionFirst(c), OneVerack(c), Hears(c)
  PROVE  VersionFirst(c)' /\ OneVerack(c)'
<1> DEFINE o == Other(c)
<1>1. PICK s \in Seq(Type) : s = Ahead(c)
  BY WayTypes
<1>2. /\ UNCHANGED <<writer[o], hand[o], queue[o], reply[o], stage[o], greeted[o]>>
      /\ stage[c] \in Left => stage'[c] \in Left
  BY DEF Hears
<1>3. <<>> # <<"Version">> /\ <<"Version">> # <<"Version", "Verack">>
        /\ <<>> # <<"Version", "Verack">>
  OBVIOUS
<1>4. CASE Ahead(c)' = Ahead(c) /\ UNCHANGED greeted[c]
  <2>1. VersionFirst(c)'
    BY <1>2, <1>4 DEF VersionFirst
  <2>2. OneVerack(c)'
    BY <1>2, <1>4 DEF OneVerack, Complete
  <2> QED BY <2>1, <2>2
<1>5. CASE Ahead(c)' = Ahead(c) /\ greeted'[c] = <<>> /\ stage[c] \in Left
  <2>1. VersionFirst(c)'
    BY <1>2, <1>5 DEF VersionFirst
  <2>2. OneVerack(c)'
    BY <1>2, <1>3, <1>5 DEF OneVerack, Complete
  <2> QED BY <2>1, <2>2
<1>6. ASSUME stage[c] \notin Left, s # <<>>, Ahead(c)' = Tail(s),
             \/ /\ Head(s) = "version" /\ greeted[c] = <<>> /\ greeted'[c] = <<"Version">>
             \/ /\ Head(s) = "verack"
                /\ greeted[c] = <<"Version">> /\ greeted'[c] = <<"Version", "Verack">>
             \/ Head(s) \in {"ping", "pong"} /\ UNCHANGED greeted[c]
             \/ stage'[c] \in Left /\ UNCHANGED greeted[c]
      PROVE  VersionFirst(c)' /\ OneVerack(c)'
  <2>1. /\ Has(s, "version") <=> Head(s) = "version" \/ Has(Tail(s), "version")
        /\ Once(s, "version") => Once(Tail(s), "version")
        /\ Once(s, "version") /\ Head(s) = "version" => ~ Has(Tail(s), "version")
        /\ Has(s, "verack") <=> Head(s) = "verack" \/ Has(Tail(s), "verack")
        /\ Once(s, "verack") => Once(Tail(s), "verack")
        /\ Once(s, "verack") /\ Head(s) = "verack" => ~ Has(Tail(s), "verack")
    BY <1>6, HasTail
  <2>2. /\ writer[o] \notin {"none", "opening"}
        /\ greeted[c] = <<>> => Head(s) = "version" /\ Once(s, "version")
        /\ greeted[c] # <<>> => ~ Has(s, "version")
    BY <1>1, <1>6 DEF VersionFirst
  <2>3. VersionFirst(c)'
    BY <1>2, <1>3, <1>6, <2>1, <2>2 DEF VersionFirst
  <2>4. OneVerack(c)'
    BY <1>1, <1>2, <1>3, <1>6, <2>1 DEF OneVerack, Complete
  <2> QED BY <2>3, <2>4
<1> QED BY <1>1, <1>4, <1>5, <1>6 DEF Hears

\* So does the speaker.
LEMMA SaysKeeps ==
  ASSUME WayTypeOK, NEW c \in Conn, VersionFirst(c), OneVerack(c), Says(c)
  PROVE  VersionFirst(c)' /\ OneVerack(c)'
<1> DEFINE o == Other(c)
<1>1. PICK s \in Seq(Type) : s = Ahead(c)
  BY WayTypes
<1>2. PICK h \in Seq(Answer), q \in Seq(Answer), r \in Seq(Answer) :
        h = hand[o] /\ q = queue[o] /\ r = reply[o]
  BY WayTypes
<1>3. /\ UNCHANGED <<stage[c], greeted[c]>>
      /\ stage[o] \in Left => stage'[o] \in Left
  BY DEF Says
<1>4. \A x : ~ Has(<<>>, x) /\ Once(<<>>, x)
  BY HasNothing
<1>5. CASE Retains(c)
  <2>1. VersionFirst(c)'
    BY <1>3, <1>5 DEF VersionFirst, Retains, Opened
  <2>2. OneVerack(c)'
    BY <1>3, <1>4, <1>5 DEF OneVerack, Complete, Retains
  <2> QED BY <2>1, <2>2
<1>6. CASE Promises(c)
  <2>1. VersionFirst(c)'
    BY <1>3, <1>6 DEF VersionFirst, Promises
  <2>2. OneVerack(c)'
    BY <1>3, <1>6 DEF OneVerack, Complete, Promises
  <2> QED BY <2>1, <2>2
<1>7. CASE Queues(c)
  <2>1. VersionFirst(c)'
    BY <1>3, <1>7 DEF VersionFirst, Queues
  <2>2. r # <<>> /\ queue'[o] = Append(q, Head(r)) /\ reply'[o] = <<>>
    BY <1>2, <1>7 DEF Queues
  <2>3. Head(r) \in Answer /\ (Head(r) = Verack => Has(r, Verack))
    BY <2>2, HasTail
  <2>4. /\ Has(Append(q, Head(r)), Verack) <=> Has(q, Verack) \/ Head(r) = Verack
        /\ Once(q, Verack) /\ ~ (Has(q, Verack) /\ Head(r) = Verack)
             => Once(Append(q, Head(r)), Verack)
    BY <2>3, HasAppend
  <2>5. UNCHANGED <<Ahead(c), hand[o], greeted[o]>>
    BY <1>7 DEF Queues
  <2>6. OneVerack(c)'
    BY <1>2, <1>3, <1>4, <2>2, <2>3, <2>4, <2>5 DEF OneVerack, Complete
  <2> QED BY <2>1, <2>6
<1>8. CASE Takes(c)
  <2>1. VersionFirst(c)'
    BY <1>3, <1>8 DEF VersionFirst, Takes, Opened
  <2>2. q # <<>> /\ hand'[o] = <<Head(q)>> /\ queue'[o] = Tail(q) /\ hand[o] = <<>>
    BY <1>2, <1>8 DEF Takes
  <2>3. /\ Has(q, Verack) <=> Head(q) = Verack \/ Has(Tail(q), Verack)
        /\ Once(q, Verack) => Once(Tail(q), Verack)
        /\ Once(q, Verack) /\ Head(q) = Verack => ~ Has(Tail(q), Verack)
        /\ Has(<<Head(q)>>, Verack) <=> Head(q) = Verack
    BY <2>2, HasTail, HasOne
  <2>4. UNCHANGED <<Ahead(c), reply[o], greeted[o]>>
    BY <1>8 DEF Takes
  <2>5. OneVerack(c)'
    BY <1>2, <1>3, <2>2, <2>3, <2>4 DEF OneVerack, Complete
  <2> QED BY <2>1, <2>5
<1>9. CASE Puts(c)
  <2>1. PICK t \in Type :
          /\ Ahead(c)' = Append(s, t)
          /\ \/ t = "version" /\ writer[o] = "opening" /\ UNCHANGED hand[o]
             \/ t = "ping" /\ writer[o] \in Opened /\ UNCHANGED hand[o]
             \/ /\ t # "version" /\ (t = "verack" => Has(h, Verack))
                /\ writer[o] \in Opened /\ hand'[o] = <<>>
    <3>1. CASE writer[o] \in Opened /\ h # <<>> /\ hand'[o] = <<>>
                 /\ Ahead(c)' = Append(s, Head(h).type)
      <4>1. Head(h) \in Answer /\ (Head(h) = Verack => Has(h, Verack))
        BY <3>1, HasTail
      <4>2. \/ Head(h) = Verack /\ Head(h).type = "verack"
            \/ Head(h).type = "pong"
        BY <4>1 DEF Answer, Verack, Pong
      <4> QED BY <3>1, <4>1, <4>2 DEF Type
    <3>2. CASE /\ writer[o] = "opening" /\ UNCHANGED hand[o]
               /\ Ahead(c)' = Append(s, "version")
      BY <3>2 DEF Type
    <3>3. CASE /\ writer[o] \in Opened /\ UNCHANGED hand[o]
               /\ Ahead(c)' = Append(s, "ping")
      BY <3>3 DEF Type
    <3> QED BY <1>1, <1>2, <1>9, <3>1, <3>2, <3>3 DEF Puts
  <2>2. /\ UNCHANGED <<queue[o], reply[o], greeted[o]>> /\ writer'[o] \in Opened
    BY <1>9 DEF Puts
  <2>3. /\ Has(Append(s, t), "version") <=> Has(s, "version") \/ t = "version"
        /\ Has(Append(s, t), "verack") <=> Has(s, "verack") \/ t = "verack"
        /\ Once(s, "version") /\ ~ (Has(s, "version") /\ t = "version") => Once(Append(s, t), "version")
        /\ Once(s, "verack") /\ ~ (Has(s, "verack") /\ t = "verack") => Once(Append(s, t), "verack")
        /\ Append(s, t) # <<>> /\ (s # <<>> => Head(Append(s, t)) = Head(s))
        /\ s = <<>> => Head(Append(s, t)) = t
    BY HasAppend, SMTT(60)
  <2>4. VersionFirst(c)'
    <3>1. CASE t = "version" /\ writer[o] = "opening"
      <4>1. s = <<>> /\ greeted[c] = <<>>
        BY <1>1, <3>1 DEF VersionFirst
      <4> QED BY <1>3, <1>4, <2>1, <2>2, <2>3, <3>1, <4>1 DEF VersionFirst, Opened
    <3>2. CASE t # "version" /\ writer[o] \in Opened
      BY <1>1, <1>3, <2>1, <2>2, <2>3, <3>2 DEF VersionFirst, Opened
    <3> QED BY <2>1, <3>1, <3>2
  <2>5. OneVerack(c)'
    BY <1>1, <1>2, <1>3, <1>4, <2>1, <2>2, <2>3 DEF OneVerack, Complete
  <2> QED BY <2>4, <2>5
<1> QED BY <1>5, <1>6, <1>7, <1>8, <1>9 DEF Says

-----------------------------------------------------------------------------
(* What each action does to the two ways.                                  *)

\* An action of one end fits both: what the other end says to it and what it
\* says to the other end.
Fits(a) == WayTypeOK' /\ Hears(a) /\ Says(Other(a))

\* The actions leave the other end's threads alone.
OnlyAt(a) ==
  LET o == Other(a)
  IN  UNCHANGED <<writer[o], hand[o], queue[o], reply[o], stage[o], greeted[o]>>

MovesTo(a, s) == stage'[a] = s /\ (stage[a] \in Left => s \in Left)

LEMMA UntouchedAhead ==
  ASSUME Untouched, NEW c
  PROVE  Ahead(c)' = Ahead(c)
BY DEF Untouched, Ahead

\* One read moves the boundary between the wire and the buffer.
LEMMA ReceivedAhead ==
  ASSUME WayTypeOK, NEW a \in Conn, Receives(a)
  PROVE  /\ Ahead(a)' = Ahead(a) /\ Ahead(Other(a))' = Ahead(Other(a))
         /\ wire' \in [Conn -> Seq(Type)] /\ recv_buffer' \in [Conn -> Seq(Type)]
<1> DEFINE o == Other(a)
<1>0. o \in Conn /\ o # a /\ Other(o) = a
  BY TwoEnds
<1>1. PICK b \in Seq(Type), w \in Seq(Type) : b = recv_buffer[a] /\ w = wire[o]
  BY <1>0 DEF WayTypeOK
<1>2. PICK n \in 1 .. Len(w) :
        /\ recv_buffer' = [recv_buffer EXCEPT ![a] = b \o SubSeq(w, 1, n)]
        /\ wire' = [wire EXCEPT ![o] = SubSeq(w, n + 1, Len(w))]
  BY <1>1 DEF Receives
<1>3. b \o SubSeq(w, 1, n) \in Seq(Type) /\ SubSeq(w, n + 1, Len(w)) \in Seq(Type)
  <2>1. SubSeq(w, 1, n) \in Seq(Type) /\ SubSeq(w, n + 1, Len(w)) \in Seq(Type)
    OBVIOUS
  <2> QED BY <2>1, JoinedShape
<1>4. /\ recv_buffer'[a] = b \o SubSeq(w, 1, n) /\ wire'[o] = SubSeq(w, n + 1, Len(w))
      /\ recv_buffer'[o] = recv_buffer[o] /\ wire'[a] = wire[a]
      /\ wire' \in [Conn -> Seq(Type)] /\ recv_buffer' \in [Conn -> Seq(Type)]
  BY <1>0, <1>2, <1>3 DEF WayTypeOK
<1>5. (b \o SubSeq(w, 1, n)) \o SubSeq(w, n + 1, Len(w)) = b \o w
  BY JoinedShape, ZenonT(60)
<1>6. Ahead(a)' = Ahead(a)
  BY <1>1, <1>4, <1>5 DEF Ahead
<1>7. Ahead(o)' = Ahead(o)
  BY <1>0, <1>4 DEF Ahead
<1> QED BY <1>4, <1>6, <1>7

\* A message handled is the one ahead.
LEMMA DrainedAhead ==
  ASSUME WayTypeOK, NEW a \in Conn, NEW type, Drains(a, type)
  PROVE  /\ Ahead(a) # <<>> /\ Head(Ahead(a)) = type /\ Ahead(a)' = Tail(Ahead(a))
         /\ Ahead(Other(a))' = Ahead(Other(a))
         /\ wire' \in [Conn -> Seq(Type)] /\ recv_buffer' \in [Conn -> Seq(Type)]
<1> DEFINE o == Other(a)
<1>0. o \in Conn /\ o # a /\ Other(o) = a
  BY TwoEnds
<1>1. PICK b \in Seq(Type), w \in Seq(Type) : b = recv_buffer[a] /\ w = wire[o]
  BY <1>0 DEF WayTypeOK
<1>2. /\ b # <<>> /\ Head(b) = type /\ Tail(b) \in Seq(Type)
      /\ recv_buffer' = [recv_buffer EXCEPT ![a] = Tail(b)] /\ wire' = wire
  BY <1>1 DEF Drains
<1>3. /\ recv_buffer'[a] = Tail(b) /\ recv_buffer'[o] = recv_buffer[o]
      /\ wire' \in [Conn -> Seq(Type)] /\ recv_buffer' \in [Conn -> Seq(Type)]
  BY <1>0, <1>2 DEF WayTypeOK
<1>4. b \o w # <<>> /\ Head(b \o w) = Head(b) /\ Tail(b \o w) = Tail(b) \o w
  BY <1>2, JoinedShape
<1>5. Ahead(a) = b \o w /\ Ahead(a)' = Tail(b) \o w
  BY <1>1, <1>2, <1>3 DEF Ahead
<1>6. Ahead(o)' = Ahead(o)
  BY <1>0, <1>2, <1>3 DEF Ahead
<1> QED BY <1>2, <1>3, <1>4, <1>5, <1>6

\* A message written goes behind what the other end has ahead of it.
LEMMA CarriedAhead ==
  ASSUME WayTypeOK, NEW a \in Conn, NEW type \in Type, Carry(a, type)
  PROVE  /\ Ahead(a)' = Ahead(a)
         /\ Ahead(Other(a))' = Append(Ahead(Other(a)), type)
         /\ wire' \in [Conn -> Seq(Type)] /\ recv_buffer' \in [Conn -> Seq(Type)]
<1> DEFINE o == Other(a)
<1>0. o \in Conn /\ o # a /\ Other(o) = a
  BY TwoEnds
<1>1. PICK b \in Seq(Type), w \in Seq(Type) : b = recv_buffer[o] /\ w = wire[a]
  BY <1>0 DEF WayTypeOK
<1>2. /\ wire' = [wire EXCEPT ![a] = Append(w, type)] /\ recv_buffer' = recv_buffer
      /\ Append(w, type) \in Seq(Type)
  BY <1>1 DEF Carry
<1>3. /\ wire'[a] = Append(w, type) /\ wire'[o] = wire[o]
      /\ wire' \in [Conn -> Seq(Type)] /\ recv_buffer' \in [Conn -> Seq(Type)]
  BY <1>0, <1>2 DEF WayTypeOK
<1>4. b \o Append(w, type) = Append(b \o w, type)
  BY JoinedShape
<1>5. Ahead(o)' = Append(Ahead(o), type)
  BY <1>0, <1>1, <1>2, <1>3, <1>4 DEF Ahead
<1>6. Ahead(a)' = Ahead(a)
  BY <1>2, <1>3 DEF Ahead
<1> QED BY <1>3, <1>5, <1>6

\* A reader that moves on and loses nothing, and handles nothing.
LEMMA MovingFits ==
  ASSUME TypeOK, WayTypeOK, NEW a \in Conn, OnlyAt(a),
         Ahead(a)' = Ahead(a), Ahead(Other(a))' = Ahead(Other(a)),
         wire' \in [Conn -> Seq(Type)], recv_buffer' \in [Conn -> Seq(Type)],
         UNCHANGED <<hand, queue, reply, writer, greeted>>,
         NEW s, MovesTo(a, s)
  PROVE  Fits(a)
<1> DEFINE o == Other(a)
<1>0. o \in Conn /\ Other(o) = a /\ writer \in [Conn -> WriterStages]
  BY TwoEnds DEF TypeOK, ControlTypeOK
<1>1. WayTypeOK'
  BY DEF WayTypeOK
<1>2. Hears(a)
  BY DEF Hears, OnlyAt, MovesTo
<1>3. Retains(o)
  <2>1. \/ writer[a] \in {"none", "opening"} \/ writer[a] \in Opened
        \/ writer[a] \in {"closing", "ended"}
    BY <1>0 DEF WriterStages, Opened
  <2> QED BY <1>0, <2>1 DEF Retains
<1>4. Says(o)
  BY <1>0, <1>3 DEF Says, OnlyAt, MovesTo
<1> QED BY <1>1, <1>2, <1>4 DEF Fits

LEMMA EndTypes ==
  ASSUME TypeOK
  PROVE  /\ stage \in [Conn -> Stages] /\ writer \in [Conn -> WriterStages]
         /\ hand \in [Conn -> Seq(Message)] /\ reply \in [Conn -> Seq(Message)]
         /\ queue \in [Conn -> Seq(Message)] /\ greeted \in [Conn -> Seq(HandshakeEvent)]
BY DEF TypeOK, ControlTypeOK, BuffersTypeOK, TableTypeOK, Conn

\* Steps that change no more than where a thread is.
LEMMA MovesFit ==
  ASSUME TypeOK, WayTypeOK, NEW a \in Conn, Untouched,
         \/ Dial(a) \/ Accept(a) \/ NoPeerAddr(a) \/ Open(a) \/ Join(a)
         \/ ReadNothing(a) \/ ReadEof(a) \/ ReadFails(a) \/ ParsedAll(a)
         \/ CheckHandshake(a) \/ HandshakeFallsLate(a)
  PROVE  Fits(a)
<1>0. /\ stage \in [Conn -> Stages] /\ Other(a) \in Conn /\ Other(a) # a
      /\ Ahead(a)' = Ahead(a) /\ Ahead(Other(a))' = Ahead(Other(a))
      /\ wire' \in [Conn -> Seq(Type)] /\ recv_buffer' \in [Conn -> Seq(Type)]
  BY EndTypes, TwoEnds, UntouchedAhead DEF Untouched, WayTypeOK
<1>1. UNCHANGED <<hand, queue, reply, writer, greeted>>
  BY DEF Dial, Accept, Spawn, NoPeerAddr, Open, register, Join, ReadNothing, ReadEof, ReadFails,
         ParsedAll, CheckHandshake, HandshakeFallsLate, NotReading, tableVars, loopVars,
         writerVars, history
<1>2. \/ UNCHANGED stage
      \/ /\ stage[a] \in Left => stage[a] = "joining"
         /\ \E s : stage' = [stage EXCEPT ![a] = s] /\ (stage[a] = "joining" => s \in Left)
  BY DEF Dial, Accept, Spawn, NoPeerAddr, Open, Join, ReadNothing, ReadEof, ReadFails,
         ParsedAll, CheckHandshake, HandshakeFallsLate, At, GoTo, RecordThen, Left, InReadLoop
<1>3. MovesTo(a, stage'[a]) /\ UNCHANGED stage[Other(a)]
  BY <1>0, <1>2 DEF MovesTo
<1>4. OnlyAt(a)
  BY <1>0, <1>1, <1>3 DEF OnlyAt
<1> QED BY <1>0, <1>1, <1>3, <1>4, MovingFits

LEMMA ReceivesFits ==
  ASSUME TypeOK, WayTypeOK, NEW a \in Conn, Receives(a)
  PROVE  Fits(a)
<1>0. stage \in [Conn -> Stages] /\ Other(a) \in Conn /\ Other(a) # a
  BY EndTypes, TwoEnds
<1>1. /\ UNCHANGED <<hand, queue, reply, writer, greeted>> /\ stage[a] = "reading"
      /\ stage' = [stage EXCEPT ![a] = "framed"]
  BY DEF Receives, ReadData, NotReading, tableVars, loopVars, writerVars, At, GoTo
<1>2. MovesTo(a, "framed") /\ UNCHANGED stage[Other(a)]
  BY <1>0, <1>1 DEF MovesTo, Left
<1>3. OnlyAt(a)
  BY <1>0, <1>1, <1>2 DEF OnlyAt
<1> QED BY <1>1, <1>2, <1>3, ReceivedAhead, MovingFits

\* The set-up, and its failure.
LEMMA SetUpFits ==
  ASSUME TypeOK, GuardInv, WayTypeOK, NEW a \in Conn, Untouched, SetUp(a) \/ SetUpFails(a)
  PROVE  Fits(a)
<1> DEFINE o == Other(a)
<1>0. /\ stage \in [Conn -> Stages] /\ writer \in [Conn -> WriterStages] /\ o \in Conn /\ o # a
      /\ queue \in [Conn -> Seq(Answer)] /\ Other(o) = a
      /\ Ahead(a)' = Ahead(a) /\ Ahead(o)' = Ahead(o)
  BY EndTypes, TwoEnds, UntouchedAhead DEF WayTypeOK
<1>1. /\ UNCHANGED <<hand, reply, greeted, wire, recv_buffer>> /\ stage[a] = "setup"
      /\ queue' = queue \/ queue' = [queue EXCEPT ![a] = <<>>]
      /\ writer' = writer \/ writer' = [writer EXCEPT ![a] = "opening"]
      /\ \E s : stage' = [stage EXCEPT ![a] = s]
  BY DEF SetUp, SetUpFails, drop_receiver, tableVars, loopVars, history, At, GoTo, Untouched
<1>2. writer[a] = "none"
  BY <1>1 DEF GuardInv
<1>3. <<>> \in Seq(Answer)
  OBVIOUS
<1>4. queue' \in [Conn -> Seq(Answer)] /\ OnlyAt(a)
  BY <1>0, <1>1, <1>3 DEF OnlyAt
<1>5. WayTypeOK'
  BY <1>1, <1>4 DEF WayTypeOK
<1>6. Hears(a)
  BY <1>0, <1>1, <1>4 DEF Hears, OnlyAt, Left
<1>7. Retains(o)
  BY <1>0, <1>1, <1>2 DEF Retains
<1>8. Says(o)
  BY <1>0, <1>1, <1>4, <1>7 DEF Says, OnlyAt, Left
<1> QED BY <1>5, <1>6, <1>8 DEF Fits

\* Leaving the read loop forgets what was heard.
LEMMA LeavingFits ==
  ASSUME TypeOK, WayTypeOK, NEW a \in Conn, Untouched, Release(a) \/ Unwind(a)
  PROVE  Fits(a)
<1> DEFINE o == Other(a)
<1>0. /\ stage \in [Conn -> Stages] /\ writer \in [Conn -> WriterStages] /\ o \in Conn /\ o # a
      /\ reply \in [Conn -> Seq(Answer)] /\ greeted \in [Conn -> Seq(HandshakeEvent)]
      /\ Ahead(a)' = Ahead(a) /\ Ahead(o)' = Ahead(o) /\ Other(o) = a
  BY EndTypes, TwoEnds, UntouchedAhead DEF WayTypeOK
<1>1. /\ UNCHANGED <<hand, queue, writer, wire, recv_buffer>> /\ stage[a] \in Left
      /\ reply' = [reply EXCEPT ![a] = <<>>] /\ greeted' = [greeted EXCEPT ![a] = <<>>]
      /\ \E s \in Left : stage' = [stage EXCEPT ![a] = s]
  BY DEF Release, Unwind, remove, LeaveReadLoop, writerVars, At, GoTo, Left, Untouched
<1>2. <<>> \in Seq(Answer) /\ ~ Has(<<>>, Verack)
  BY HasNothing
<1>3. reply' \in [Conn -> Seq(Answer)] /\ reply'[a] = <<>> /\ greeted'[a] = <<>> /\ stage'[a] \in Left
  BY <1>0, <1>1, <1>2
<1>4. OnlyAt(a)
  BY <1>0, <1>1 DEF OnlyAt
<1>5. WayTypeOK'
  BY <1>1, <1>3 DEF WayTypeOK
<1>6. Hears(a)
  BY <1>0, <1>1, <1>3, <1>4 DEF Hears, OnlyAt
<1>7. Retains(o)
  <2>1. \/ writer[a] \in {"none", "opening"} \/ writer[a] \in Opened
        \/ writer[a] \in {"closing", "ended"}
    BY <1>0 DEF WriterStages, Opened
  <2> QED BY <1>0, <1>1, <1>2, <1>3, <2>1 DEF Retains
<1>8. Says(o)
  BY <1>0, <1>3, <1>4, <1>7 DEF Says, OnlyAt
<1> QED BY <1>5, <1>6, <1>8 DEF Fits

\* A reply reaches the end's own queue or is lost.
LEMMA DeliverFits ==
  ASSUME TypeOK, OwnEntry, WayTypeOK, NEW a \in Conn, Untouched, Deliver(a)
  PROVE  Fits(a)
<1> DEFINE o == Other(a)
<1>0. /\ stage \in [Conn -> Stages] /\ writer \in [Conn -> WriterStages] /\ o \in Conn /\ o # a
      /\ reply \in [Conn -> Seq(Answer)] /\ queue \in [Conn -> Seq(Answer)]
      /\ Ahead(a)' = Ahead(a) /\ Ahead(o)' = Ahead(o) /\ Other(o) = a
  BY EndTypes, TwoEnds, UntouchedAhead DEF WayTypeOK
<1>1. /\ UNCHANGED <<hand, writer, greeted, wire, recv_buffer>> /\ stage[a] = "replying"
      /\ reply' = [reply EXCEPT ![a] = <<>>]
      /\ \E s : stage' = [stage EXCEPT ![a] = s]
      /\ queue' = queue \/ queue' = [queue EXCEPT ![a] = Append(queue[a], Head(reply[a]))]
  <2>1. Reaches(pid[a]) => peers[pid[a]].outbound = a
    BY DEF Reaches, OwnEntry
  <2> QED BY <2>1 DEF Deliver, send_to, NotReading, writerVars, At, GoTo, Untouched
<1>2. <<>> \in Seq(Answer) /\ ~ Has(<<>>, Verack)
  BY HasNothing
<1>3. reply[a] # <<>>
  BY <1>1 DEF TypeOK, BuffersTypeOK
<1>4. PICK r \in Seq(Answer), q \in Seq(Answer) : r = reply[a] /\ q = queue[a]
  BY <1>0
<1>5. Append(q, Head(r)) \in Seq(Answer)
  BY <1>3, <1>4
<1>6. reply' \in [Conn -> Seq(Answer)] /\ queue' \in [Conn -> Seq(Answer)] /\ reply'[a] = <<>>
  BY <1>0, <1>1, <1>2, <1>4, <1>5
<1>7. OnlyAt(a)
  BY <1>0, <1>1 DEF OnlyAt
<1>8. WayTypeOK'
  BY <1>1, <1>6 DEF WayTypeOK
<1>9. Hears(a)
  BY <1>0, <1>1, <1>7 DEF Hears, OnlyAt, Left
<1>10. Retains(o) \/ Queues(o)
  <2>1. \/ writer[a] \in {"none", "opening"} \/ writer[a] \in Opened
        \/ writer[a] \in {"closing", "ended"}
    BY <1>0 DEF WriterStages, Opened
  <2>2. CASE queue' = queue
    BY <1>0, <1>1, <1>2, <1>6, <2>1, <2>2 DEF Retains
  <2>3. CASE queue' = [queue EXCEPT ![a] = Append(queue[a], Head(reply[a]))]
    BY <1>0, <1>1, <1>3, <1>6, <2>3 DEF Queues
  <2> QED BY <1>1, <2>2, <2>3
<1>11. Says(o)
  BY <1>0, <1>1, <1>7, <1>10 DEF Says, OnlyAt, Left
<1> QED BY <1>8, <1>9, <1>11 DEF Fits

\* The replies a reader promises are answers.
LEMMA PromisedAnswer ==
  ASSUME TypeOK, NEW a \in Conn, NEW m \in Answer, reply' = [reply EXCEPT ![a] = <<m>>],
         reply \in [Conn -> Seq(Answer)]
  PROVE  /\ reply' \in [Conn -> Seq(Answer)] /\ reply'[a] = <<m>>
         /\ \A d \in Conn : d # a => reply'[d] = reply[d]
<1>1. <<m>> \in Seq(Answer)
  OBVIOUS
<1> QED BY <1>1

\* A handler takes the message ahead, and may promise an answer; what it has
\* heard before is what the table says (HandshakeIsEarned).
LEMMA HandlingFits ==
  ASSUME TypeOK, OwnEntry, HandshakeIsEarned, WayTypeOK, NEW a \in Conn, HandlesNext(a)
  PROVE  Fits(a)
<1> DEFINE o == Other(a)
<1>0. /\ stage \in [Conn -> Stages] /\ writer \in [Conn -> WriterStages] /\ o \in Conn /\ o # a
      /\ reply \in [Conn -> Seq(Answer)] /\ greeted \in [Conn -> Seq(HandshakeEvent)]
      /\ Other(o) = a
  BY EndTypes, TwoEnds DEF WayTypeOK
<1>1. \/ writer[a] \in {"none", "opening"} \/ writer[a] \in Opened
      \/ writer[a] \in {"closing", "ended"}
  BY <1>0 DEF WriterStages, Opened
<1>2. CASE recv_buffer[a] = <<>> /\ ParsedAll(a) /\ Untouched
  BY <1>2, MovesFit
<1>3. ASSUME NEW type, Drains(a, type), OnlyAt(a), UNCHANGED <<hand, queue, writer>>,
             stage[a] \notin Left, reply' \in [Conn -> Seq(Answer)],
             \/ /\ type = "version" /\ greeted[a] = <<>> /\ greeted'[a] = <<"Version">>
             \/ /\ type = "verack" /\ greeted[a] = <<"Version">>
                /\ greeted'[a] = <<"Version", "Verack">> /\ UNCHANGED reply
             \/ /\ type \in {"ping", "pong"} \/ stage'[a] \in Left
                /\ UNCHANGED greeted[a] /\ (UNCHANGED reply \/ ~ Has(reply'[a], Verack))
      PROVE  Fits(a)
  <2>1. /\ Ahead(a) # <<>> /\ Head(Ahead(a)) = type /\ Ahead(a)' = Tail(Ahead(a))
        /\ Ahead(o)' = Ahead(o)
        /\ wire' \in [Conn -> Seq(Type)] /\ recv_buffer' \in [Conn -> Seq(Type)]
    BY <1>3, DrainedAhead
  <2>2. WayTypeOK'
    BY <1>3, <2>1 DEF WayTypeOK
  <2>3. Hears(a)
    BY <1>3, <2>1 DEF Hears, OnlyAt
  <2>4. <<>> # <<"Version">> /\ <<>> # <<"Version", "Verack">>
    OBVIOUS
  <2>5. Retains(o) \/ Promises(o)
    <3>1. CASE greeted[a] = <<>> /\ greeted'[a] = <<"Version">>
      BY <1>0, <1>3, <2>1, <2>4, <3>1 DEF Promises
    <3>2. CASE /\ greeted'[a] = <<>> => greeted[a] = <<>>
               /\ UNCHANGED reply \/ ~ Has(reply'[a], Verack)
      BY <1>0, <1>1, <1>3, <2>1, <3>2 DEF Retains
    <3> QED BY <1>3, <2>4, <3>1, <3>2
  <2>6. Says(o)
    BY <1>0, <1>3, <2>5 DEF Says, OnlyAt
  <2> QED BY <2>2, <2>3, <2>6 DEF Fits
<1>4. ASSUME HandleVersion(a), Drains(a, "version")
      PROVE  Fits(a)
  <2>1. /\ Advanced(a, "AwaitingVersion", "Version", "AwaitingVerack")
        /\ Framed(a) /\ UNCHANGED <<hand, queue, writer>>
        /\ reply' = [reply EXCEPT ![a] = <<Verack>>]
        /\ \E s : stage' = [stage EXCEPT ![a] = s]
    BY <1>4, HandleShape
    DEF HandleVersion, Promise, advance_handshake, NotReading, writerVars, RecordThen, GoTo
  <2>2. greeted[a] = <<>>
    BY <2>1, Zenon DEF Advanced, OwnEntry, HandshakeIsEarned
  <2>3. greeted'[a] = <<"Version">> /\ greeted'[o] = greeted[o]
    <3>1. greeted' = [greeted EXCEPT ![a] = Append(greeted[a], "Version")]
      BY <2>1 DEF Advanced
    <3>2. Append(<<>>, "Version") = <<"Version">>
      OBVIOUS
    <3> QED BY <1>0, <2>2, <3>1, <3>2
  <2>4. reply' \in [Conn -> Seq(Answer)] /\ reply'[o] = reply[o]
    BY <1>0, <2>1, PromisedAnswer DEF Answer
  <2>5. stage[a] \notin Left
    BY <2>1 DEF Framed, At, Left
  <2>6. OnlyAt(a)
    BY <1>0, <2>1, <2>3, <2>4 DEF OnlyAt
  <2> QED BY <1>3, <1>4, <2>1, <2>2, <2>3, <2>4, <2>5, <2>6
<1>5. ASSUME HandleVerack(a), Drains(a, "verack")
      PROVE  Fits(a)
  <2>1. /\ Advanced(a, "AwaitingVerack", "Verack", "Ready")
        /\ Framed(a) /\ UNCHANGED <<hand, queue, writer, reply>>
        /\ \E s : stage' = [stage EXCEPT ![a] = s]
    BY <1>5, HandleShape
    DEF HandleVerack, advance_handshake, NotReading, writerVars, RecordThen, GoTo
  <2>2. greeted[a] = <<"Version">>
    BY <2>1, Zenon DEF Advanced, OwnEntry, HandshakeIsEarned
  <2>3. greeted'[a] = <<"Version", "Verack">> /\ greeted'[o] = greeted[o]
    <3>1. greeted' = [greeted EXCEPT ![a] = Append(greeted[a], "Verack")]
      BY <2>1 DEF Advanced
    <3>2. Append(<<"Version">>, "Verack") = <<"Version", "Verack">>
      BY AppendToOne DEF HandshakeEvent
    <3> QED BY <1>0, <2>2, <3>1, <3>2
  <2>4. stage[a] \notin Left
    BY <2>1 DEF Framed, At, Left
  <2>5. OnlyAt(a)
    BY <1>0, <2>1, <2>3 DEF OnlyAt
  <2> QED BY <1>0, <1>3, <1>5, <2>1, <2>2, <2>3, <2>4, <2>5
<1>6. ASSUME HandlePing(a), Drains(a, "ping")
      PROVE  Fits(a)
  <2>1. /\ Framed(a) /\ UNCHANGED <<hand, queue, writer, greeted>>
        /\ \E s : stage' = [stage EXCEPT ![a] = s]
        /\ \E n \in Nonce : reply' = [reply EXCEPT ![a] = <<Pong(n)>>]
    BY <1>6
    DEF HandlePing, Promise, NotReading, writerVars, tableVars, RecordThen, GoTo
  <2>2. PICK m \in Answer : reply' = [reply EXCEPT ![a] = <<m>>] /\ m # Verack
    <3>1. PICK n \in Nonce : reply' = [reply EXCEPT ![a] = <<Pong(n)>>]
      BY <2>1
    <3>2. Pong(n).type = "pong" /\ Verack.type = "verack"
      BY DEF Pong, Verack
    <3> QED BY <3>1, <3>2 DEF Answer
  <2>3. reply' \in [Conn -> Seq(Answer)] /\ reply'[o] = reply[o] /\ reply'[a] = <<m>>
    BY <1>0, <2>2, PromisedAnswer
  <2>4. ~ Has(reply'[a], Verack)
    BY <2>2, <2>3, HasOne
  <2>5. stage[a] \notin Left
    BY <2>1 DEF Framed, At, Left
  <2>6. OnlyAt(a)
    BY <1>0, <2>1, <2>3 DEF OnlyAt
  <2> QED BY <1>3, <1>6, <2>1, <2>3, <2>4, <2>5, <2>6
<1>7. ASSUME HandlePong(a), Drains(a, "pong")
      PROVE  Fits(a)
  <2>1. /\ Framed(a) /\ UNCHANGED <<hand, queue, writer, greeted, reply>>
        /\ \E s : stage' = [stage EXCEPT ![a] = s]
    BY <1>7 DEF HandlePong, NotReading, writerVars, tableVars, RecordThen, GoTo
  <2>2. stage[a] \notin Left
    BY <2>1 DEF Framed, At, Left
  <2>3. OnlyAt(a)
    BY <1>0, <2>1 DEF OnlyAt
  <2> QED BY <1>0, <1>3, <1>7, <2>1, <2>2, <2>3
<1>8. ASSUME NEW type, HandleOutOfTurn(a), Drains(a, type)
      PROVE  Fits(a)
  <2>1. /\ Framed(a) /\ UNCHANGED <<hand, queue, writer, greeted, reply>>
        /\ stage' = [stage EXCEPT ![a] = "dropping"]
    BY <1>8 DEF HandleOutOfTurn, advance_handshake, NotReading, writerVars, GoTo
  <2>2. stage[a] \notin Left
    BY <2>1 DEF Framed, At, Left
  <2>3. OnlyAt(a) /\ stage'[a] \in Left
    BY <1>0, <2>1 DEF OnlyAt, Left
  <2> QED BY <1>0, <1>3, <1>8, <2>1, <2>2, <2>3
<1> QED BY <1>2, <1>4, <1>5, <1>6, <1>7, <1>8 DEF HandlesNext, OutOfTurn

\* The writer.
LEMMA WritingFits ==
  ASSUME TypeOK, WayTypeOK, NEW a \in Conn, WriterStep(a)
  PROVE  Fits(a)
<1> DEFINE o == Other(a)
<1>0. /\ writer \in [Conn -> WriterStages] /\ o \in Conn /\ o # a /\ Other(o) = a
      /\ hand \in [Conn -> Seq(Answer)] /\ queue \in [Conn -> Seq(Answer)]
      /\ \A c \in Conn : hand[c] = <<>> <=> writer[c] # "writing"
  BY EndTypes, TwoEnds DEF WayTypeOK, TypeOK, BuffersTypeOK
<1>1. UNCHANGED <<stage, reply, greeted>>
  BY DEF WriterStep, Write, CannotWrite, WriteOpening, WritePing, WriteQueued, SkipPing, Receive,
         WriteFails, Disconnected, LeaveWriteLoop, ShutDown, NotWriting, loopVars
<1>2. <<>> \in Seq(Answer)
  OBVIOUS
<1>3. ASSUME OnlyAt(a), Ahead(a)' = Ahead(a), Retains(o) \/ Takes(o) \/ Puts(o), WayTypeOK'
      PROVE  Fits(a)
  <2>1. Hears(a)
    BY <1>1, <1>3 DEF Hears, OnlyAt
  <2>2. Says(o)
    BY <1>0, <1>1, <1>3 DEF Says
  <2> QED BY <1>3, <2>1, <2>2 DEF Fits
<1>4. ASSUME NEW type \in Type, Carry(a, type), UNCHANGED queue,
             writer[a] = "opening" \/ writer[a] \in Opened,
             \E w \in Opened : writer' = [writer EXCEPT ![a] = w],
             \/ UNCHANGED hand /\ type = "version" /\ writer[a] = "opening"
             \/ UNCHANGED hand /\ type = "ping" /\ writer[a] \in Opened
             \/ /\ hand' = [hand EXCEPT ![a] = <<>>] /\ hand[a] # <<>>
                /\ type = Head(hand[a]).type /\ writer[a] \in Opened
      PROVE  Fits(a)
  <2>1. /\ Ahead(a)' = Ahead(a) /\ Ahead(o)' = Append(Ahead(o), type)
        /\ wire' \in [Conn -> Seq(Type)] /\ recv_buffer' \in [Conn -> Seq(Type)]
    BY <1>4, CarriedAhead
  <2>2. hand' \in [Conn -> Seq(Answer)] /\ OnlyAt(a) /\ writer'[a] \in Opened
    BY <1>0, <1>1, <1>2, <1>4 DEF OnlyAt
  <2>3. WayTypeOK'
    BY <1>1, <1>4, <2>1, <2>2 DEF WayTypeOK
  <2>4. Puts(o)
    BY <1>0, <1>1, <1>4, <2>1, <2>2 DEF Puts
  <2> QED BY <1>3, <2>1, <2>2, <2>3, <2>4
<1>5. CASE WriteOpening(a) /\ Carry(a, "version")
  BY <1>4, <1>5 DEF WriteOpening, WriterAt, WriterGoTo, Opened, tableVars, Type
<1>6. CASE WritePing(a) /\ Carry(a, "ping")
  BY <1>4, <1>6 DEF WritePing, WriterAt, WriterGoTo, Opened, tableVars, Type
<1>7. CASE WriteQueued(a) /\ Carry(a, Head(hand[a]).type)
  <2>1. /\ writer[a] = "writing" /\ UNCHANGED queue /\ writer' = [writer EXCEPT ![a] = "top"]
        /\ hand' = [hand EXCEPT ![a] = <<>>]
    BY <1>7 DEF WriteQueued, WriterAt, WriterGoTo, tableVars
  <2>2. PICK h \in Seq(Answer) : h = hand[a] /\ h # <<>>
    BY <1>0, <2>1
  <2>3. Head(h) \in Answer
    BY <2>2
  <2>4. Head(hand[a]).type \in Type
    BY <2>2, <2>3 DEF Answer, Verack, Pong, Type
  <2> QED BY <1>4, <1>7, <2>1, <2>2, <2>4 DEF Opened
<1>8. ASSUME Untouched, hand' \in [Conn -> Seq(Answer)], queue' \in [Conn -> Seq(Answer)]
      PROVE  /\ WayTypeOK' /\ Ahead(a)' = Ahead(a) /\ Ahead(o)' = Ahead(o)
    BY <1>1, <1>8, UntouchedAhead DEF WayTypeOK, Untouched
<1>9. CASE (WriteFails(a) \/ Disconnected(a)) /\ Untouched
  <2>1. /\ hand' = [hand EXCEPT ![a] = <<>>] /\ queue' = [queue EXCEPT ![a] = <<>>]
        /\ writer' = [writer EXCEPT ![a] = "closing"]
    BY <1>9 DEF WriteFails, Disconnected, LeaveWriteLoop, drop_receiver, WriterGoTo
  <2>2. /\ hand' \in [Conn -> Seq(Answer)] /\ queue' \in [Conn -> Seq(Answer)] /\ OnlyAt(a)
    BY <1>0, <1>1, <1>2, <2>1 DEF OnlyAt
  <2>3. WayTypeOK' /\ Ahead(a)' = Ahead(a) /\ Ahead(o)' = Ahead(o)
    BY <1>8, <1>9, <2>2
  <2>4. Retains(o)
    BY <1>0, <1>1, <2>1, <2>3 DEF Retains
  <2> QED BY <1>3, <2>2, <2>3, <2>4
<1>10. CASE (SkipPing(a) \/ ShutDown(a)) /\ Untouched
  <2>1. /\ UNCHANGED <<hand, queue>>
        /\ \/ writer[a] = "top" /\ writer' = [writer EXCEPT ![a] = "recv"]
           \/ writer' = [writer EXCEPT ![a] = "ended"]
    BY <1>10 DEF SkipPing, ShutDown, WriterAt, WriterGoTo, tableVars
  <2>2. OnlyAt(a)
    BY <1>0, <1>1, <2>1 DEF OnlyAt
  <2>3. WayTypeOK' /\ Ahead(a)' = Ahead(a) /\ Ahead(o)' = Ahead(o)
    BY <1>0, <1>8, <1>10, <2>1
  <2>4. Retains(o)
    BY <1>0, <1>1, <2>1, <2>3 DEF Retains, Opened
  <2> QED BY <1>3, <2>2, <2>3, <2>4
<1>11. CASE Receive(a) /\ Untouched
  <2>1. /\ writer[a] = "recv" /\ queue[a] # <<>> /\ writer' = [writer EXCEPT ![a] = "writing"]
        /\ queue' = [queue EXCEPT ![a] = Tail(queue[a])]
        /\ hand' = [hand EXCEPT ![a] = <<Head(queue[a])>>]
    BY <1>11 DEF Receive, recv, WriterAt, WriterGoTo
  <2>2. PICK q \in Seq(Answer) : q = queue[a] /\ q # <<>>
    BY <1>0, <2>1
  <2>3. Tail(q) \in Seq(Answer) /\ <<Head(q)>> \in Seq(Answer)
    BY <2>2
  <2>4. /\ hand' \in [Conn -> Seq(Answer)] /\ queue' \in [Conn -> Seq(Answer)] /\ OnlyAt(a)
    BY <1>0, <1>1, <2>1, <2>2, <2>3 DEF OnlyAt
  <2>5. WayTypeOK' /\ Ahead(a)' = Ahead(a) /\ Ahead(o)' = Ahead(o)
    BY <1>8, <1>11, <2>4
  <2>6. Takes(o)
    BY <1>0, <1>1, <2>1, <2>5 DEF Takes, Opened
  <2> QED BY <1>3, <2>4, <2>5, <2>6
<1> QED
  BY <1>5, <1>6, <1>7, <1>9, <1>10, <1>11 DEF WriterStep, Write, CannotWrite

\* An action of either end keeps both ways.
LEMMA WayStep ==
  ASSUME TypeOK, GuardInv, OwnEntry, HandshakeIsEarned, WayInv,
         [LoopbackNext]_loopbackVars
  PROVE  WayInv'
<1> USE DEF WayInv
<1>1. ASSUME NEW a \in Conn, Fits(a)
      PROVE  WayInv'
  <2>1. VersionFirst(a)' /\ OneVerack(a)'
    BY <1>1, HearsKeeps DEF Fits
  <2>2. VersionFirst(Other(a))' /\ OneVerack(Other(a))'
    BY <1>1, TwoEnds, SaysKeeps DEF Fits
  <2>3. \A d \in Conn : VersionFirst(d)' /\ OneVerack(d)'
    BY <2>1, <2>2, TwoEnds
  <2> QED BY <1>1, <2>3 DEF Fits
<1>2. CASE Connect
  <2>1. \E a \in Conn : (Dial(a) \/ Accept(a)) /\ Untouched
    BY <1>2, LoopbackAssumption DEF Connect
  <2> QED BY <1>1, <2>1, MovesFit
<1>3. ASSUME NEW a \in Conn, ReaderStep(a)
      PROVE  WayInv'
  <2>1. Fits(a)
    BY <1>3, ReceivesFits, MovesFit, HandlingFits, SetUpFits, DeliverFits, LeavingFits
    DEF ReaderStep, ReceivesNothing
  <2> QED BY <1>1, <2>1
<1>4. ASSUME NEW a \in Conn, WriterStep(a)
      PROVE  WayInv'
  BY <1>1, <1>4, WritingFits
<1>5. ASSUME NEW a \in Conn, Fault(a)
      PROVE  WayInv'
  BY <1>1, <1>5, MovesFit, SetUpFits DEF Fault
<1>6. CASE UNCHANGED <<vars, wire, recv_buffer>>
  <2>1. UNCHANGED <<wire, recv_buffer, hand, queue, reply, writer, stage, greeted>>
    BY <1>6 DEF vars, tableVars, loopVars, writerVars, history
  <2>2. WayTypeOK'
    BY <2>1 DEF WayTypeOK
  <2>3. \A c \in Conn : VersionFirst(c)'
    BY <2>1 DEF VersionFirst, Ahead
  <2>4. \A c \in Conn : OneVerack(c)'
    BY <2>1 DEF OneVerack, Ahead, Complete
  <2> QED BY <2>2, <2>3, <2>4
<1>7. CASE Quiet /\ Untouched
  BY <1>6, <1>7 DEF Quiet, Untouched
<1>8. CASE UNCHANGED loopbackVars
  BY <1>6, <1>8 DEF loopbackVars
<1> QED BY <1>2, <1>3, <1>4, <1>5, <1>7, <1>8 DEF LoopbackNext

THEOREM WayHolds == LoopbackSpec => []WayInv
<1>1. LoopbackInit => WayInv
  <2> SUFFICES ASSUME LoopbackInit PROVE WayInv
    OBVIOUS
  <2>0. \A c \in Conn : Other(c) \in Conn
    BY TwoEnds
  <2>1. /\ wire = [c \in Conn |-> <<>>] /\ recv_buffer = [c \in Conn |-> <<>>]
        /\ hand = [c \in Conn |-> <<>>] /\ queue = [c \in Conn |-> <<>>]
        /\ reply = [c \in Conn |-> <<>>] /\ greeted = [c \in Conn |-> <<>>]
        /\ writer = [c \in Conn |-> "none"]
    BY DEF LoopbackInit, Init, TableInit, Conn
  <2>2. <<>> \in Seq(Type) /\ <<>> \in Seq(Answer) /\ <<>> \o <<>> = <<>>
    OBVIOUS
  <2>3. WayTypeOK
    BY <2>1, <2>2 DEF WayTypeOK
  <2>4. \A c \in Conn : Ahead(c) = <<>>
    BY <2>0, <2>1, <2>2 DEF Ahead
  <2>5. \A c \in Conn : VersionFirst(c)
    BY <2>0, <2>1, <2>4 DEF VersionFirst
  <2>6. <<>> # <<"Version", "Verack">>
    OBVIOUS
  <2>7. \A c \in Conn : OneVerack(c)
    BY <2>0, <2>1, <2>4, <2>6, HasNothing DEF OneVerack, Complete
  <2> QED BY <2>3, <2>5, <2>7 DEF WayInv
<1>2. TypeOK /\ GuardInv /\ OwnEntry /\ HandshakeIsEarned /\ WayInv
        /\ [LoopbackNext]_loopbackVars => WayInv'
  BY WayStep
<1> QED
  BY <1>1, <1>2, LoopbackIsConnections, TypeCorrect, OwnEntryHolds, HandshakeHolds, PTL
  DEF LoopbackSpec

\* Two nodes that run this code, or one that has dialled itself, never refuse
\* each other a handshake message: whatever readers, writers, queues and the
\* wire interleave, a version comes first and once, and a verack once and
\* after it.
THEOREM HonestPeersHold == LoopbackSpec => []HonestPeersInTurn
<1>1. ASSUME TypeOK, OwnEntry, NoOrphanEntry, HandshakeIsEarned, WayInv
      PROVE  HonestPeersInTurn
  <2> SUFFICES ASSUME NEW c \in Conn, Framed(c), HasSender(c), recv_buffer[c] # <<>>,
                      Head(recv_buffer[c]) \in DOMAIN Event
               PROVE  Advances(pid[c], Event[Head(recv_buffer[c])])
    BY DEF HonestPeersInTurn
  <2>1. PICK id \in DOMAIN peers : pid[c] = id /\ peers[id].outbound = c
    BY <1>1 DEF HasSender, NoOrphanEntry
  <2>2. stage[c] \notin Left
    BY DEF Framed, At, Left
  <2>3. PICK b \in Seq(Type), w \in Seq(Type) : b = recv_buffer[c] /\ w = wire[Other(c)]
    BY <1>1, TwoEnds DEF WayInv, WayTypeOK
  <2>4. PICK s \in Seq(Type) : s = Ahead(c) /\ s # <<>> /\ Head(s) = Head(b)
    BY <2>3, JoinedShape, ZenonT(60) DEF Ahead
  <2>5. peers[id].handshake \in Handshake
    BY <1>1 DEF TypeOK, TableTypeOK, PeerHandle
  <2>6. /\ peers[id].handshake = "AwaitingVersion" => greeted[c] = <<>>
        /\ peers[id].handshake = "AwaitingVerack" => greeted[c] = <<"Version">>
        /\ peers[id].handshake = "Ready" => Complete(c)
    BY <1>1, <2>1, Zenon DEF HandshakeIsEarned, Complete
  <2>7. /\ greeted[c] = <<>> => Head(s) = "version"
        /\ greeted[c] # <<>> => ~ Has(s, "version")
        /\ Has(s, "verack") => ~ Complete(c)
    BY <1>1, <2>2, <2>4 DEF WayInv, VersionFirst, OneVerack
  <2>8. Has(s, Head(s))
    BY <2>4, HasTail
  <2>9. <<>> # <<"Version">> /\ <<>> # <<"Version", "Verack">>
    OBVIOUS
  <2>10. CASE Head(b) = "version"
    <3>1. greeted[c] = <<>>
      BY <2>4, <2>7, <2>8, <2>10
    <3>2. peers[id].handshake = "AwaitingVersion"
      BY <2>5, <2>6, <2>9, <3>1 DEF Handshake, Complete
    <3> QED BY <2>1, <2>3, <2>10, <3>2 DEF Advances, advance, Err, Event
  <2>11. CASE Head(b) = "verack"
    <3>1. greeted[c] # <<>> /\ ~ Complete(c)
      BY <2>4, <2>7, <2>8, <2>11
    <3>2. peers[id].handshake = "AwaitingVerack"
      BY <2>5, <2>6, <3>1 DEF Handshake
    <3> QED BY <2>1, <2>3, <2>11, <3>2 DEF Advances, advance, Err, Event
  <2> QED BY <2>3, <2>10, <2>11 DEF Event
<1> QED
  BY <1>1, LoopbackIsConnections, TypeCorrect, OwnEntryHolds, NoOrphanHolds, HandshakeHolds,
     WayHolds, PTL

\* An end that has its peer for Ready has been heard by that peer: the verack
\* it accepted was promised by a reader that had handled its version.
THEOREM ReadyHolds == LoopbackSpec => []ReadyMeansHeard
<1>1. ASSUME NoOrphanEntry, HandshakeIsEarned, WayInv
      PROVE  ReadyMeansHeard
  <2> SUFFICES ASSUME NEW c \in Conn, HasSender(c), handshake_of(pid[c]) = "Ready",
                      stage[Other(c)] \in InReadLoop
               PROVE  greeted[Other(c)] # <<>>
    BY DEF ReadyMeansHeard
  <2>1. PICK id \in DOMAIN peers : pid[c] = id /\ peers[id].outbound = c
    BY <1>1 DEF HasSender, NoOrphanEntry
  <2>2. Complete(c)
    BY <1>1, <2>1 DEF HandshakeIsEarned, Complete, handshake_of
  <2>3. stage[Other(c)] \notin Left
    BY DEF InReadLoop, Left
  <2> QED BY <1>1, <2>2, <2>3 DEF WayInv, OneVerack
<1> QED
  BY <1>1, LoopbackIsConnections, NoOrphanHolds, HandshakeHolds, WayHolds, PTL
=============================================================================
