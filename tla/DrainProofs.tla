---------------------------- MODULE DrainProofs ----------------------------
(***************************************************************************)
(* The two bounds on how long a writer outlives its entry, for every queue *)
(* length, message size, timeout and ping interval.                        *)
(*                                                                         *)
(* The argument: Remaining is what the peer can still cost the writer, one *)
(* timeout for each part of what is in hand, of what is queued, and of a   *)
(* ping ahead of each; a step never makes elapsed and Remaining together   *)
(* larger.                                                                 *)
(***************************************************************************)
EXTENDS Drain, TLAPS

\* The shape of the writer, and what is known of its write: between two
\* messages there is none, and one that has placed a part has less to place.
DrainTypeOK ==
  /\ stage \in {"writing", "pinging", "top", "recv", "ended"}
  /\ queued \in 0 .. OUTBOUND_QUEUE
  /\ left \in 0 .. UNITS /\ waited \in 0 .. WRITE_TIMEOUT
  /\ next_ping \in 0 .. PING_INTERVAL
  /\ elapsed \in Nat /\ silent \in Nat
  /\ placed \in BOOLEAN
  /\ placed => left < UNITS
  /\ stage \in {"top", "recv"} => waited = 0 /\ ~ placed

\* Once a write has placed a part, the peer has been silent for no longer than
\* that write has waited; in a write that has placed nothing, for no longer
\* than that and the whole of the write before it.  A message that is done was
\* done by the peer taking the last of it.
SilentInv ==
  /\ stage \in {"writing", "pinging"} =>
       /\ placed => silent <= waited
       /\ silent <= WRITE_TIMEOUT + waited
       /\ left = 0 => silent = 0
  /\ stage \in {"top", "recv"} => silent = 0
  /\ silent <= 2 * WRITE_TIMEOUT

\* What a message, a ping included, may take to write.
PerMessage == WRITE_TIMEOUT * UNITS

\* What the message in hand may still take: a timeout for every part of it,
\* less what the present write has waited, and one more for the rest of a
\* write that has its part.
InHand ==
  IF left = 0 THEN 0
  ELSE IF placed THEN left * WRITE_TIMEOUT + WRITE_TIMEOUT - waited
  ELSE left * WRITE_TIMEOUT - waited

\* What the queue may take, with a ping ahead of each message.
Behind == queued * (2 * PerMessage)

\* What each place of the loop may still take: a ping ahead of the queue only
\* where the top is still to come.
Remaining ==
  CASE stage = "writing" -> InHand + PerMessage + Behind
    [] stage = "pinging" -> InHand + Behind
    [] stage = "top"     -> PerMessage + Behind
    [] stage = "recv"    -> Behind
    [] stage = "ended"   -> 0

Budget == WRITE_TIMEOUT * UNITS * (2 + 2 * OUTBOUND_QUEUE)

\* What has passed and what is to come never exceed the bound.
DrainInv == elapsed + Remaining <= Budget
-----------------------------------------------------------------------------
\* Wherever the writer is when the entry goes, it has its shape.
LEMMA DrainTypeInit == Init => DrainTypeOK
<1> USE DrainAssumption
<1> SUFFICES ASSUME Init PROVE DrainTypeOK
  OBVIOUS
<1>1. placed \in BOOLEAN
  BY Zenon DEF Init
<1>2. CASE stage \in {"top", "recv"}
  BY <1>1, <1>2 DEF Init, DrainTypeOK
<1>3. CASE stage \notin {"top", "recv"}
  <2>1. placed => left < UNITS
    BY <1>3 DEF Init
  <2> QED BY <1>1, <1>3, <2>1 DEF Init, DrainTypeOK
<1> QED BY <1>2, <1>3

\* The writer keeps its shape.
LEMMA DrainTypeCorrect == Spec => []DrainTypeOK
<1> USE DrainAssumption
<1>1. DrainTypeOK /\ [Next]_vars => DrainTypeOK'
  <2> SUFFICES ASSUME DrainTypeOK, [Next]_vars PROVE DrainTypeOK'
    OBVIOUS
  <2>0. placed' \in BOOLEAN
    BY Zenon
    DEF DrainTypeOK, Next, vars, Tick, PeerTakes, ShortWrite, WriteTimesOut, Written,
        PingWritten, Top, Recv, Disconnected, Ended, Returns
  <2> USE DEF DrainTypeOK
  <2>1. CASE Tick
    BY <2>0, <2>1 DEF Tick, Waiting, Expired
  <2>2. CASE PeerTakes
    BY <2>0, <2>2 DEF PeerTakes, Waiting
  <2>3. CASE ShortWrite \/ Written \/ PingWritten
    BY <2>0, <2>3 DEF ShortWrite, Written, PingWritten, Returns, Waiting
  <2>4. CASE Top \/ Recv
    BY <2>0, <2>4 DEF Top, Recv, Begins
  <2>5. CASE WriteTimesOut \/ Disconnected \/ Ended \/ UNCHANGED vars
    BY <2>0, <2>5 DEF WriteTimesOut, Disconnected, Ended, vars
  <2> QED BY <2>1, <2>2, <2>3, <2>4, <2>5 DEF Next
<1> QED BY <1>1, DrainTypeInit, PTL DEF Spec

\* A peer that takes nothing costs the writer two timeouts at most, however
\* many messages are queued and whether or not a ping is due.
THEOREM StoppedReaderHolds == Spec => []StoppedReaderBound
<1> USE DrainAssumption
<1>1. Init => SilentInv
  BY DrainTypeInit DEF Init, SilentInv, DrainTypeOK
<1>2. DrainTypeOK /\ SilentInv /\ [Next]_vars => SilentInv'
  <2> SUFFICES ASSUME DrainTypeOK, SilentInv, [Next]_vars PROVE SilentInv'
    OBVIOUS
  <2> USE DEF DrainTypeOK, SilentInv
  <2>1. CASE Tick
    BY <2>1 DEF Tick, Waiting, Expired
  <2>2. CASE PeerTakes
    BY <2>2 DEF PeerTakes, Waiting
  <2>3. CASE ShortWrite
    BY <2>3 DEF ShortWrite, Waiting, Returns
  <2>4. CASE Written \/ PingWritten
    BY <2>4 DEF Written, PingWritten, Returns
  <2>5. CASE Top \/ Recv
    BY <2>5 DEF Top, Recv, Begins
  <2>6. CASE WriteTimesOut \/ Disconnected \/ Ended \/ UNCHANGED vars
    BY <2>6 DEF WriteTimesOut, Disconnected, Ended, vars
  <2> QED BY <2>1, <2>2, <2>3, <2>4, <2>5, <2>6 DEF Next
<1>3. SilentInv => StoppedReaderBound
  BY DEF SilentInv, StoppedReaderBound
<1> QED BY <1>1, <1>2, <1>3, DrainTypeCorrect, PTL DEF Spec

\* What one part less in hand, one message less in the queue, and the whole
\* queue come to.
LEMMA Costs ==
  ASSUME DrainTypeOK
  PROVE  /\ PerMessage \in Nat
         /\ left * WRITE_TIMEOUT \in Nat
         /\ (left - 1) * WRITE_TIMEOUT = left * WRITE_TIMEOUT - WRITE_TIMEOUT
         /\ left * WRITE_TIMEOUT <= PerMessage
         /\ left < UNITS => left * WRITE_TIMEOUT + WRITE_TIMEOUT <= PerMessage
         /\ left > 0 => left * WRITE_TIMEOUT >= WRITE_TIMEOUT
         /\ UNITS * WRITE_TIMEOUT = PerMessage
         /\ queued * (2 * PerMessage) \in Nat
         /\ (queued - 1) * (2 * PerMessage) = queued * (2 * PerMessage) - 2 * PerMessage
         /\ Budget \in Nat
         /\ 2 * PerMessage + queued * (2 * PerMessage) <= Budget
<1> USE DrainAssumption DEF DrainTypeOK
<1>1. PerMessage \in Nat /\ UNITS * WRITE_TIMEOUT = PerMessage
  BY DEF PerMessage
<1>2. /\ left * WRITE_TIMEOUT \in Nat
      /\ (left - 1) * WRITE_TIMEOUT = left * WRITE_TIMEOUT - WRITE_TIMEOUT
  OBVIOUS
<1>3. /\ left * WRITE_TIMEOUT <= UNITS * WRITE_TIMEOUT
      /\ left < UNITS => left * WRITE_TIMEOUT + WRITE_TIMEOUT <= UNITS * WRITE_TIMEOUT
      /\ left > 0 => left * WRITE_TIMEOUT >= WRITE_TIMEOUT
  <2>1. \A i, j, n \in Nat : i <= j => i * n <= j * n
    OBVIOUS
  <2>2. (left + 1) * WRITE_TIMEOUT = left * WRITE_TIMEOUT + WRITE_TIMEOUT
    OBVIOUS
  <2>3. left > 0 => 1 * WRITE_TIMEOUT <= left * WRITE_TIMEOUT
    BY <2>1
  <2>4. left < UNITS => (left + 1) * WRITE_TIMEOUT <= UNITS * WRITE_TIMEOUT
    BY <2>1
  <2> QED BY <2>1, <2>2, <2>3, <2>4
<1>4. ASSUME NEW p \in Nat
      PROVE  /\ queued * (2 * p) \in Nat
             /\ (queued - 1) * (2 * p) = queued * (2 * p) - 2 * p
             /\ queued * (2 * p) <= OUTBOUND_QUEUE * (2 * p)
             /\ p * (2 + 2 * OUTBOUND_QUEUE) \in Nat
             /\ p * (2 + 2 * OUTBOUND_QUEUE) = 2 * p + OUTBOUND_QUEUE * (2 * p)
  <2>1. \A i, j, n \in Nat : i <= j => i * n <= j * n
    OBVIOUS
  <2>2. queued * (2 * p) <= OUTBOUND_QUEUE * (2 * p)
    BY <2>1
  <2> QED BY <2>2
<1>5. Budget = PerMessage * (2 + 2 * OUTBOUND_QUEUE)
  BY DEF Budget, PerMessage
<1> QED BY <1>1, <1>2, <1>3, <1>4, <1>5

\* The message in hand never costs more than a whole one.
LEMMA HandCost ==
  ASSUME DrainTypeOK
  PROVE  InHand \in Nat /\ InHand <= PerMessage
<1> USE DrainAssumption DEF DrainTypeOK
<1>1. CASE left = 0
  BY <1>1, Costs DEF InHand
<1>2. CASE left > 0 /\ placed
  BY <1>2, Costs DEF InHand
<1>3. CASE left > 0 /\ ~ placed
  BY <1>3, Costs DEF InHand
<1> QED BY <1>1, <1>2, <1>3

\* However slowly the peer reads, the writer is gone within one timeout for
\* every part of what was in hand and queued, and of one ping ahead of each.
THEOREM DrainHolds == Spec => []DrainBound
<1> USE DrainAssumption
<1>1. Init => DrainInv
  <2> SUFFICES ASSUME Init PROVE DrainInv
    OBVIOUS
  <2>1. DrainTypeOK
    BY DrainTypeInit
  <2>2. PerMessage \in Nat /\ Behind \in Nat /\ 2 * PerMessage + Behind <= Budget /\ Budget \in Nat
    BY <2>1, Costs DEF Behind
  <2>3. InHand \in Nat /\ InHand <= PerMessage
    BY <2>1, HandCost
  <2> QED BY <2>1, <2>2, <2>3 DEF Init, Remaining, DrainInv
<1>2. DrainTypeOK /\ DrainInv /\ [Next]_vars => DrainInv'
  <2> SUFFICES ASSUME DrainTypeOK, DrainInv, [Next]_vars
               PROVE  DrainInv'
    OBVIOUS
  <2>0. /\ PerMessage \in Nat /\ Behind \in Nat /\ Budget \in Nat /\ elapsed \in Nat
        /\ InHand \in Nat /\ (left = 0 => InHand = 0)
        /\ UNCHANGED <<PerMessage, Budget>>
    <3>1. UNCHANGED <<PerMessage, Budget>>
      BY DEF PerMessage, Budget
    <3> QED BY <3>1, Costs, HandCost DEF DrainTypeOK, InHand, Behind
  <2>1. CASE Tick
    <3>1. /\ InHand' = InHand - 1 /\ elapsed' = elapsed + 1
          /\ UNCHANGED <<stage, Behind>> /\ stage \in {"writing", "pinging"}
      BY <2>1, Costs DEF Tick, Waiting, InHand, Behind, DrainTypeOK
    <3> QED BY <2>0, <3>1 DEF DrainInv, Remaining
  <2>2. CASE PeerTakes \/ ShortWrite
    <3>1. UNCHANGED <<stage, Behind, elapsed>> /\ stage \in {"writing", "pinging"}
      BY <2>2 DEF PeerTakes, ShortWrite, Waiting, Behind
    <3>2. CASE PeerTakes
      <4>1. InHand' \in Int /\ InHand' <= InHand
        BY <2>0, <3>2, Costs DEF PeerTakes, Waiting, InHand, DrainTypeOK
      <4> QED BY <2>0, <3>1, <4>1 DEF DrainInv, Remaining
    <3>3. CASE ShortWrite
      <4>1. InHand' \in Int /\ InHand' <= InHand
        BY <3>3, Costs DEF ShortWrite, Returns, Waiting, InHand, DrainTypeOK
      <4> QED BY <2>0, <3>1, <4>1 DEF DrainInv, Remaining
    <3> QED BY <2>2, <3>2, <3>3
  <2>3. CASE WriteTimesOut
    BY <2>0, <2>3 DEF WriteTimesOut, Waiting, DrainInv, Remaining
  <2>4. CASE Written \/ PingWritten
    <3>1. UNCHANGED <<Behind, elapsed>> /\ left = 0
      BY <2>4 DEF Written, PingWritten, Behind
    <3> QED BY <2>0, <2>4, <3>1 DEF Written, PingWritten, DrainInv, Remaining
  <2>5. CASE Top
    <3>1. UNCHANGED <<Behind, elapsed>> /\ stage = "top"
      BY <2>5 DEF Top, Behind
    <3>2. CASE Begins("pinging")
      <4>1. stage' = "pinging" /\ InHand' = PerMessage
        BY <2>5, <3>2, Costs DEF Top, Begins, InHand, DrainTypeOK
      <4> QED BY <2>0, <3>1, <4>1 DEF DrainInv, Remaining
    <3>3. CASE stage' = "recv"
      BY <2>0, <3>1, <3>3 DEF DrainInv, Remaining
    <3> QED BY <2>5, <3>2, <3>3 DEF Top
  <2>6. CASE Recv
    <3>1. /\ stage = "recv" /\ stage' = "writing" /\ UNCHANGED elapsed
          /\ InHand' = PerMessage /\ Behind' = Behind - 2 * PerMessage
      BY <2>0, <2>6, Costs DEF Recv, Begins, InHand, Behind, DrainTypeOK
    <3> QED BY <2>0, <3>1 DEF DrainInv, Remaining
  <2>7. CASE Disconnected
    BY <2>0, <2>7 DEF Disconnected, DrainInv, Remaining
  <2>8. CASE Ended \/ UNCHANGED vars
    <3>1. UNCHANGED <<stage, elapsed, left, waited, placed, queued>>
      BY <2>8, Zenon DEF Ended, vars
    <3>2. UNCHANGED <<InHand, Behind>>
      BY <3>1, Zenon DEF InHand, Behind, PerMessage
    <3> QED BY <2>0, <3>1, <3>2 DEF DrainInv, Remaining
  <2> QED BY <2>1, <2>2, <2>3, <2>4, <2>5, <2>6, <2>7, <2>8 DEF Next
<1>3. DrainTypeOK /\ DrainInv => DrainBound
  <2> SUFFICES ASSUME DrainTypeOK, DrainInv PROVE DrainBound
    OBVIOUS
  <2>1. Remaining \in Int /\ Remaining >= 0
    <3>1. PerMessage \in Nat /\ Behind \in Nat /\ InHand \in Nat
      BY Costs, HandCost DEF Behind
    <3> QED BY <3>1 DEF Remaining, DrainTypeOK
  <2> QED BY <2>1, Costs DEF DrainInv, DrainBound, Budget, DrainTypeOK
<1> QED BY <1>1, <1>2, <1>3, DrainTypeCorrect, PTL DEF Spec
=============================================================================
