------------------------------- MODULE Drain -------------------------------
(***************************************************************************)
(* How long a writer outlives its table entry.  The entry, and with it the *)
(* only sender, is gone; write_loop still writes what it holds and what    *)
(* the channel buffers, with a ping wherever one is due.  Connections      *)
(* shows that this ends; here there is a clock.                            *)
(*                                                                         *)
(* write_all is a sequence of writes.  A write that finds no room for all  *)
(* it was given waits for the peer to take something, up to WRITE_TIMEOUT  *)
(* in all, not from one part to the next.  If by then it has placed a part *)
(* it returns how much, and write_all begins another with the rest; if it  *)
(* has placed nothing it fails.  Time passes only while a write waits: the *)
(* rest of the loop is not slow.                                           *)
(***************************************************************************)
EXTENDS Integers

CONSTANTS
  OUTBOUND_QUEUE,
  UNITS,           \* the parts in which a peer may take one message
  WRITE_TIMEOUT,
  PING_INTERVAL

ASSUME DrainAssumption ==
  /\ OUTBOUND_QUEUE \in Nat
  /\ UNITS \in Nat \ {0} /\ WRITE_TIMEOUT \in Nat \ {0} /\ PING_INTERVAL \in Nat \ {0}

VARIABLES
  stage,      \* "writing" a message, "pinging", at the "top", in "recv", or "ended"
  queued,     \* how many messages the channel still buffers
  left,       \* the parts of the message in hand not yet taken
  waited,     \* how long the present write has waited
  placed,     \* the present write has placed a part
  next_ping,  \* the time until a ping is due
  elapsed,    \* history: the time since the entry was removed
  silent      \* history: the time since then in which the peer took nothing, up to now

vars == <<stage, queued, left, waited, placed, next_ping, elapsed, silent>>

-----------------------------------------------------------------------------
\* write_all of a whole message.
Begins(s) == stage' = s /\ left' = UNITS

\* A write has returned; the next one begins with nothing placed.
Returns == waited' = 0 /\ placed' = FALSE

Waiting == stage \in {"writing", "pinging"} /\ left > 0

Expired_Never == FALSE

\* SO_SNDTIMEO of the write half.
Expired == waited = WRITE_TIMEOUT

Tick ==
  /\ Waiting /\ ~ Expired
  /\ waited' = waited + 1
  /\ elapsed' = elapsed + 1 /\ silent' = silent + 1
  /\ next_ping' = IF next_ping = 0 THEN 0 ELSE next_ping - 1
  /\ UNCHANGED <<stage, queued, left, placed>>

\* The peer makes room for a part; the write goes on waiting for the rest.
PeerTakes ==
  /\ Waiting
  /\ left' = left - 1 /\ placed' = TRUE
  /\ silent' = 0
  /\ UNCHANGED <<stage, queued, waited, next_ping, elapsed>>

\* A write that has placed a part returns, at the latest when its time is up,
\* and write_all begins another.
ShortWrite ==
  /\ Waiting /\ placed
  /\ Returns
  /\ UNCHANGED <<stage, queued, left, next_ping, elapsed, silent>>

WriteTimesOut ==
  /\ Waiting /\ Expired /\ ~ placed
  /\ stage' = "ended"
  /\ UNCHANGED <<queued, left, waited, placed, next_ping, elapsed, silent>>

\* write_all of the opening, or of a queued message, is done.
Written ==
  /\ stage = "writing" /\ left = 0
  /\ stage' = "top"
  /\ Returns
  /\ UNCHANGED <<queued, left, next_ping, elapsed, silent>>

\* The time of the next ping is not set anew, so that another one is written
\* before the queue is looked at.
PingWritten_StaysDue ==
  /\ stage = "pinging" /\ left = 0
  /\ stage' = "top"
  /\ Returns
  /\ UNCHANGED <<queued, left, next_ping, elapsed, silent>>

PingWritten ==
  /\ stage = "pinging" /\ left = 0
  /\ stage' = "recv"
  /\ next_ping' = PING_INTERVAL
  /\ Returns
  /\ UNCHANGED <<queued, left, elapsed, silent>>

Top ==
  /\ stage = "top"
  /\ \/ next_ping = 0 /\ Begins("pinging")
     \/ next_ping > 0 /\ stage' = "recv" /\ UNCHANGED left
  /\ UNCHANGED <<queued, waited, placed, next_ping, elapsed, silent>>

\* What is buffered comes before the disconnect.
Recv ==
  /\ stage = "recv" /\ queued > 0
  /\ queued' = queued - 1
  /\ Begins("writing")
  /\ UNCHANGED <<waited, placed, next_ping, elapsed, silent>>

Disconnected ==
  /\ stage = "recv" /\ queued = 0
  /\ stage' = "ended"
  /\ UNCHANGED <<queued, left, waited, placed, next_ping, elapsed, silent>>

Ended == stage = "ended" /\ UNCHANGED vars

-----------------------------------------------------------------------------
\* Wherever the writer is when the entry goes.
Init ==
  /\ \/ /\ stage \in {"writing", "pinging"} /\ left \in 1 .. UNITS
        /\ waited \in 0 .. WRITE_TIMEOUT
        /\ placed \in {b \in BOOLEAN : b => left < UNITS}
     \/ stage \in {"top", "recv"} /\ left = 0 /\ waited = 0 /\ placed = FALSE
  /\ queued \in 0 .. OUTBOUND_QUEUE
  /\ next_ping \in 0 .. PING_INTERVAL
  /\ elapsed = 0 /\ silent = 0

Next ==
  \/ Tick \/ PeerTakes \/ ShortWrite \/ WriteTimesOut \/ Written \/ PingWritten
  \/ Top \/ Recv \/ Disconnected \/ Ended

Spec == Init /\ [][Next]_vars

-----------------------------------------------------------------------------
(* Properties.                                                             *)

\* A peer that has stopped reading keeps its writer no longer than two
\* timeouts, whenever it stops, however much is queued for it and whatever
\* pings fall due: the second one only if the write it stopped in had placed
\* a part.
StoppedReaderBound == silent <= 2 * WRITE_TIMEOUT

\* A peer that reads as slowly as it may keeps its writer for at most a
\* timeout per part of what is in hand, of what is queued, and of one ping
\* ahead of each: pings due meanwhile do not feed the loop.
DrainBound == elapsed <= WRITE_TIMEOUT * UNITS * (2 + 2 * OUTBOUND_QUEUE)
=============================================================================
