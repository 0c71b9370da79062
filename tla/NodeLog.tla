------------------------------ MODULE NodeLog ------------------------------
(***************************************************************************)
(* The one mutex around the node, the log behind it, and record            *)
(* (src/node.rs): every thread prints its entry first, outside the lock,   *)
(* and then takes the lock to push it.  Between records the threads use    *)
(* the peer table under the same lock.                                     *)
(*                                                                         *)
(* Stdout is the environment's: it flows, blocks for as long as it likes,  *)
(* or is closed, and println! then panics.  A panic poisons the mutex if   *)
(* the thread holds it; record and the guard's drop recover a poisoned     *)
(* lock, the other sections (expect) die of it.                            *)
(*                                                                         *)
(* An entry is the number of a record of a thread.  printed is history.    *)
(***************************************************************************)
EXTENDS Integers, Sequences, FiniteSets, FiniteSetsExt

CONSTANTS
  Thread,
  LOG_CAPACITY,   \* how many entries the log keeps
  MaxRecords      \* bound: the records of one thread

ASSUME LogAssumption ==
  /\ IsFiniteSet(Thread)
  /\ LOG_CAPACITY \in Nat /\ MaxRecords \in Nat

VARIABLES
  holder,     \* the threads that hold the node's lock
  poisoned,   \* the mutex is poisoned
  pc,         \* where each thread is
  count,      \* the records each thread has begun
  entries,    \* Log.entries, oldest first
  stdout,     \* "open", "blocked" or "closed"
  printed     \* history: what stdout shows

vars == <<holder, poisoned, pc, count, entries, stdout, printed>>

Entry == [by : Thread, nr : 1 .. MaxRecords]

Current(t) == [by |-> t, nr |-> count[t]]

Goes(t, from, to) == pc[t] = from /\ pc' = [pc EXCEPT ![t] = to]

Takes(t) == holder = {} /\ holder' = {t}

-----------------------------------------------------------------------------
push_KeepsOldest(log, entry) ==
  IF Len(log) < LOG_CAPACITY THEN Append(log, entry) ELSE log

\* Log::push: the oldest entries go until the capacity is met again.
push(log, entry) ==
  LET longer == Append(log, entry)
  IN  SubSeq(longer, Len(longer) - Min({LOG_CAPACITY, Len(longer)}) + 1, Len(longer))

-----------------------------------------------------------------------------
(* record.                                                                 *)

BeginRecord(t) ==
  /\ count[t] < MaxRecords
  /\ Goes(t, "running", "printing")
  /\ count' = [count EXCEPT ![t] = @ + 1]
  /\ UNCHANGED <<holder, poisoned, entries, stdout, printed>>

WriteLine(t) ==
  /\ stdout = "open"
  /\ Goes(t, "printing", "logging")
  /\ printed' = Append(printed, Current(t))
  /\ UNCHANGED <<holder, poisoned, count, entries, stdout>>

PrintPanics(t) ==
  /\ stdout = "closed"
  /\ Goes(t, "printing", "unwinding")
  /\ poisoned' = (poisoned \/ t \in holder)
  /\ holder' = holder \ {t}
  /\ UNCHANGED <<count, entries, stdout, printed>>

LockToPush(t) ==
  /\ Goes(t, "logging", "pushing")
  /\ Takes(t)
  /\ UNCHANGED <<poisoned, count, entries, stdout, printed>>

Push(t) ==
  /\ Goes(t, "pushing", "running")
  /\ entries' = push(entries, Current(t))
  /\ holder' = holder \ {t}
  /\ UNCHANGED <<poisoned, count, stdout, printed>>

-----------------------------------------------------------------------------
(* The other uses of the lock.                                             *)

\* node.lock().expect(...): a use of the table, or a death by poison.
LockTable(t) ==
  /\ Goes(t, "running", IF poisoned THEN "unwinding" ELSE "inside")
  /\ holder = {}
  /\ holder' = IF poisoned THEN {} ELSE {t}
  /\ UNCHANGED <<poisoned, count, entries, stdout, printed>>

UnlockTable_PrintFails(t) ==
  /\ Goes(t, "inside", IF stdout = "closed" THEN "unwinding" ELSE "running")
  /\ poisoned' = (poisoned \/ stdout = "closed")
  /\ holder' = holder \ {t}
  /\ UNCHANGED <<count, entries, stdout, printed>>

UnlockTable_Prints(t) ==
  /\ stdout # "blocked"
  /\ Goes(t, "inside", "running")
  /\ holder' = holder \ {t}
  /\ UNCHANGED <<poisoned, count, entries, stdout, printed>>

UnlockTable(t) ==
  /\ Goes(t, "inside", "running")
  /\ holder' = holder \ {t}
  /\ UNCHANGED <<poisoned, count, entries, stdout, printed>>

\* Registered::drop while the thread unwinds, or as it ends.
DropGuard(t) ==
  /\ pc[t] \in {"running", "unwinding"}
  /\ pc' = [pc EXCEPT ![t] = "ended"]
  /\ holder = {}
  /\ UNCHANGED <<holder, poisoned, count, entries, stdout, printed>>

-----------------------------------------------------------------------------
\* A pipe blocks and flows again; once its reader is gone it stays closed.
StdoutTurns ==
  /\ stdout # "closed"
  /\ stdout' \in {"open", "blocked", "closed"} \ {stdout}
  /\ UNCHANGED <<holder, poisoned, pc, count, entries, printed>>

AllEnded == (\A t \in Thread : pc[t] = "ended") /\ UNCHANGED vars

Init ==
  /\ holder = {} /\ poisoned = FALSE
  /\ pc = [t \in Thread |-> "running"]
  /\ count = [t \in Thread |-> 0]
  /\ entries = <<>> /\ printed = <<>>
  /\ stdout = "open"

Step(t) ==
  \/ BeginRecord(t) \/ WriteLine(t) \/ PrintPanics(t) \/ LockToPush(t) \/ Push(t)
  \/ LockTable(t) \/ UnlockTable(t) \/ DropGuard(t)

Next == (\E t \in Thread : Step(t)) \/ StdoutTurns \/ AllEnded

Spec == Init /\ [][Next]_vars

\* Threads are scheduled.  Nothing is assumed of stdout, which may block for
\* ever, nor of the mutex, which may starve a thread.
FairSpec == Spec /\ \A t \in Thread : WF_vars(Step(t))

-----------------------------------------------------------------------------
(* Properties.                                                             *)

\* A print that fails costs the thread that printed and no other: the mutex
\* is never poisoned, so the expects on it never fire.
NeverPoisoned == ~ poisoned

\* Printed, and not yet pushed.
Pending(t) == pc[t] \in {"logging", "pushing"}

\* The printed entries that nobody is about to push.
Settled ==
  {printed[p] : p \in DOMAIN printed} \ {Current(t) : t \in {u \in Thread : Pending(u)}}

\* Stdout showed e before f.
Before(e, f) == \E p, q \in DOMAIN printed : p < q /\ printed[p] = e /\ printed[q] = f

FillsItsRoom ==
  Len(entries) =
    Min({LOG_CAPACITY, Len(printed) - Cardinality({t \in Thread : Pending(t)})})

OnlySettled == \A i \in DOMAIN entries : entries[i] \in Settled

InThreadOrder ==
  \A i, j \in DOMAIN entries :
    i < j /\ entries[i].by = entries[j].by => Before(entries[i], entries[j])

LatestOfThread ==
  \A i \in DOMAIN entries, f \in Settled :
    f.by = entries[i].by /\ Before(entries[i], f) => \E j \in DOMAIN entries : entries[j] = f

\* The log is recent activity as stdout showed it: whatever threads interleave
\* and die, it holds as many of the printed entries as it has room for, save
\* the ones that threads are about to push, and of each thread the latest, in
\* the order that thread printed them.
LogIsRecentOutput == FillsItsRoom /\ OnlySettled /\ InThreadOrder /\ LatestOfThread

\* Whoever has the node's lock gives it back, even while stdout blocks for
\* ever: a slow pipe stalls the threads that print and never the table.
LockIsReleased == \A t \in Thread : t \in holder ~> t \notin holder
=============================================================================
