--------------------------- MODULE NodeLogProofs ---------------------------
(***************************************************************************)
(* The mutex and the log behind it, for every set of threads, capacity and *)
(* number of records.                                                      *)
(***************************************************************************)
EXTENDS NodeLog, FiniteSetTheorems, SequenceTheorems, TLAPS

Place == {"running", "printing", "logging", "pushing", "inside", "unwinding", "ended"}

LogTypeOK ==
  /\ pc \in [Thread -> Place] /\ count \in [Thread -> 0 .. MaxRecords]
  /\ entries \in Seq(Entry) /\ printed \in Seq(Entry)

\* The lock is held by the threads that push or use the table, at most one,
\* and none of them prints: that is why a panic never meets the lock.
LockInv ==
  /\ NeverPoisoned
  /\ holder = {t \in Thread : pc[t] \in {"pushing", "inside"}}
  /\ \A t, u \in holder : t = u

\* A thread that records has begun a record, and has printed it once it is
\* about to push it.
RecordBegun ==
  /\ \A t \in Thread : pc[t] \in {"printing", "logging", "pushing"} => count[t] > 0
  /\ \A t \in Thread : Pending(t) => \E p \in DOMAIN printed : printed[p] = Current(t)

\* Stdout shows the records of a thread in the order it began them, and not
\* yet the one it is about to print.
PrintedInTurn ==
  /\ \A p \in DOMAIN printed :
       /\ printed[p].nr <= count[printed[p].by]
       /\ pc[printed[p].by] = "printing" => printed[p].nr < count[printed[p].by]
  /\ \A p, q \in DOMAIN printed :
       p < q /\ printed[p].by = printed[q].by => printed[p].nr < printed[q].nr

Waiting == {t \in Thread : Pending(t)}

\* No more threads wait to push than there are printed entries.
WaitingFits == Cardinality(Waiting) <= Len(printed)

LogInv == LogTypeOK /\ LockInv /\ RecordBegun /\ PrintedInTurn /\ WaitingFits /\ LogIsRecentOutput

-----------------------------------------------------------------------------
LEMMA LeastOfTwo ==
  ASSUME NEW a \in Int, NEW b \in Int
  PROVE  Min({a, b}) = IF a <= b THEN a ELSE b
<1> DEFINE least == IF a <= b THEN a ELSE b
<1>1. least \in {a, b} /\ \A y \in {a, b} : least <= y
  OBVIOUS
<1>2. \A x \in {a, b} : (\A y \in {a, b} : x <= y) => x = least
  OBVIOUS
<1> HIDE DEF least
<1>3. Min({a, b}) = least
  BY <1>1, <1>2 DEF Min
<1> QED
  BY <1>3 DEF least

\* push keeps the last entries, as many as there is room for, and the new one
\* behind them.
LEMMA PushShape ==
  ASSUME NEW log \in Seq(Entry), NEW e \in Entry
  PROVE  LET kept == IF LOG_CAPACITY <= Len(log) + 1 THEN LOG_CAPACITY ELSE Len(log) + 1
             gone == Len(log) + 1 - kept
         IN  /\ kept \in Nat /\ gone \in Nat
             /\ push(log, e) \in Seq(Entry) /\ Len(push(log, e)) = kept
             /\ \A i \in 1 .. kept :
                  push(log, e)[i] = IF i + gone <= Len(log) THEN log[i + gone] ELSE e
<1> DEFINE longer == Append(log, e)
           kept == IF LOG_CAPACITY <= Len(log) + 1 THEN LOG_CAPACITY ELSE Len(log) + 1
           gone == Len(log) + 1 - kept
<1>1. longer \in Seq(Entry) /\ Len(longer) = Len(log) + 1
  BY AppendProperties
<1>2. \A i \in 1 .. Len(log) + 1 : longer[i] = IF i <= Len(log) THEN log[i] ELSE e
  BY AppendProperties
<1>3. kept \in Nat /\ gone \in Nat /\ kept <= Len(log) + 1
  BY LogAssumption
<1>4. Min({LOG_CAPACITY, Len(longer)}) = kept
  <2>1. Min({LOG_CAPACITY, Len(log) + 1}) = kept
    BY LeastOfTwo, LogAssumption
  <2> QED
    BY <1>1, <2>1
<1>5. push(log, e) = SubSeq(longer, gone + 1, Len(log) + 1)
  <2>1. push(log, e) = SubSeq(longer, Len(longer) - Min({LOG_CAPACITY, Len(longer)}) + 1, Len(longer))
    BY DEF push
  <2> HIDE DEF longer, kept
  <2>2. (Len(log) + 1) - kept + 1 = gone + 1
    BY <1>3
  <2>3. push(log, e) = SubSeq(longer, (Len(log) + 1) - kept + 1, Len(log) + 1)
    BY <2>1, <1>1, <1>4, Zenon
  <2> QED
    BY <2>2, <2>3, Zenon
<1> HIDE DEF longer, kept
<1>6. \A i \in gone + 1 .. Len(log) + 1 : longer[i] \in Entry
  BY <1>1, <1>3, ElementOfSeq
<1>7. /\ push(log, e) \in Seq(Entry)
      /\ Len(push(log, e)) = IF gone + 1 <= Len(log) + 1 THEN Len(log) + 1 - (gone + 1) + 1 ELSE 0
      /\ \A i \in 1 .. Len(log) + 1 - (gone + 1) + 1 : push(log, e)[i] = longer[gone + 1 + i - 1]
  BY <1>3, <1>5, <1>6, SubSeqProperties
<1>8. Len(log) + 1 - (gone + 1) + 1 = kept
  BY <1>3
<1>9. Len(push(log, e)) = kept
  BY <1>3, <1>7
<1>10. ASSUME NEW i \in 1 .. kept
       PROVE  push(log, e)[i] = IF i + gone <= Len(log) THEN log[i + gone] ELSE e
  <2>1. gone + 1 + i - 1 = i + gone /\ i + gone \in 1 .. Len(log) + 1
    BY <1>3
  <2>2. push(log, e)[i] = longer[i + gone]
    BY <1>7, <1>8, <2>1
  <2> QED
    BY <1>2, <2>1, <2>2
<1> QED
  BY <1>3, <1>7, <1>9, <1>10 DEF kept

-----------------------------------------------------------------------------
LEMMA LogTypeStep ==
  ASSUME LogTypeOK, RecordBegun, [Next]_vars
  PROVE  LogTypeOK'
<1> USE LogAssumption DEF LogTypeOK
<1>1. ASSUME NEW t \in Thread, count[t] > 0 PROVE Current(t) \in Entry
  BY <1>1 DEF Current, Entry
<1>2. ASSUME NEW t \in Thread, BeginRecord(t) PROVE LogTypeOK'
  BY <1>2 DEF BeginRecord, Goes, Place
<1>3. ASSUME NEW t \in Thread, WriteLine(t) PROVE LogTypeOK'
  <2>1. Current(t) \in Entry
    BY <1>1, <1>3 DEF WriteLine, Goes, RecordBegun
  <2>2. printed' \in Seq(Entry)
    BY <1>3, <2>1, AppendProperties DEF WriteLine
  <2> QED
    BY <1>3, <2>2 DEF WriteLine, Goes, Place
<1>4. ASSUME NEW t \in Thread, PrintPanics(t) PROVE LogTypeOK'
  BY <1>4 DEF PrintPanics, Goes, Place
<1>5. ASSUME NEW t \in Thread, LockToPush(t) PROVE LogTypeOK'
  BY <1>5 DEF LockToPush, Goes, Place
<1>6. ASSUME NEW t \in Thread, Push(t) PROVE LogTypeOK'
  <2>1. Current(t) \in Entry
    BY <1>1, <1>6 DEF Push, Goes, RecordBegun
  <2>2. entries' \in Seq(Entry)
    BY <1>6, <2>1, PushShape DEF Push
  <2> QED
    BY <1>6, <2>2 DEF Push, Goes, Place
<1>7. ASSUME NEW t \in Thread, LockTable(t) PROVE LogTypeOK'
  BY <1>7 DEF LockTable, Goes, Place
<1>8. ASSUME NEW t \in Thread, UnlockTable(t) PROVE LogTypeOK'
  BY <1>8 DEF UnlockTable, Goes, Place
<1>9. ASSUME NEW t \in Thread, DropGuard(t) PROVE LogTypeOK'
  BY <1>9 DEF DropGuard, Place
<1>10. CASE StdoutTurns
  BY <1>10 DEF StdoutTurns
<1>11. CASE UNCHANGED vars
  BY <1>11 DEF vars
<1> QED
  BY <1>2, <1>3, <1>4, <1>5, <1>6, <1>7, <1>8, <1>9, <1>10, <1>11 DEF Next, Step, AllEnded

LEMMA LockStep ==
  ASSUME LogTypeOK, LockInv, [Next]_vars
  PROVE  LockInv'
<1> USE DEF LogTypeOK, LockInv, NeverPoisoned
<1>1. ASSUME NEW t \in Thread, BeginRecord(t) PROVE LockInv'
  BY <1>1 DEF BeginRecord, Goes
<1>2. ASSUME NEW t \in Thread, WriteLine(t) PROVE LockInv'
  BY <1>2 DEF WriteLine, Goes
<1>3. ASSUME NEW t \in Thread, PrintPanics(t) PROVE LockInv'
  BY <1>3 DEF PrintPanics, Goes
<1>4. ASSUME NEW t \in Thread, LockToPush(t) PROVE LockInv'
  BY <1>4 DEF LockToPush, Goes, Takes
<1>5. ASSUME NEW t \in Thread, Push(t) PROVE LockInv'
  BY <1>5 DEF Push, Goes
<1>6. ASSUME NEW t \in Thread, LockTable(t) PROVE LockInv'
  BY <1>6 DEF LockTable, Goes
<1>7. ASSUME NEW t \in Thread, UnlockTable(t) PROVE LockInv'
  BY <1>7 DEF UnlockTable, Goes
<1>8. ASSUME NEW t \in Thread, DropGuard(t) PROVE LockInv'
  BY <1>8 DEF DropGuard
<1>9. CASE StdoutTurns
  BY <1>9 DEF StdoutTurns
<1>10. CASE UNCHANGED vars
  BY <1>10 DEF vars
<1> QED
  BY <1>1, <1>2, <1>3, <1>4, <1>5, <1>6, <1>7, <1>8, <1>9, <1>10 DEF Next, Step, AllEnded

-----------------------------------------------------------------------------
LEMMA PrintedStep ==
  ASSUME LogTypeOK, RecordBegun, PrintedInTurn, [Next]_vars
  PROVE  RecordBegun' /\ PrintedInTurn'
<1> USE LogAssumption DEF LogTypeOK
<1>1. \A p \in DOMAIN printed : printed[p].by \in Thread /\ printed[p].nr \in Nat
  <2>1. \A p \in DOMAIN printed : printed[p] \in Entry
    OBVIOUS
  <2> QED
    BY <2>1 DEF Entry
<1>2. ASSUME NEW t \in Thread, WriteLine(t) PROVE RecordBegun' /\ PrintedInTurn'
  <2> DEFINE n == Len(printed)
  <2>1. Current(t) \in Entry
    BY <1>2 DEF WriteLine, Goes, RecordBegun, Current, Entry
  <2>2. /\ printed' \in Seq(Entry) /\ Len(printed') = n + 1
        /\ \A p \in 1 .. n : printed'[p] = printed[p]
        /\ printed'[n + 1] = Current(t)
    BY <1>2, <2>1, AppendProperties DEF WriteLine
  <2>3. DOMAIN printed = 1 .. n /\ DOMAIN printed' = 1 .. n + 1 /\ n \in Nat
    BY <2>2
  <2>4. /\ count' = count /\ pc[t] = "printing"
        /\ pc' = [pc EXCEPT ![t] = "logging"]
    BY <1>2 DEF WriteLine, Goes
  <2>5. Current(t).by = t /\ Current(t).nr = count[t]
    BY DEF Current
  <2>6. \A u \in Thread : Current(u)' = Current(u)
    BY <2>4 DEF Current
  <2> HIDE DEF n
  <2>7. RecordBegun'
    <3>1. ASSUME NEW u \in Thread, Pending(u)' PROVE \E p \in DOMAIN printed' : printed'[p] = Current(u)'
      <4>1. CASE u = t
        <5>1. n + 1 \in DOMAIN printed' /\ printed'[n + 1] = Current(u)'
          BY <4>1, <2>2, <2>3, <2>6
        <5> QED
          BY <5>1
      <4>2. CASE u # t
        <5>1. Pending(u)
          BY <3>1, <4>2, <2>4 DEF Pending
        <5>2. PICK p \in DOMAIN printed : printed[p] = Current(u)
          BY <5>1 DEF RecordBegun
        <5> QED
          BY <5>2, <2>2, <2>3, <2>6
      <4> QED
        BY <4>1, <4>2
    <3>2. \A u \in Thread : pc'[u] \in {"printing", "logging", "pushing"} => count'[u] > 0
      BY <2>4 DEF RecordBegun
    <3> QED
      BY <3>1, <3>2 DEF RecordBegun
  <2>8. \A p \in 1 .. n : printed[p].by = t => printed[p].nr < count[t]
    BY <2>3, <2>4 DEF PrintedInTurn
  <2>9. ASSUME NEW p \in DOMAIN printed'
        PROVE  /\ printed'[p].nr <= count'[printed'[p].by]
               /\ pc'[printed'[p].by] = "printing" => printed'[p].nr < count'[printed'[p].by]
    <3>1. CASE p \in 1 .. n
      BY <3>1, <1>1, <2>2, <2>3, <2>4, <2>8 DEF PrintedInTurn
    <3>2. CASE p = n + 1
      BY <3>2, <2>2, <2>4, <2>5
    <3> QED
      BY <3>1, <3>2, <2>3
  <2>10. ASSUME NEW p \in DOMAIN printed', NEW q \in DOMAIN printed',
                p < q, printed'[p].by = printed'[q].by
         PROVE  printed'[p].nr < printed'[q].nr
    <3>1. p \in 1 .. n
      BY <2>3, <2>10
    <3>2. CASE q \in 1 .. n
      BY <3>1, <3>2, <2>2, <2>3, <2>10 DEF PrintedInTurn
    <3>3. CASE q = n + 1
      BY <3>1, <3>3, <2>2, <2>5, <2>8, <2>10
    <3> QED
      BY <3>2, <3>3, <2>3
  <2> QED
    BY <2>7, <2>9, <2>10 DEF PrintedInTurn
<1>3. ASSUME NEW t \in Thread, BeginRecord(t) PROVE RecordBegun' /\ PrintedInTurn'
  <2>1. /\ printed' = printed /\ pc[t] = "running"
        /\ pc' = [pc EXCEPT ![t] = "printing"]
        /\ count' = [count EXCEPT ![t] = @ + 1]
    BY <1>3 DEF BeginRecord, Goes
  <2>2. RecordBegun'
    BY <2>1 DEF RecordBegun, Pending, Current
  <2>3. PrintedInTurn'
    BY <1>1, <2>1 DEF PrintedInTurn
  <2> QED
    BY <2>2, <2>3
<1>4. ASSUME printed' = printed, count' = count,
             \A u \in Thread : pc'[u] \in {"printing", "logging", "pushing"} => pc[u] \in {"printing", "logging", "pushing"},
             \A u \in Thread : pc'[u] \in {"logging", "pushing"} => pc[u] \in {"logging", "pushing"},
             \A u \in Thread : pc'[u] = "printing" => pc[u] = "printing"
      PROVE  RecordBegun' /\ PrintedInTurn'
  <2>1. RecordBegun'
    BY <1>4 DEF RecordBegun, Pending, Current
  <2>2. PrintedInTurn'
    BY <1>1, <1>4 DEF PrintedInTurn
  <2> QED
    BY <2>1, <2>2
<1>5. ASSUME NEW t \in Thread, PrintPanics(t) PROVE RecordBegun' /\ PrintedInTurn'
  BY <1>4, <1>5 DEF PrintPanics, Goes
<1>6. ASSUME NEW t \in Thread, LockToPush(t) PROVE RecordBegun' /\ PrintedInTurn'
  BY <1>4, <1>6 DEF LockToPush, Goes
<1>7. ASSUME NEW t \in Thread, Push(t) PROVE RecordBegun' /\ PrintedInTurn'
  BY <1>4, <1>7 DEF Push, Goes
<1>8. ASSUME NEW t \in Thread, LockTable(t) PROVE RecordBegun' /\ PrintedInTurn'
  BY <1>4, <1>8 DEF LockTable, Goes
<1>9. ASSUME NEW t \in Thread, UnlockTable(t) PROVE RecordBegun' /\ PrintedInTurn'
  BY <1>4, <1>9 DEF UnlockTable, Goes
<1>10. ASSUME NEW t \in Thread, DropGuard(t) PROVE RecordBegun' /\ PrintedInTurn'
  BY <1>4, <1>10 DEF DropGuard
<1>11. CASE StdoutTurns
  BY <1>4, <1>11 DEF StdoutTurns
<1>12. CASE UNCHANGED vars
  BY <1>4, <1>12 DEF vars
<1> QED
  BY <1>2, <1>3, <1>5, <1>6, <1>7, <1>8, <1>9, <1>10, <1>11, <1>12 DEF Next, Step, AllEnded

-----------------------------------------------------------------------------
\* A step that neither prints nor pushes: stdout, the log and who waits to
\* push what are as they were.
Quiet ==
  /\ printed' = printed /\ entries' = entries
  /\ \A u \in Thread : (Pending(u)' <=> Pending(u)) /\ (Pending(u) => Current(u)' = Current(u))

LEMMA StepKinds ==
  ASSUME LogTypeOK, [Next]_vars
  PROVE  Quiet \/ (\E t \in Thread : WriteLine(t)) \/ (\E t \in Thread : Push(t))
<1> USE DEF LogTypeOK
<1>1. ASSUME NEW t \in Thread, BeginRecord(t) PROVE Quiet
  BY <1>1 DEF BeginRecord, Goes, Quiet, Pending, Current
<1>2. ASSUME NEW t \in Thread, PrintPanics(t) PROVE Quiet
  BY <1>2 DEF PrintPanics, Goes, Quiet, Pending, Current
<1>3. ASSUME NEW t \in Thread, LockToPush(t) PROVE Quiet
  BY <1>3 DEF LockToPush, Goes, Quiet, Pending, Current
<1>4. ASSUME NEW t \in Thread, LockTable(t) PROVE Quiet
  BY <1>4 DEF LockTable, Goes, Quiet, Pending, Current
<1>5. ASSUME NEW t \in Thread, UnlockTable(t) PROVE Quiet
  BY <1>5 DEF UnlockTable, Goes, Quiet, Pending, Current
<1>6. ASSUME NEW t \in Thread, DropGuard(t) PROVE Quiet
  BY <1>6 DEF DropGuard, Quiet, Pending, Current
<1>7. CASE StdoutTurns
  BY <1>7 DEF StdoutTurns, Quiet, Pending, Current
<1>8. CASE UNCHANGED vars
  BY <1>8 DEF vars, Quiet, Pending, Current
<1> QED
  BY <1>1, <1>2, <1>3, <1>4, <1>5, <1>6, <1>7, <1>8 DEF Next, Step, AllEnded

LEMMA QuietKeepsLog ==
  ASSUME Quiet, WaitingFits, LogIsRecentOutput
  PROVE  WaitingFits' /\ LogIsRecentOutput'
<1>1. printed' = printed /\ entries' = entries
  BY DEF Quiet
<1>2. Waiting' = Waiting
  BY DEF Quiet, Waiting
<1>3. {Current(t)' : t \in Waiting'} = {Current(t) : t \in Waiting}
  BY <1>2 DEF Quiet, Waiting
<1>4. Settled' = Settled
  BY <1>1, <1>3 DEF Settled, Waiting
<1>5. \A e, f : Before(e, f)' <=> Before(e, f)
  BY <1>1 DEF Before
<1>6. WaitingFits'
  BY <1>1, <1>2 DEF WaitingFits
<1>7. LogIsRecentOutput'
  BY <1>1, <1>2, <1>4, <1>5
     DEF LogIsRecentOutput, FillsItsRoom, OnlySettled, InThreadOrder, LatestOfThread, Waiting
<1> QED
  BY <1>6, <1>7

\* An entry that is printed waits to be pushed: it adds to stdout and to
\* those who wait, and the log is as recent as it was.
LEMMA WriteLineKeepsLog ==
  ASSUME LogTypeOK, RecordBegun, PrintedInTurn, WaitingFits, LogIsRecentOutput,
         NEW t \in Thread, WriteLine(t)
  PROVE  WaitingFits' /\ LogIsRecentOutput'
<1> DEFINE n == Len(printed)
           c == Current(t)
<1>1. /\ pc \in [Thread -> Place] /\ count \in [Thread -> 0 .. MaxRecords]
      /\ entries \in Seq(Entry) /\ printed \in Seq(Entry) /\ MaxRecords \in Nat
      /\ IsFiniteSet(Thread) /\ LOG_CAPACITY \in Nat
  BY LogAssumption DEF LogTypeOK
<1>2. /\ entries' = entries /\ count' = count /\ pc[t] = "printing"
      /\ pc' = [pc EXCEPT ![t] = "logging"] /\ printed' = Append(printed, c)
  BY DEF WriteLine, Goes
<1>3. c \in Entry /\ c.by = t /\ c.nr = count[t]
  BY <1>1, <1>2 DEF RecordBegun, Current, Entry
<1>4. /\ Len(printed') = n + 1 /\ printed'[n + 1] = c
      /\ \A p \in 1 .. n : printed'[p] = printed[p]
      /\ printed' \in Seq(Entry)
  BY <1>1, <1>2, <1>3, AppendProperties
<1> HIDE DEF c
<1>5. DOMAIN printed = 1 .. n /\ DOMAIN printed' = 1 .. n + 1 /\ n \in Nat
  BY <1>1, <1>4
<1> HIDE DEF n
<1>6. \A p \in 1 .. n : printed[p] # c
  BY <1>1, <1>2, <1>3, <1>5 DEF PrintedInTurn
<1>7. t \notin Waiting /\ Waiting' = Waiting \cup {t}
  BY <1>1, <1>2 DEF Waiting, Pending
<1>8. IsFiniteSet(Waiting)
  BY <1>1, FS_Subset DEF Waiting
<1>9. Cardinality(Waiting') = Cardinality(Waiting) + 1 /\ Cardinality(Waiting) \in Nat
  BY <1>7, <1>8, FS_AddElement, FS_CardinalityType
<1>10. Settled' = Settled
  <2>1. {printed'[p] : p \in DOMAIN printed'} = {printed[p] : p \in DOMAIN printed} \cup {c}
    BY <1>4, <1>5
  <2>2. \A u : Current(u)' = Current(u)
    BY <1>2 DEF Current
  <2>3. {Current(u)' : u \in Waiting'} = {Current(u) : u \in Waiting} \cup {c}
    BY <1>7, <2>2 DEF c
  <2>4. c \notin {printed[p] : p \in DOMAIN printed}
    BY <1>5, <1>6
  <2> QED
    BY <2>1, <2>3, <2>4 DEF Settled, Waiting
<1>11. \A e, f : Before(e, f) => Before(e, f)'
  BY <1>4, <1>5 DEF Before
<1>12. \A e : \A f \in Settled : Before(e, f)' => Before(e, f)
  <2>1. ASSUME NEW e, NEW f \in Settled, Before(e, f)' PROVE Before(e, f)
    <3>1. PICK p \in 1 .. n + 1, q \in 1 .. n + 1 : p < q /\ printed'[p] = e /\ printed'[q] = f
      BY <1>5, <2>1 DEF Before
    <3>2. f # c
      BY <1>5, <1>6 DEF Settled
    <3>3. p \in 1 .. n /\ q \in 1 .. n
      BY <3>1, <3>2, <1>4, <1>5
    <3> QED
      BY <3>1, <3>3, <1>4, <1>5 DEF Before
  <2> QED
    BY <2>1
<1>13. WaitingFits'
  BY <1>4, <1>5, <1>9 DEF WaitingFits, n
<1>14. Len(printed') - Cardinality(Waiting') = Len(printed) - Cardinality(Waiting)
  BY <1>4, <1>5, <1>9 DEF n
<1>15. LogIsRecentOutput'
  <2>1. FillsItsRoom'
    <3>1. Len(entries) = Min({LOG_CAPACITY, Len(printed) - Cardinality(Waiting)})
      BY DEF LogIsRecentOutput, FillsItsRoom, Waiting
    <3>2. Len(entries') = Min({LOG_CAPACITY, Len(printed') - Cardinality(Waiting')})
      BY <3>1, <1>2, <1>14, Zenon
    <3> QED
      BY <3>2 DEF FillsItsRoom, Waiting
  <2>2. OnlySettled'
    BY <1>2, <1>10 DEF LogIsRecentOutput, OnlySettled
  <2>3. InThreadOrder'
    BY <1>2, <1>11 DEF LogIsRecentOutput, InThreadOrder
  <2>4. LatestOfThread'
    BY <1>2, <1>10, <1>12 DEF LogIsRecentOutput, LatestOfThread
  <2> QED
    BY <2>1, <2>2, <2>3, <2>4 DEF LogIsRecentOutput
<1> QED
  BY <1>13, <1>15

\* Stdout never shows two entries of a thread in both orders.
LEMMA BeforeIsStrict ==
  ASSUME LogTypeOK, PrintedInTurn, NEW e, NEW f, Before(e, f), e.by = f.by
  PROVE  e.nr < f.nr /\ e.nr \in Nat /\ f.nr \in Nat
<1>1. PICK p \in DOMAIN printed, q \in DOMAIN printed : p < q /\ printed[p] = e /\ printed[q] = f
  BY DEF Before
<1>2. e \in Entry /\ f \in Entry
  BY <1>1 DEF LogTypeOK
<1> QED
  BY <1>1, <1>2 DEF PrintedInTurn, Entry

\* A pushed entry follows all of its thread's in the log, as it did on
\* stdout; what falls out at the front is older than what stays.
LEMMA PushKeepsLog ==
  ASSUME LogTypeOK, RecordBegun, PrintedInTurn, WaitingFits, LogIsRecentOutput,
         NEW t \in Thread, Push(t)
  PROVE  WaitingFits' /\ LogIsRecentOutput'
<1> DEFINE c == Current(t)
           m == Len(entries)
           kept == IF LOG_CAPACITY <= m + 1 THEN LOG_CAPACITY ELSE m + 1
           gone == m + 1 - kept
<1>1. /\ pc \in [Thread -> Place] /\ count \in [Thread -> 0 .. MaxRecords]
      /\ entries \in Seq(Entry) /\ printed \in Seq(Entry) /\ MaxRecords \in Nat
      /\ IsFiniteSet(Thread) /\ LOG_CAPACITY \in Nat
  BY LogAssumption DEF LogTypeOK
<1>2. /\ printed' = printed /\ count' = count /\ pc[t] = "pushing"
      /\ pc' = [pc EXCEPT ![t] = "running"] /\ entries' = push(entries, c)
  BY DEF Push, Goes
<1>3. c \in Entry /\ c.by = t /\ c.nr = count[t] /\ Pending(t)
  BY <1>1, <1>2 DEF RecordBegun, Current, Entry, Pending
<1>4. PICK pos \in DOMAIN printed : printed[pos] = c
  BY <1>3 DEF RecordBegun
<1>5. /\ kept \in Nat /\ gone \in Nat /\ entries' \in Seq(Entry) /\ Len(entries') = kept
      /\ \A i \in 1 .. kept : entries'[i] = IF i + gone <= m THEN entries[i + gone] ELSE c
  BY <1>1, <1>2, <1>3, PushShape
<1>6. /\ DOMAIN entries = 1 .. m /\ DOMAIN entries' = 1 .. kept /\ m \in Nat
      /\ kept + gone = m + 1
  BY <1>1, <1>5
<1>7. /\ t \in Waiting /\ Waiting' = Waiting \ {t}
  BY <1>1, <1>2, <1>3 DEF Waiting, Pending
<1>8. IsFiniteSet(Waiting)
  BY <1>1, FS_Subset DEF Waiting
<1>9. Cardinality(Waiting') = Cardinality(Waiting) - 1 /\ Cardinality(Waiting) \in Nat
  BY <1>7, <1>8, FS_RemoveElement, FS_CardinalityType
<1>10. WaitingFits'
  BY <1>1, <1>2, <1>9 DEF WaitingFits
<1>11. FillsItsRoom'
  <2>1. Len(printed) \in Nat /\ Cardinality(Waiting) <= Len(printed)
    BY <1>1 DEF WaitingFits
  <2>2. m = Min({LOG_CAPACITY, Len(printed) - Cardinality(Waiting)})
    BY DEF LogIsRecentOutput, FillsItsRoom, Waiting
  <2>3. m = IF LOG_CAPACITY <= Len(printed) - Cardinality(Waiting)
            THEN LOG_CAPACITY ELSE Len(printed) - Cardinality(Waiting)
    BY <1>1, <1>9, <2>1, <2>2, LeastOfTwo, SMTT(60)
  <2>4. kept = IF LOG_CAPACITY <= Len(printed) - Cardinality(Waiting) + 1
               THEN LOG_CAPACITY ELSE Len(printed) - Cardinality(Waiting) + 1
    BY <1>1, <1>9, <2>1, <2>3
  <2>5. Len(printed') - Cardinality(Waiting') = Len(printed) - Cardinality(Waiting) + 1
    BY <1>2, <1>9, <2>1
  <2>6. Len(printed) - Cardinality(Waiting) + 1 \in Int
    BY <1>9, <2>1
  <2>7. kept = Min({LOG_CAPACITY, Len(printed) - Cardinality(Waiting) + 1})
    <3> HIDE DEF kept
    <3> QED
      BY <1>1, <2>4, <2>6, LeastOfTwo
  <2> HIDE DEF kept
  <2>8. Len(entries') = Min({LOG_CAPACITY, Len(printed') - Cardinality(Waiting')})
    BY <1>5, <2>5, <2>7, Zenon
  <2> QED
    BY <2>8 DEF FillsItsRoom, Waiting
<1> HIDE DEF c, m, kept, gone
<1>12. Settled' = Settled \cup {c} /\ c \notin Settled
  <2>1. \A u : Current(u)' = Current(u)
    BY <1>2 DEF Current
  <2>2. \A u \in Waiting : u # t => Current(u) # c
    BY <1>3 DEF Current
  <2>3. {Current(u)' : u \in Waiting'} = {Current(u) : u \in Waiting} \ {c}
    BY <1>7, <2>1, <2>2 DEF c
  <2>4. c \in {Current(u) : u \in Waiting} /\ c \in {printed[p] : p \in DOMAIN printed}
    BY <1>4, <1>7 DEF c
  <2> QED
    BY <1>2, <2>3, <2>4 DEF Settled, Waiting
<1>13. \A e, f : Before(e, f)' <=> Before(e, f)
  BY <1>2 DEF Before
<1>14. OnlySettled'
  BY <1>5, <1>6, <1>12 DEF LogIsRecentOutput, OnlySettled
<1>15. \A e \in Settled : e.by = t => Before(e, c)
  <2>1. ASSUME NEW e \in Settled, e.by = t PROVE Before(e, c)
    <3>1. PICK p \in DOMAIN printed : printed[p] = e
      BY DEF Settled
    <3>2. e # c /\ e \in Entry
      BY <1>1, <1>12, <3>1
    <3>3. e.nr <= count[t] /\ e.nr \in Nat
      BY <2>1, <3>1, <3>2 DEF PrintedInTurn, Entry
    <3>4. DOMAIN printed \subseteq Nat /\ p # pos
      BY <1>1, <1>4, <3>1, <3>2
    <3>5. ~ (pos < p)
      BY <1>1, <1>3, <1>4, <2>1, <3>1, <3>3 DEF PrintedInTurn
    <3> QED
      BY <1>4, <3>1, <3>4, <3>5 DEF Before
  <2> QED
    BY <2>1
<1>16. InThreadOrder'
  <2>1. ASSUME NEW i \in 1 .. kept, NEW j \in 1 .. kept, i < j, entries'[i].by = entries'[j].by
        PROVE  Before(entries'[i], entries'[j])
    <3>1. i + gone \in 1 .. m /\ entries'[i] = entries[i + gone]
      BY <1>5, <1>6, <2>1
    <3>2. CASE j + gone <= m
      <4>1. j + gone \in 1 .. m /\ entries'[j] = entries[j + gone] /\ i + gone < j + gone
        BY <1>5, <1>6, <2>1, <3>2
      <4> QED
        BY <1>6, <2>1, <3>1, <4>1 DEF LogIsRecentOutput, InThreadOrder
    <3>3. CASE ~ (j + gone <= m)
      <4>1. entries'[j] = c
        BY <1>5, <3>3
      <4>2. entries'[i] \in Settled
        BY <1>6, <3>1 DEF LogIsRecentOutput, OnlySettled
      <4> QED
        BY <1>3, <1>15, <2>1, <4>1, <4>2
    <3> QED
      BY <3>2, <3>3
  <2> QED
    BY <1>6, <1>13, <2>1 DEF InThreadOrder
<1>17. LatestOfThread'
  <2>1. ASSUME NEW i \in 1 .. kept, NEW f \in Settled',
               f.by = entries'[i].by, Before(entries'[i], f)
        PROVE  \E j \in 1 .. kept : entries'[j] = f
    <3>1. entries'[i].nr < f.nr /\ entries'[i].nr \in Nat /\ f.nr \in Nat
      BY <2>1, BeforeIsStrict
    <3>2. CASE f = c
      <4>1. kept \in 1 .. kept /\ ~ (kept + gone <= m)
        BY <1>5, <1>6, <2>1
      <4> QED
        BY <1>5, <3>2, <4>1
    <3>3. CASE f # c
      <4>1. f \in Settled
        BY <1>12, <3>3
      <4>2. entries'[i] # c
        <5>1. f \in {printed[p] : p \in DOMAIN printed}
          BY <4>1 DEF Settled
        <5>2. f.by = t => f.nr <= count[t]
          BY <5>1 DEF PrintedInTurn
        <5>3. count[t] \in Nat
          BY <1>1
        <5> QED
          BY <1>3, <2>1, <3>1, <5>2, <5>3
      <4>3. i + gone \in 1 .. m /\ entries'[i] = entries[i + gone]
        BY <1>5, <1>6, <2>1, <4>2
      <4>4. PICK k \in 1 .. m : entries[k] = f
        BY <1>6, <2>1, <4>1, <4>3 DEF LogIsRecentOutput, LatestOfThread
      <4>5. ~ (k <= i + gone)
        <5>1. k # i + gone
          BY <3>1, <4>3, <4>4
        <5>2. ASSUME k < i + gone PROVE FALSE
          <6>1. Before(f, entries'[i])
            BY <1>6, <2>1, <4>3, <4>4, <5>2 DEF LogIsRecentOutput, InThreadOrder
          <6>2. f.nr < entries'[i].nr
            BY <2>1, <6>1, BeforeIsStrict
          <6> QED
            BY <3>1, <6>2
        <5> QED
          BY <4>3, <4>4, <5>1, <5>2
      <4>6. k - gone \in 1 .. kept /\ (k - gone) + gone = k
        BY <1>5, <1>6, <2>1, <4>3, <4>4, <4>5
      <4>7. entries'[k - gone] = f
        BY <1>5, <4>4, <4>6
      <4> QED
        BY <4>6, <4>7
    <3> QED
      BY <3>2, <3>3
  <2> QED
    BY <1>6, <1>13, <2>1 DEF LatestOfThread
<1> QED
  BY <1>10, <1>11, <1>14, <1>16, <1>17 DEF LogIsRecentOutput

-----------------------------------------------------------------------------
LEMMA LogInit == Init => LogInv
<1> SUFFICES ASSUME Init PROVE LogInv
  OBVIOUS
<1>1. entries = <<>> /\ printed = <<>> /\ DOMAIN entries = {} /\ DOMAIN printed = {}
  BY DEF Init
<1>2. Waiting = {} /\ Cardinality(Waiting) = 0
  <2>1. Waiting = {}
    BY DEF Init, Waiting, Pending
  <2> QED
    BY <2>1, FS_EmptySet
<1>3. LogTypeOK
  BY LogAssumption, EmptySeq DEF Init, LogTypeOK, Place
<1>4. LockInv
  BY DEF Init, LockInv, NeverPoisoned
<1>5. RecordBegun
  BY DEF Init, RecordBegun, Pending
<1>6. PrintedInTurn /\ OnlySettled /\ InThreadOrder /\ LatestOfThread
  BY <1>1 DEF PrintedInTurn, OnlySettled, InThreadOrder, LatestOfThread
<1>7. Len(printed) = 0 /\ Len(entries) = 0
  BY <1>1, EmptySeq
<1>8. WaitingFits
  BY <1>2, <1>7 DEF WaitingFits
<1>9. FillsItsRoom
  <2>1. Min({LOG_CAPACITY, 0}) = 0
    BY LeastOfTwo, LogAssumption
  <2>2. Len(printed) - Cardinality(Waiting) = 0
    BY <1>2, <1>7
  <2> QED
    BY <1>7, <2>1, <2>2 DEF FillsItsRoom, Waiting
<1> QED
  BY <1>3, <1>4, <1>5, <1>6, <1>8, <1>9 DEF LogInv, LogIsRecentOutput

\* The lock's owner, stdout and the log keep step, whatever the threads do.
THEOREM LogInvHolds == Spec => []LogInv
<1>1. LogInv /\ [Next]_vars => LogInv'
  <2> SUFFICES ASSUME LogInv, [Next]_vars PROVE LogInv'
    OBVIOUS
  <2> USE DEF LogInv
  <2>1. LogTypeOK' /\ LockInv' /\ RecordBegun' /\ PrintedInTurn'
    BY LogTypeStep, LockStep, PrintedStep
  <2>2. WaitingFits' /\ LogIsRecentOutput'
    BY StepKinds, QuietKeepsLog, WriteLineKeepsLog, PushKeepsLog
  <2> QED
    BY <2>1, <2>2
<1> QED
  BY <1>1, LogInit, PTL DEF Spec

\* The node's mutex is never poisoned (record of src/node.rs prints before it
\* locks), so no expect on it fires.
THEOREM NeverPoisonedHolds == Spec => []NeverPoisoned
<1>1. LogInv => NeverPoisoned
  BY DEF LogInv, LockInv
<1> QED
  BY <1>1, LogInvHolds, PTL

\* The log holds the latest of what stdout showed, of each thread in order,
\* and is as full as it can be (record and Log::push of src/node.rs).
THEOREM RecentOutputHolds == Spec => []LogIsRecentOutput
<1>1. LogInv => LogIsRecentOutput
  BY DEF LogInv
<1> QED
  BY <1>1, LogInvHolds, PTL
=============================================================================
