---------------------------- MODULE OutboxProofs ----------------------------
(***************************************************************************)
(* Safety of the outbox for any number of rows and of concurrent workers,  *)
(* any number of attempts, any batch size and any number of crashes; what  *)
(* becomes of an event: nothing is given up early, nothing is called done  *)
(* that was not handled, and the outbox implements the safety part of      *)
(* Delivery.tla.                                                           *)
(***************************************************************************)
EXTENDS Outbox, TLAPS

\* A page is a set of rows.
LEMMA PageSubset == ASSUME NEW S, NEW T \in Page(S) PROVE T \subseteq S
  BY DEF Page

\* Where a worker keeps the row that it handles.
Cursor ==
    \A w \in Workers :
      pc[w] \in {"calling", "succeeded", "failing"} => cur[w] \in batch[w]

\* No worker ever reads a row that has no attempts left.
SnapshotBudget ==
    \A w \in Workers, e \in Events : snap[w][e] < MaxAttempts

\* Types are not inductive alone: an attempt counted from a snapshot stays
\* within MaxAttempts because rows that are read have attempts left, and they
\* have because every failure is counted from such a snapshot.
TInv == TypeOK /\ Cursor /\ SnapshotBudget /\ AttemptsBudget

LEMMA TInvInit == Init => TInv
  BY OutboxAssumption
  DEF Init, TInv, TypeOK, Cursor, SnapshotBudget, AttemptsBudget, Status, Pc, InFlight

\* A snapshot of rows in flight has attempts in it, all below MaxAttempts.
LEMMA AttemptsOfType ==
  ASSUME TInv, NEW S, \A e \in S : status[e] \in InFlight
  PROVE  /\ AttemptsOf(S) \in [Events -> 0..MaxAttempts]
         /\ \A e \in Events : AttemptsOf(S)[e] < MaxAttempts
  BY OutboxAssumption DEF AttemptsOf, TInv, TypeOK, AttemptsBudget

\* Ending a poll, and moving to the next row, leave a worker well typed.
LEMMA EndPollType ==
  ASSUME TInv, NEW w \in Workers, EndPoll(w)
  PROVE  /\ pc' \in [Workers -> Pc]
         /\ batch' \in [Workers -> SUBSET Events]
         /\ snap' \in [Workers -> [Events -> 0..MaxAttempts]]
         /\ cur' \in [Workers -> Events \cup {None}]
         /\ Cursor' /\ SnapshotBudget'
  <1>1. [e \in Events |-> 0] \in [Events -> 0..MaxAttempts]
    BY OutboxAssumption
  <1>2. QED
    BY <1>1, OutboxAssumption
    DEF TInv, TypeOK, Cursor, SnapshotBudget, EndPoll, Goto, Hold, Pc

LEMMA NextRowType ==
  ASSUME TInv, NEW w \in Workers, NextRow(w), cur[w] \in Events
  PROVE  /\ pc' \in [Workers -> Pc]
         /\ batch' \in [Workers -> SUBSET Events]
         /\ snap' \in [Workers -> [Events -> 0..MaxAttempts]]
         /\ cur' \in [Workers -> Events \cup {None}]
         /\ Cursor' /\ SnapshotBudget'
  <1>1. CASE EndPoll(w)
    BY <1>1, EndPollType
  <1>2. CASE ~EndPoll(w)
    <2>1. /\ pc' = [pc EXCEPT ![w] = "working"]
          /\ batch' = [batch EXCEPT ![w] = batch[w] \ {cur[w]}]
          /\ cur' = [cur EXCEPT ![w] = None]
          /\ snap' = [snap EXCEPT ![w][cur[w]] = 0]
      BY <1>2 DEF NextRow, Goto, Hold
    <2>2. /\ snap' \in [Workers -> [Events -> 0..MaxAttempts]]
          /\ SnapshotBudget'
      BY <2>1, OutboxAssumption DEF TInv, TypeOK, SnapshotBudget
    <2>3. batch' \in [Workers -> SUBSET Events]
      BY <2>1 DEF TInv, TypeOK
    <2>4. Cursor'
      BY <2>1 DEF TInv, TypeOK, Cursor
    <2>5. QED
      BY <2>1, <2>2, <2>3, <2>4 DEF TInv, TypeOK, Pc
  <1>3. QED
    BY <1>1, <1>2

\* Every step of every action preserves the types.
LEMMA TInvNext == TInv /\ [Next]_vars => TInv'
  <1> SUFFICES ASSUME TInv, [Next]_vars PROVE TInv'
    OBVIOUS
  <1> USE OutboxAssumption DEF TInv
  <1>1. ASSUME NEW e \in Events, Enqueue(e) PROVE TInv'
    <2>1. TypeOK' /\ Cursor' /\ SnapshotBudget'
      BY <1>1 DEF Enqueue, TypeOK, Cursor, SnapshotBudget, Status, workers, history
    <2>2. AttemptsBudget'
      BY <1>1 DEF Enqueue, TypeOK, AttemptsBudget, InFlight
    <2>3. QED
      BY <2>1, <2>2
  <1>2. ASSUME NEW e \in Events, TimeElapses(e) PROVE TInv'
    BY <1>2 DEF TimeElapses, TypeOK, Cursor, SnapshotBudget, AttemptsBudget,
                workers, history
  <1>3. ASSUME NEW w \in Workers, StartPoll(w) PROVE TInv'
    <2>1. PICK S \in Page(StaleRows) :
            /\ Goto(w, IF S = {} THEN "polling" ELSE "reaping")
            /\ Hold(w, S)
            /\ snap' = [snap EXCEPT ![w] = AttemptsOf(S)]
      BY <1>3 DEF StartPoll
    <2>2. S \subseteq Events /\ \A e \in S : status[e] \in InFlight
      BY <2>1, PageSubset DEF StaleRows, InFlight
    <2>3. snap' \in [Workers -> [Events -> 0..MaxAttempts]] /\ SnapshotBudget'
      BY <2>1, <2>2, AttemptsOfType DEF TypeOK, SnapshotBudget
    <2>4. TypeOK' /\ Cursor'
      BY <1>3, <2>1, <2>2, <2>3
      DEF StartPoll, TypeOK, Cursor, Goto, Hold, Pc, rows, history
    <2>5. QED
      BY <1>3, <2>3, <2>4 DEF StartPoll, rows, AttemptsBudget
  <1>4. ASSUME NEW w \in Workers, ReapStale(w) PROVE TInv'
    <2>1. snap' \in [Workers -> [Events -> 0..MaxAttempts]] /\ SnapshotBudget'
      BY <1>4, AttemptsOfType DEF ReapStale, StillIn, Exhausted, TypeOK, SnapshotBudget
    <2>2. status' \in [Events -> Status] /\ elapsed' \in [Events -> BOOLEAN]
      BY <1>4, Zenon DEF ReapStale, StillIn, Exhausted, TypeOK, Status
    <2>3. TypeOK' /\ Cursor'
      BY <1>4, <2>1, <2>2 DEF ReapStale, StillIn, Exhausted, TypeOK, Cursor, Goto, Hold, Pc, history
    <2>4. \A e \in batch[w] : ~(snap[w][e] >= MaxAttempts)
      BY DEF SnapshotBudget, TypeOK
    <2>5. \A e \in Events : status'[e] = IF e \in batch[w] /\ status[e] = "PROCESSING"
                                        THEN "PENDING" ELSE status[e]
      BY <1>4, <2>4 DEF ReapStale, StillIn, Exhausted
    <2>6. AttemptsBudget'
      BY <1>4, <2>5 DEF ReapStale, StillIn, Exhausted, AttemptsBudget, InFlight
    <2>7. QED
      BY <2>1, <2>3, <2>6
  <1>5. ASSUME NEW w \in Workers, ReadDue(w) PROVE TInv'
    <2>1. PICK S \in Page(DueRows) :
            /\ Goto(w, IF S = {} THEN "idle" ELSE "claiming")
            /\ Hold(w, S)
            /\ snap' = [snap EXCEPT ![w] = AttemptsOf(S)]
      BY <1>5 DEF ReadDue
    <2>2. S \subseteq Events /\ \A e \in S : status[e] \in InFlight
      BY <2>1, PageSubset DEF DueRows, InFlight
    <2>3. snap' \in [Workers -> [Events -> 0..MaxAttempts]] /\ SnapshotBudget'
      BY <2>1, <2>2, AttemptsOfType DEF TypeOK, SnapshotBudget
    <2>4. TypeOK' /\ Cursor'
      BY <1>5, <2>1, <2>2, <2>3
      DEF ReadDue, TypeOK, Cursor, Goto, Hold, Pc, rows, history
    <2>5. QED
      BY <1>5, <2>3, <2>4 DEF ReadDue, rows, AttemptsBudget
  <1>6. ASSUME NEW w \in Workers, Claim(w) PROVE TInv'
    <2>1. status' \in [Events -> Status] /\ elapsed' \in [Events -> BOOLEAN]
      BY <1>6, Zenon DEF Claim, StillIn, TypeOK, Status
    <2>2. AttemptsBudget'
      BY <1>6 DEF Claim, StillIn, TypeOK, AttemptsBudget, InFlight
    <2>3. CASE EndPoll(w)
      BY <1>6, <2>1, <2>2, <2>3, EndPollType DEF Claim, StillIn, TypeOK, history
    <2>4. CASE ~EndPoll(w)
      BY <1>6, <2>1, <2>2, <2>4
      DEF Claim, StillIn, TypeOK, Cursor, SnapshotBudget, Goto, Pc, history
    <2>5. QED
      BY <2>3, <2>4
  <1>7. ASSUME NEW w \in Workers, Reread(w) PROVE TInv'
    <2>1. CASE EndPoll(w)
      BY <1>7, <2>1, EndPollType DEF Reread, StillIn, TypeOK, rows, history, AttemptsBudget
    <2>2. CASE ~EndPoll(w)
      <3> DEFINE kept == {e \in batch[w] : status[e] = "PROCESSING"}
      <3>1. /\ pc' = [pc EXCEPT ![w] = "working"]
            /\ batch' = [batch EXCEPT ![w] = kept]
            /\ snap' = [snap EXCEPT ![w] =
                          [e \in Events |-> IF e \in kept THEN snap[w][e] ELSE 0]]
            /\ UNCHANGED <<rows, cur, history, aborts>>
        BY <1>7, <2>2 DEF Reread, StillIn, Goto, Hold
      <3>2. snap' \in [Workers -> [Events -> 0..MaxAttempts]] /\ SnapshotBudget'
        BY <3>1 DEF TypeOK, SnapshotBudget
      <3>3. batch' \in [Workers -> SUBSET Events] /\ pc' \in [Workers -> Pc]
        BY <3>1 DEF TypeOK, Pc
      <3>4. Cursor'
        BY <3>1, <1>7 DEF Reread, StillIn, TypeOK, Cursor
      <3>5. QED
        BY <3>1, <3>2, <3>3, <3>4 DEF TypeOK, AttemptsBudget, rows, history
    <2>3. QED
      BY <2>1, <2>2
  <1>8. ASSUME NEW w \in Workers, Dispatch(w) PROVE TInv'
    BY <1>8 DEF Dispatch, TypeOK, Cursor, SnapshotBudget, AttemptsBudget, Goto, Pc, rows, history
  <1>9. ASSUME NEW w \in Workers, HandlerReturns(w) PROVE TInv'
    BY <1>9 DEF HandlerReturns, TypeOK, Cursor, SnapshotBudget, AttemptsBudget,
                Goto, Pc, rows
  <1>10. ASSUME NEW w \in Workers, HandlerThrows(w) PROVE TInv'
    BY <1>10 DEF HandlerThrows, TypeOK, Cursor, SnapshotBudget, AttemptsBudget,
                 Goto, Pc, rows, history
  <1>11. ASSUME NEW w \in Workers, Finalize(w) PROVE TInv'
    <2>1. cur[w] \in Events
      BY <1>11 DEF Finalize, Cursor, TypeOK
    <2>2. AttemptsBudget'
      BY <1>11, <2>1 DEF Finalize, TypeOK, AttemptsBudget, InFlight
    <2>3. QED
      BY <1>11, <2>1, <2>2, NextRowType DEF Finalize, TypeOK, Status, history
  <1>12. ASSUME NEW w \in Workers, FinalizeFails(w) PROVE TInv'
    BY <1>12 DEF FinalizeFails, TypeOK, Cursor, SnapshotBudget, AttemptsBudget,
                 Goto, Pc, rows, history
  <1>13. ASSUME NEW w \in Workers, RecordFailure(w) PROVE TInv'
    <2>1. cur[w] \in Events
      BY <1>13 DEF RecordFailure, Exhausted, Cursor, TypeOK
    <2>2. CASE EndPoll(w) /\ UNCHANGED <<rows, strikes>>
      BY <1>13, <2>2, EndPollType DEF RecordFailure, Exhausted, TypeOK, rows, AttemptsBudget
    <2>3. CASE ~(EndPoll(w) /\ UNCHANGED <<rows, strikes>>)
      <3> DEFINE e == cur[w]
                 n == snap[w][e] + 1
      <3>1. /\ status' = [status EXCEPT ![e] = IF n >= MaxAttempts
                                               THEN "FAILED" ELSE "PENDING"]
            /\ attempts' = [attempts EXCEPT ![e] = n]
            /\ elapsed' = [elapsed EXCEPT ![e] = FALSE]
            /\ strikes' = [strikes EXCEPT ![e] = IF @ < MaxAttempts THEN @ + 1 ELSE @]
            /\ NextRow(w)
            /\ UNCHANGED <<delivered, aborts>>
        BY <1>13, <2>3 DEF RecordFailure, Exhausted
      <3>2. n \in 1..MaxAttempts
        BY <2>1 DEF SnapshotBudget, TypeOK
      <3>3. AttemptsBudget'
        BY <2>1, <3>1, <3>2 DEF AttemptsBudget, TypeOK, InFlight
      <3>4. /\ status' \in [Events -> Status]
            /\ attempts' \in [Events -> 0..MaxAttempts]
            /\ elapsed' \in [Events -> BOOLEAN]
            /\ strikes' \in [Events -> 0..MaxAttempts]
        BY <2>1, <3>1, <3>2 DEF TypeOK, Status
      <3>5. QED
        BY <2>1, <3>1, <3>3, <3>4, NextRowType DEF TypeOK
    <2>4. QED
      BY <2>2, <2>3
  <1>14. ASSUME NEW w \in Workers, Abort(w) PROVE TInv'
    BY <1>14, EndPollType DEF Abort, TypeOK, AttemptsBudget, rows, history
  <1>15. CASE UNCHANGED vars
    BY <1>15 DEF vars, rows, workers, history, TypeOK, Cursor, SnapshotBudget,
                 AttemptsBudget
  <1>16. QED
    BY <1>1, <1>2, <1>3, <1>4, <1>5, <1>6, <1>7, <1>8, <1>9, <1>10, <1>11,
       <1>12, <1>13, <1>14, <1>15 DEF Next, Poll

\* Types hold in every reachable state: no counter leaves its range and no
\* worker holds anything but rows of the table.
THEOREM OutboxTypes == Spec => []TypeOK
  <1>1. TInv => TypeOK
    BY DEF TInv
  <1>2. QED
    BY <1>1, TInvInit, TInvNext, PTL DEF Spec

\* A row that can be claimed or reaped has attempts left, and a row that was
\* given up has none (processRow, reapStaleProcessing).
THEOREM OutboxAttemptsBudget == Spec => []AttemptsBudget
  <1>1. TInv => AttemptsBudget
    BY DEF TInv
  <1>2. QED
    BY <1>1, TInvInit, TInvNext, PTL DEF Spec

-----------------------------------------------------------------------------
(* What becomes of an event                                                *)

\* Attempts, and what workers remember of them, never exceed the failures
\* recorded: a stale snapshot can only forget failures.
StrikesCover ==
    \A e \in Events : /\ attempts[e] <= strikes[e]
                      /\ \A w \in Workers : snap[w][e] <= strikes[e]

\* A worker about to finalize a row has handled it.
Handled == \A w \in Workers : pc[w] = "succeeded" => cur[w] \in delivered

\* Workers hold rows that exist.
Exists == \A w \in Workers : \A e \in batch[w] : status[e] # "NONE"

HInv == StrikesCover /\ Handled /\ Exists /\ NoEarlyGiveUp /\ DoneWasDelivered

\* A step in which workers learn nothing and finish no handler.
ForgetsOnly ==
    /\ \A w \in Workers, e \in Events : snap'[w][e] <= snap[w][e]
    /\ \A w \in Workers : /\ batch'[w] \subseteq batch[w]
                          /\ pc'[w] = "succeeded" => pc[w] = "succeeded" /\ cur'[w] = cur[w]

LEMMA EndPollForgets ==
  ASSUME TInv, NEW w \in Workers, EndPoll(w) PROVE ForgetsOnly
  BY DEF TInv, TypeOK, EndPoll, Goto, Hold, ForgetsOnly, Pc

LEMMA NextRowForgets ==
  ASSUME TInv, NEW w \in Workers, NextRow(w), cur[w] \in Events PROVE ForgetsOnly
  <1>1. CASE EndPoll(w)
    BY <1>1, EndPollForgets
  <1>2. CASE ~EndPoll(w)
    <2>1. /\ pc' = [pc EXCEPT ![w] = "working"]
          /\ batch' = [batch EXCEPT ![w] = batch[w] \ {cur[w]}]
          /\ cur' = [cur EXCEPT ![w] = None]
          /\ snap' = [snap EXCEPT ![w][cur[w]] = 0]
      BY <1>2 DEF NextRow, Goto, Hold
    <2>2. \A v \in Workers, e \in Events : snap'[v][e] <= snap[v][e]
      BY <2>1 DEF TInv, TypeOK
    <2>3. QED
      BY <2>1, <2>2 DEF TInv, TypeOK, ForgetsOnly
  <1>3. QED
    BY <1>1, <1>2

\* What a step must still show when workers only forget in it.
LEMMA ForgetKeeps ==
  ASSUME TInv, HInv, ForgetsOnly, delivered \subseteq delivered',
         \A e \in Events : strikes[e] <= strikes'[e] /\ attempts'[e] <= strikes'[e],
         TypeOK',
         \A e \in Events : status'[e] = "NONE" => status[e] = "NONE",
         \A e \in Events : status'[e] = "FAILED" => strikes'[e] = MaxAttempts,
         \A e \in Events : status'[e] = "DONE" => e \in delivered'
  PROVE  HInv'
  <1>1. StrikesCover'
    <2> SUFFICES ASSUME NEW w \in Workers, NEW e \in Events
                 PROVE  snap'[w][e] <= strikes'[e]
      BY DEF StrikesCover
    <2>1. snap'[w][e] <= snap[w][e] /\ snap[w][e] <= strikes[e] /\ strikes[e] <= strikes'[e]
      BY DEF HInv, StrikesCover, ForgetsOnly
    <2>2. /\ snap'[w][e] \in Nat /\ snap[w][e] \in Nat
          /\ strikes[e] \in Nat /\ strikes'[e] \in Nat
      BY DEF TInv, TypeOK
    <2>3. QED
      BY <2>1, <2>2
  <1>2. Handled' /\ Exists'
    BY DEF HInv, Handled, Exists, ForgetsOnly, TInv, TypeOK
  <1>3. QED
    BY <1>1, <1>2 DEF HInv, NoEarlyGiveUp, DoneWasDelivered

LEMMA HInvInit == Init => HInv
  BY OutboxAssumption
  DEF Init, HInv, StrikesCover, Handled, Exists, NoEarlyGiveUp, DoneWasDelivered

\* Reading a page of rows: the snapshot is covered because the column is.
LEMMA ReadCovered ==
  ASSUME TInv, HInv, NEW w \in Workers, NEW S \in SUBSET Events,
         \A e \in S : status[e] # "NONE",
         NEW l \in {"polling", "reaping", "idle", "claiming"},
         Goto(w, l), Hold(w, S), snap' = [snap EXCEPT ![w] = AttemptsOf(S)],
         UNCHANGED <<rows, cur, history>>
  PROVE  HInv'
  <1>1. \A e \in Events : AttemptsOf(S)[e] <= strikes[e]
    BY DEF AttemptsOf, HInv, StrikesCover, TInv, TypeOK
  <1>2. StrikesCover'
    BY <1>1 DEF HInv, StrikesCover, TInv, TypeOK, rows, history
  <1>3. Handled' /\ Exists'
    BY DEF HInv, Handled, Exists, TInv, TypeOK, Goto, Hold, rows, history
  <1>4. QED
    BY <1>2, <1>3 DEF HInv, NoEarlyGiveUp, DoneWasDelivered, rows, history

LEMMA HInvNext == TInv /\ TInv' /\ HInv /\ [Next]_vars => HInv'
  <1> SUFFICES ASSUME TInv, TInv', HInv, [Next]_vars PROVE HInv'
    OBVIOUS
  <1> USE OutboxAssumption
  <1>t. TypeOK /\ TypeOK' /\ Cursor
    BY DEF TInv
  <1>h. /\ \A e \in Events : attempts[e] <= strikes[e] /\ strikes[e] \in Nat
        /\ \A e \in Events : status[e] = "FAILED" => strikes[e] = MaxAttempts
        /\ \A e \in Events : status[e] = "DONE" => e \in delivered
    BY <1>t DEF HInv, StrikesCover, NoEarlyGiveUp, DoneWasDelivered, TypeOK
  <1>1. ASSUME NEW e \in Events, Enqueue(e) PROVE HInv'
    <2>1. ForgetsOnly
      BY <1>1, <1>t DEF Enqueue, ForgetsOnly, TypeOK, workers
    <2>2. QED
      BY <1>1, <1>t, <1>h, <2>1, ForgetKeeps DEF Enqueue, TypeOK, history
  <1>2. ASSUME NEW e \in Events, TimeElapses(e) PROVE HInv'
    BY <1>2 DEF TimeElapses, HInv, StrikesCover, Handled, Exists, NoEarlyGiveUp,
                DoneWasDelivered, workers, history
  <1>3. ASSUME NEW w \in Workers, StartPoll(w) PROVE HInv'
    <2>1. PICK S \in Page(StaleRows) :
            /\ Goto(w, IF S = {} THEN "polling" ELSE "reaping")
            /\ Hold(w, S)
            /\ snap' = [snap EXCEPT ![w] = AttemptsOf(S)]
      BY <1>3 DEF StartPoll
    <2>2. S \subseteq Events /\ \A e \in S : status[e] # "NONE"
      BY <2>1, PageSubset DEF StaleRows
    <2>3. QED
      BY <1>3, <2>1, <2>2, ReadCovered DEF StartPoll
  <1>4. ASSUME NEW w \in Workers, ReapStale(w) PROVE HInv'
    <2>1. ForgetsOnly
      BY <1>4, <1>t DEF ReapStale, StillIn, Exhausted, AttemptsOf, ForgetsOnly, TypeOK, Goto, Hold
    <2>2. \A e \in batch[w] : ~(snap[w][e] >= MaxAttempts)
      BY <1>t DEF TInv, SnapshotBudget, TypeOK
    <2>3. \A e \in Events : status'[e] = IF e \in batch[w] /\ status[e] = "PROCESSING"
                                        THEN "PENDING" ELSE status[e]
      BY <1>4, <2>2 DEF ReapStale, StillIn, Exhausted
    <2>4. UNCHANGED <<attempts, strikes, delivered>>
      BY <1>4 DEF ReapStale, StillIn, Exhausted, history
    <2>5. QED
      BY <1>t, <1>h, <2>1, <2>3, <2>4, ForgetKeeps
  <1>5. ASSUME NEW w \in Workers, ReadDue(w) PROVE HInv'
    <2>1. PICK S \in Page(DueRows) :
            /\ Goto(w, IF S = {} THEN "idle" ELSE "claiming")
            /\ Hold(w, S)
            /\ snap' = [snap EXCEPT ![w] = AttemptsOf(S)]
      BY <1>5 DEF ReadDue
    <2>2. S \subseteq Events /\ \A e \in S : status[e] # "NONE"
      BY <2>1, PageSubset DEF DueRows
    <2>3. QED
      BY <1>5, <2>1, <2>2, ReadCovered DEF ReadDue
  <1>6. ASSUME NEW w \in Workers, Claim(w) PROVE HInv'
    <2>1. ForgetsOnly
      <3>1. CASE EndPoll(w)
        BY <3>1, EndPollForgets
      <3>2. CASE ~EndPoll(w)
        BY <1>6, <3>2, <1>t DEF Claim, StillIn, ForgetsOnly, TypeOK, Goto
      <3>3. QED
        BY <3>1, <3>2
    <2>2. \A e \in Events : status'[e] = IF e \in batch[w] /\ status[e] = "PENDING"
                                        THEN "PROCESSING" ELSE status[e]
      BY <1>6 DEF Claim, StillIn
    <2>3. UNCHANGED <<attempts, strikes, delivered>>
      BY <1>6 DEF Claim, StillIn, history
    <2>4. QED
      BY <1>t, <1>h, <2>1, <2>2, <2>3, ForgetKeeps
  <1>7. ASSUME NEW w \in Workers, Reread(w) PROVE HInv'
    <2>1. ForgetsOnly
      <3>1. CASE EndPoll(w)
        BY <3>1, EndPollForgets
      <3>2. CASE ~EndPoll(w)
        <4> DEFINE kept == {e \in batch[w] : status[e] = "PROCESSING"}
        <4>1. /\ pc' = [pc EXCEPT ![w] = "working"]
              /\ batch' = [batch EXCEPT ![w] = kept]
              /\ snap' = [snap EXCEPT ![w] =
                            [e \in Events |-> IF e \in kept THEN snap[w][e] ELSE 0]]
          BY <1>7, <3>2 DEF Reread, StillIn, Goto, Hold
        <4>2. \A v \in Workers, e \in Events : snap'[v][e] <= snap[v][e]
          BY <4>1, <1>t DEF TypeOK
        <4>3. \A v \in Workers : batch'[v] \subseteq batch[v]
          BY <4>1, <1>t DEF TypeOK
        <4>4. \A v \in Workers : pc'[v] = "succeeded" => pc[v] = "succeeded" /\ cur'[v] = cur[v]
          BY <1>7, <3>2, <4>1, <1>t DEF Reread, StillIn, TypeOK
        <4>5. QED
          BY <4>2, <4>3, <4>4 DEF ForgetsOnly
      <3>3. QED
        BY <3>1, <3>2
    <2>2. UNCHANGED <<status, attempts, strikes, delivered>>
      BY <1>7 DEF Reread, StillIn, rows, history
    <2>3. QED
      BY <1>t, <1>h, <2>1, <2>2, ForgetKeeps
  <1>8. ASSUME NEW w \in Workers, Dispatch(w) PROVE HInv'
    <2>1. ForgetsOnly
      BY <1>8, <1>t DEF Dispatch, Goto, ForgetsOnly, TypeOK
    <2>2. QED
      BY <1>8, <1>t, <1>h, <2>1, ForgetKeeps DEF Dispatch, rows, history
  <1>9. ASSUME NEW w \in Workers, HandlerReturns(w) PROVE HInv'
    <2>1. /\ delivered' = delivered \cup {cur[w]}
          /\ pc' = [pc EXCEPT ![w] = "succeeded"]
          /\ UNCHANGED <<status, attempts, batch, snap, cur, strikes>>
      BY <1>9 DEF HandlerReturns, Goto, rows
    <2>2. StrikesCover' /\ Exists' /\ NoEarlyGiveUp'
      BY <2>1 DEF HInv, StrikesCover, Exists, NoEarlyGiveUp
    <2>3. Handled' /\ DoneWasDelivered'
      BY <2>1, <1>t DEF HInv, Handled, DoneWasDelivered, TypeOK
    <2>4. QED
      BY <2>2, <2>3 DEF HInv
  <1>10. ASSUME NEW w \in Workers, HandlerThrows(w) PROVE HInv'
    <2>1. ForgetsOnly
      BY <1>10, <1>t DEF HandlerThrows, Goto, ForgetsOnly, TypeOK
    <2>2. QED
      BY <1>10, <1>t, <1>h, <2>1, ForgetKeeps DEF HandlerThrows, rows, history
  <1>11. ASSUME NEW w \in Workers, Finalize(w) PROVE HInv'
    <2>1. cur[w] \in Events /\ cur[w] \in delivered
      BY <1>11, <1>t DEF Finalize, Cursor, TypeOK, HInv, Handled
    <2>2. ForgetsOnly
      BY <1>11, <2>1, NextRowForgets DEF Finalize
    <2>3. QED
      BY <1>11, <1>t, <1>h, <2>1, <2>2, ForgetKeeps DEF Finalize, TypeOK, history
  <1>12. ASSUME NEW w \in Workers, FinalizeFails(w) PROVE HInv'
    <2>1. ForgetsOnly
      BY <1>12, <1>t DEF FinalizeFails, Goto, ForgetsOnly, TypeOK
    <2>2. QED
      BY <1>12, <1>t, <1>h, <2>1, ForgetKeeps DEF FinalizeFails, rows, history
  <1>13. ASSUME NEW w \in Workers, RecordFailure(w) PROVE HInv'
    <2>1. cur[w] \in Events
      BY <1>13, <1>t DEF RecordFailure, Exhausted, Cursor, TypeOK
    <2>2. CASE EndPoll(w) /\ UNCHANGED <<rows, strikes>>
      <3>1. ForgetsOnly
        BY <2>2, EndPollForgets
      <3>2. QED
        BY <1>13, <1>t, <1>h, <2>2, <3>1, ForgetKeeps DEF RecordFailure, Exhausted, rows
    <2>3. CASE ~(EndPoll(w) /\ UNCHANGED <<rows, strikes>>)
      <3> DEFINE e == cur[w]
                 n == snap[w][e] + 1
      <3>1. /\ status' = [status EXCEPT ![e] = IF n >= MaxAttempts
                                               THEN "FAILED" ELSE "PENDING"]
            /\ attempts' = [attempts EXCEPT ![e] = n]
            /\ strikes' = [strikes EXCEPT ![e] = IF @ < MaxAttempts THEN @ + 1 ELSE @]
            /\ NextRow(w)
            /\ UNCHANGED delivered
        BY <1>13, <2>3 DEF RecordFailure, Exhausted
      <3>2. ForgetsOnly
        BY <3>1, <2>1, NextRowForgets
      <3>3. n \in 1..MaxAttempts /\ snap[w][e] <= strikes[e] /\ strikes[e] \in 0..MaxAttempts
        BY <2>1, <1>t DEF TInv, SnapshotBudget, TypeOK, HInv, StrikesCover
      <3>4. n <= strikes'[e] /\ strikes[e] <= strikes'[e] /\ strikes'[e] \in 0..MaxAttempts
        BY <2>1, <3>1, <3>3, <1>t DEF TypeOK
      <3>5. \A f \in Events : strikes[f] <= strikes'[f] /\ attempts'[f] <= strikes'[f]
        BY <2>1, <3>1, <3>4, <1>t, <1>h DEF TypeOK
      <3>6. \A f \in Events : status'[f] = "FAILED" => strikes'[f] = MaxAttempts
        BY <2>1, <3>1, <3>3, <3>4, <1>t, <1>h DEF TypeOK
      <3>7. /\ \A f \in Events : status'[f] = "NONE" => status[f] = "NONE"
            /\ \A f \in Events : status'[f] = "DONE" => f \in delivered'
        BY <2>1, <3>1, <1>t, <1>h DEF TypeOK
      <3>8. QED
        BY <1>t, <3>1, <3>2, <3>5, <3>6, <3>7, ForgetKeeps
    <2>4. QED
      BY <2>2, <2>3
  <1>14. ASSUME NEW w \in Workers, Abort(w) PROVE HInv'
    <2>1. ForgetsOnly
      BY <1>14, EndPollForgets DEF Abort
    <2>2. QED
      BY <1>14, <1>t, <1>h, <2>1, ForgetKeeps DEF Abort, rows, history
  <1>15. CASE UNCHANGED vars
    BY <1>15 DEF vars, rows, workers, history, HInv, StrikesCover, Handled, Exists,
                 NoEarlyGiveUp, DoneWasDelivered
  <1>16. QED
    BY <1>1, <1>2, <1>3, <1>4, <1>5, <1>6, <1>7, <1>8, <1>9, <1>10, <1>11,
       <1>12, <1>13, <1>14, <1>15 DEF Next, Poll

\* Both invariants together, for the theorems below.
LEMMA DeliveryInvariant == Spec => [](TInv /\ HInv)
  BY TInvInit, TInvNext, HInvInit, HInvNext, PTL DEF Spec

\* No event is given up before MaxAttempts of its failures were recorded.
THEOREM OutboxNoEarlyGiveUp == Spec => []NoEarlyGiveUp
  <1>1. HInv => NoEarlyGiveUp
    BY DEF HInv
  <1>2. QED
    BY <1>1, DeliveryInvariant, PTL

\* A DONE row was handled to completion by somebody.
THEOREM OutboxDoneWasDelivered == Spec => []DoneWasDelivered
  <1>1. HInv => DoneWasDelivered
    BY DEF HInv
  <1>2. QED
    BY <1>1, DeliveryInvariant, PTL

\* The index never lets a step bring a second row of an aggregate into flight.
LEMMA InFlightUniqueNext ==
  TInv /\ TInv' /\ InFlightUnique /\ [Next]_vars => InFlightUnique'
  <1> SUFFICES ASSUME TInv, TInv', InFlightUnique, [Next]_vars PROVE InFlightUnique'
    OBVIOUS
  <1>t. TypeOK /\ TypeOK' /\ Cursor
    BY DEF TInv
  <1>a. ASSUME \A e \in Events : status'[e] \in InFlight => status[e] \in InFlight
        PROVE  InFlightUnique'
    BY <1>a DEF InFlightUnique
  <1>b. ASSUME NEW e \in Events, ~IndexConflict(e),
               \A f \in Events \ {e} : status'[f] = status[f]
        PROVE  InFlightUnique'
    BY <1>b DEF InFlightUnique, IndexConflict
  <1>1. ASSUME NEW e \in Events, Enqueue(e) PROVE InFlightUnique'
    BY <1>1, <1>b, <1>t DEF Enqueue, TypeOK
  <1>2. ASSUME NEW w \in Workers, ReapStale(w) PROVE InFlightUnique'
    <2>1. \A e \in Events : status'[e] \in InFlight => status[e] \in InFlight
      BY <1>2 DEF ReapStale, StillIn, Exhausted, InFlight
    <2>2. QED
      BY <2>1, <1>a
  <1>3. ASSUME NEW w \in Workers, Claim(w) PROVE InFlightUnique'
    <2>1. \A e \in Events : status'[e] \in InFlight => status[e] \in InFlight
      BY <1>3 DEF Claim, StillIn, InFlight
    <2>2. QED
      BY <2>1, <1>a
  <1>4. ASSUME NEW w \in Workers, Finalize(w) PROVE InFlightUnique'
    <2>1. \A e \in Events : status'[e] \in InFlight => status[e] \in InFlight
      BY <1>4, <1>t DEF Finalize, InFlight, TypeOK
    <2>2. QED
      BY <2>1, <1>a
  <1>5. ASSUME NEW w \in Workers, RecordFailure(w) PROVE InFlightUnique'
    <2>1. cur[w] \in Events
      BY <1>5, <1>t DEF RecordFailure, Exhausted, Cursor, TypeOK
    <2>2. CASE UNCHANGED rows
      BY <2>2, <1>a DEF rows
    <2>3. CASE status' = [status EXCEPT ![cur[w]] = "FAILED"]
      <3>1. \A e \in Events : status'[e] \in InFlight => status[e] \in InFlight
        BY <2>1, <2>3, <1>t DEF InFlight, TypeOK
      <3>2. QED
        BY <3>1, <1>a
    <2>4. CASE ~IndexConflict(cur[w]) /\ status' = [status EXCEPT ![cur[w]] = "PENDING"]
      BY <2>1, <2>4, <1>b, <1>t DEF TypeOK
    <2>5. QED
      BY <1>5, <2>2, <2>3, <2>4 DEF RecordFailure, Exhausted
  <1>6. CASE UNCHANGED status
    BY <1>6, <1>a
  <1>7. QED
    BY <1>1, <1>2, <1>3, <1>4, <1>5, <1>6
    DEF Next, Poll, TimeElapses, StartPoll, ReadDue, Reread, StillIn, Dispatch, HandlerReturns,
        HandlerThrows, FinalizeFails, Abort, vars, rows

\* Two rows of one aggregate and event type are never in flight together.
THEOREM OutboxInFlightUnique == Spec => []InFlightUnique
  <1>1. Init => InFlightUnique
    BY DEF Init, InFlightUnique, InFlight
  <1>2. QED
    BY <1>1, InFlightUniqueNext, TInvInit, TInvNext, PTL DEF Spec

\* A terminal row is rewritten only by a worker that was handling it.
THEOREM OutboxTerminalRows == Spec => TerminalRowsOnlyLeftByHandler
  <1> DEFINE Kept == \A e \in Events :
                       /\ status[e] \in {"DONE", "FAILED"}
                       /\ status'[e] # status[e]
                       => \E w \in Workers : pc[w] \in {"succeeded", "failing"} /\ cur[w] = e
  <1>1. ASSUME TInv, Next PROVE Kept
    <2>t. TypeOK
      BY <1>1 DEF TInv
    <2>1. ASSUME NEW e \in Events, Enqueue(e) PROVE Kept
      BY <2>1, <2>t DEF Enqueue, TypeOK
    <2>2. ASSUME NEW w \in Workers, ReapStale(w) PROVE Kept
      BY <2>2 DEF ReapStale, StillIn, Exhausted
    <2>3. ASSUME NEW w \in Workers, Claim(w) PROVE Kept
      BY <2>3 DEF Claim, StillIn
    <2>4. ASSUME NEW w \in Workers, Finalize(w) PROVE Kept
      BY <2>4, <2>t DEF Finalize, TypeOK
    <2>5. ASSUME NEW w \in Workers, RecordFailure(w) PROVE Kept
      BY <2>5, <2>t DEF RecordFailure, Exhausted, TypeOK, rows
    <2>6. CASE UNCHANGED status
      BY <2>6
    <2>7. QED
      BY <1>1, <2>1, <2>2, <2>3, <2>4, <2>5, <2>6
      DEF Next, Poll, TimeElapses, StartPoll, ReadDue, Reread, StillIn, Dispatch, HandlerReturns,
          HandlerThrows, FinalizeFails, Abort, rows
  <1>2. TInv /\ [Next]_vars => [Kept]_vars
    BY <1>1
  <1>3. QED
    BY <1>2, TInvInit, TInvNext, PTL DEF Spec, TerminalRowsOnlyLeftByHandler

-----------------------------------------------------------------------------
\* Every step of the outbox is a step of Delivery.tla, or leaves what it
\* speaks of alone.
LEMMA DeliveryStep ==
  TInv /\ HInv /\ [Next]_vars => [D!DNext]_(D!dvars)
  <1> SUFFICES ASSUME TInv, HInv, [Next]_vars PROVE [D!DNext]_(D!dvars)
    OBVIOUS
  <1>t. TypeOK /\ Cursor /\ Exists
    BY DEF TInv, HInv
  <1> DEFINE known == {e \in Events : status[e] # "NONE"}
  <1>a. ASSUME \A e \in Events : status'[e] = "NONE" <=> status[e] = "NONE",
               UNCHANGED <<delivered, strikes>>
        PROVE  UNCHANGED D!dvars
    BY <1>a DEF D!dvars
  <1>1. ASSUME NEW e \in Events, Enqueue(e) PROVE D!DNext
    <2>1. e \notin known /\ known' = known \cup {e} /\ UNCHANGED <<delivered, strikes>>
      BY <1>1, <1>t DEF Enqueue, TypeOK, history
    <2>2. D!Accept(e)
      BY <2>1 DEF D!Accept
    <2>3. QED
      BY <2>2 DEF D!DNext
  <1>2. ASSUME NEW w \in Workers, HandlerReturns(w) PROVE D!DNext
    <2>1. cur[w] \in known
      BY <1>2, <1>t DEF HandlerReturns, Cursor, TypeOK, Exists
    <2>2. D!Deliver(cur[w])
      BY <1>2, <2>1 DEF HandlerReturns, D!Deliver, rows
    <2>3. QED
      BY <2>1, <2>2 DEF D!DNext
  <1>3. ASSUME NEW w \in Workers, RecordFailure(w) PROVE [D!DNext]_(D!dvars)
    <2>1. cur[w] \in Events /\ cur[w] \in known
      BY <1>3, <1>t DEF RecordFailure, Exhausted, Cursor, TypeOK, Exists
    <2>2. CASE UNCHANGED <<rows, strikes>>
      BY <1>3, <2>2, <1>a DEF RecordFailure, Exhausted, rows
    <2>3. CASE ~UNCHANGED <<rows, strikes>>
      <3>1. /\ \E s \in {"FAILED", "PENDING"} : status' = [status EXCEPT ![cur[w]] = s]
            /\ strikes' = [strikes EXCEPT ![cur[w]] =
                             IF @ < MaxAttempts THEN @ + 1 ELSE @]
            /\ UNCHANGED delivered
        BY <1>3, <2>3 DEF RecordFailure, Exhausted
      <3>2. /\ \A e \in Events : status'[e] = "NONE" <=> status[e] = "NONE"
            /\ known' = known
        BY <2>1, <3>1, <1>t DEF TypeOK
      <3>3. CASE strikes[cur[w]] < MaxAttempts
        <4>1. D!Strike(cur[w])
          BY <2>1, <3>1, <3>2, <3>3, <1>t DEF D!Strike, TypeOK
        <4>2. QED
          BY <2>1, <4>1 DEF D!DNext
      <3>4. CASE ~(strikes[cur[w]] < MaxAttempts)
        <4>1. UNCHANGED strikes
          BY <2>1, <3>1, <3>4, <1>t DEF TypeOK
        <4>2. QED
          BY <3>1, <3>2, <4>1, <1>a
      <3>5. QED
        BY <3>3, <3>4
    <2>4. QED
      BY <2>2, <2>3
  <1>4. ASSUME NEW w \in Workers, ReapStale(w) PROVE UNCHANGED D!dvars
    <2>1. \A e \in Events : status'[e] = "NONE" <=> status[e] = "NONE"
      BY <1>4 DEF ReapStale, StillIn, Exhausted
    <2>2. QED
      BY <1>4, <2>1, <1>a DEF ReapStale, StillIn, Exhausted, history
  <1>5. ASSUME NEW w \in Workers, Claim(w) PROVE UNCHANGED D!dvars
    <2>1. \A e \in Events : status'[e] = "NONE" <=> status[e] = "NONE"
      BY <1>5 DEF Claim, StillIn
    <2>2. QED
      BY <1>5, <2>1, <1>a DEF Claim, StillIn, history
  <1>6. ASSUME NEW w \in Workers, Finalize(w) PROVE UNCHANGED D!dvars
    <2>1. cur[w] \in Events /\ cur[w] \in known
      BY <1>6, <1>t DEF Finalize, Cursor, TypeOK, Exists
    <2>2. \A e \in Events : status'[e] = "NONE" <=> status[e] = "NONE"
      BY <1>6, <2>1, <1>t DEF Finalize, TypeOK
    <2>3. QED
      BY <1>6, <2>2, <1>a DEF Finalize, history
  <1>7. CASE UNCHANGED <<status, delivered, strikes>>
    BY <1>7, <1>a
  <1>8. QED
    BY <1>1, <1>2, <1>3, <1>4, <1>5, <1>6, <1>7
    DEF Next, Poll, TimeElapses, StartPoll, ReadDue, Reread, StillIn, Dispatch,
        HandlerThrows, FinalizeFails, Abort, vars, rows, history

\* The outbox delivers at least once or strikes out, and never invents an
\* event: it implements the safety part of Delivery.tla.
THEOREM OutboxImplementsDelivery == Spec => D!DSafety
  <1>1. Init => D!DInit
    BY DEF Init, D!DInit
  <1>2. QED
    BY <1>1, DeliveryStep, DeliveryInvariant, PTL DEF Spec, D!DSafety
=============================================================================
