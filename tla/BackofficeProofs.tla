------------------------- MODULE BackofficeProofs -------------------------
(***************************************************************************)
(* What overlapping requests cannot break in the idempotency of writes, in *)
(* quotations, purchases, purchase orders and goods receipts, for any      *)
(* rows, keys, attempts and amounts.                                       *)
(***************************************************************************)
EXTENDS Idempotency, Quotations, Purchases, Procurement, LedgerProofs

-----------------------------------------------------------------------------
(* Idempotency of write requests                                           *)

\* How far an attempt has come, and what it has by then.
Progress ==
    \A p \in Attempts :
      /\ pc[p] # "new" => req[p] \in Request
      /\ pc[p] \in {"new", "claiming", "lookup"} => claim[p] = None
      /\ pc[p] \in {"new", "claiming", "lookup", "handling"} => p \notin committed
      /\ pc[p] # "answered" => answer[p] = None
      /\ pc[p] = "completing" => p \in committed
      /\ pc[p] \in {"completing", "aborting"} => claim[p] # None

\* An attempt executes under a row created for the same key and body.
ClaimMatches ==
    \A p \in Attempts : claim[p] # None =>
      /\ pc[claim[p]] # "new"
      /\ req[claim[p]].key = req[p].key
      /\ req[claim[p]].body = req[p].body

\* A row has the key and the body of the attempt that created it, and so has
\* the attempt whose response it holds, whichever attempt stored it.
RowsMatch ==
    \A k \in Keys : rows[k] # NoRow =>
      /\ pc[rows[k].id] # "new"
      /\ req[rows[k].id].key = k
      /\ req[rows[k].id].body = rows[k].hash
      /\ rows[k].response # None =>
           /\ rows[k].response \in committed
           /\ req[rows[k].response].key = k
           /\ req[rows[k].response].body = rows[k].hash

\* Replays are faithful because whatever a row holds was stored by an attempt
\* that executes under that row, and those agree on the key and the body.
IInv == TypeOK /\ Progress /\ ClaimMatches /\ RowsMatch /\ ReplayFaithful /\ NoOrphanClaim

\* The life of a calm key: one attempt at a time, under a row of its own that
\* holds no response while it executes, and no second one once it took effect.
CalmAttempt(p) ==
    pc[p] # "new" /\ req[p].key \in Calm =>
      /\ pc[p] # "dead"
      /\ pc[p] \in Running =>
           \A q \in Attempts \ {p} : pc[q] \in Running => req[q].key # req[p].key
      /\ pc[p] = "lookup" => rows[req[p].key] # NoRow
      /\ pc[p] \in {"handling", "completing", "aborting"} =>
           /\ claim[p] # None
           /\ rows[req[p].key].id = claim[p]
           /\ rows[req[p].key].response = None
      /\ pc[p] \in {"handling", "aborting"} =>
           \A q \in committed : req[q].key # req[p].key
      /\ p \in committed /\ pc[p] # "completing" => rows[req[p].key].response # None

CalmInv ==
    /\ \A k \in Calm : ~rows[k].expired
    /\ \A p \in Attempts : CalmAttempt(p)
    /\ OnceWhenCalm

-----------------------------------------------------------------------------
\* No attempt has arrived and the table is empty.
LEMMA IInvInit == Init => IInv
  BY IdempotencyAssumption
  DEF Init, IInv, TypeOK, Progress, ClaimMatches, RowsMatch, ReplayFaithful,
      NoOrphanClaim, Pc, Request, NoRow, Errors

\* Nothing has happened to a calm key.
LEMMA CalmInvInit == Init => CalmInv
  BY IdempotencyAssumption DEF Init, CalmInv, CalmAttempt, OnceWhenCalm, NoRow

\* The key of an attempt that has arrived, and the row it meets.
LEMMA RowType ==
  ASSUME IInv, NEW p \in Attempts, pc[p] # "new"
  PROVE  /\ req[p].key \in Keys /\ req[p].body \in Bodies
         /\ \/ RowOf(p) = NoRow
            \/ /\ RowOf(p) # NoRow
               /\ RowOf(p).id \in Attempts
               /\ RowOf(p).hash \in Bodies
               /\ RowOf(p).response \in Attempts \cup {None}
               /\ RowOf(p).expired \in BOOLEAN
  BY DEF IInv, TypeOK, Progress, Request, RowOf

\* A row that somebody has claimed.
RowRecord == [id : Attempts, hash : Bodies, response : Attempts \cup {None}, expired : BOOLEAN]

\* An attempt writes the row of its own key and no other.
LEMMA RowWritten ==
  ASSUME IInv, NEW p \in Attempts, pc[p] # "new",
         NEW row \in RowRecord \cup {NoRow}, SetRow(p, row)
  PROVE  /\ rows' \in [Keys -> {NoRow} \cup RowRecord]
         /\ \A k \in Keys : rows'[k] = IF k = req[p].key THEN row ELSE rows[k]
  <1>1. req[p].key \in Keys /\ rows \in [Keys -> {NoRow} \cup RowRecord]
    BY RowType DEF IInv, TypeOK, RowRecord
  <1>2. rows' = [rows EXCEPT ![req[p].key] = row]
    BY DEF SetRow
  <1>3. QED
    BY <1>1, <1>2

\* Every step of an attempt, and the passing of time, keep the invariant.
LEMMA IInvNext == IInv /\ [Next]_vars => IInv'
  <1> SUFFICES ASSUME IInv, [Next]_vars PROVE IInv'
    OBVIOUS
  <1> USE IdempotencyAssumption
  <1>1. ASSUME NEW p \in Attempts, Arrive(p) PROVE IInv'
    <2>1. TypeOK'
      BY <1>1 DEF Arrive, Goto, IInv, TypeOK, Pc
    <2>2. Progress'
      BY <1>1 DEF Arrive, Goto, IInv, TypeOK, Progress
    <2>3. ClaimMatches'
      BY <1>1 DEF Arrive, Goto, IInv, TypeOK, Progress, ClaimMatches
    <2>4. RowsMatch'
      BY <1>1 DEF Arrive, Goto, IInv, TypeOK, Progress, RowsMatch
    <2>5. ReplayFaithful'
      BY <1>1 DEF Arrive, Goto, IInv, TypeOK, Progress, RowsMatch, ReplayFaithful
    <2>6. NoOrphanClaim'
      BY <1>1 DEF Arrive, Goto, IInv, TypeOK, NoOrphanClaim, Running
    <2>7. QED
      BY <2>1, <2>2, <2>3, <2>4, <2>5, <2>6 DEF IInv
  <1>2. ASSUME NEW p \in Attempts, Claim(p) PROVE IInv'
    <2>1. CASE RowOf(p) = NoRow
      <3> DEFINE row == [id |-> p, hash |-> req[p].body, response |-> None, expired |-> FALSE]
      <3>1. /\ pc[p] = "claiming" /\ SetRow(p, row)
            /\ claim' = [claim EXCEPT ![p] = p]
            /\ pc' = [pc EXCEPT ![p] = "handling"]
            /\ UNCHANGED <<req, answer, committed, faults>>
        BY <1>2, <2>1 DEF Claim, Goto, Hash
      <3>2. req[p].key \in Keys /\ req[p].body \in Bodies /\ rows[req[p].key] = NoRow
        BY <2>1, <3>1, RowType DEF RowOf
      <3>3. row \in RowRecord /\ row # NoRow
        BY <3>2 DEF RowRecord, NoRow
      <3>4. /\ rows' \in [Keys -> {NoRow} \cup RowRecord]
            /\ \A k \in Keys : rows'[k] = IF k = req[p].key THEN row ELSE rows[k]
        BY <3>1, <3>3, RowWritten
      <3> HIDE DEF row
      <3>5. row.id = p /\ row.hash = req[p].body /\ row.response = None
        BY DEF row
      <3>6. TypeOK'
        BY <3>1, <3>4 DEF IInv, TypeOK, RowRecord, Pc
      <3>7. Progress'
        BY <3>1 DEF IInv, TypeOK, Progress
      <3>8. ClaimMatches'
        BY <3>1 DEF IInv, TypeOK, Progress, ClaimMatches
      <3>9. RowsMatch'
        BY <3>1, <3>4, <3>5 DEF IInv, TypeOK, RowsMatch
      <3>10. ReplayFaithful'
        BY <3>1 DEF IInv, ReplayFaithful
      <3>11. NoOrphanClaim'
        BY <3>1, <3>4, <3>5 DEF IInv, TypeOK, Progress, NoOrphanClaim, Running
      <3>12. QED
        BY <3>6, <3>7, <3>8, <3>9, <3>10, <3>11 DEF IInv
    <2>2. CASE RowOf(p) # NoRow
      <3>1. /\ pc[p] = "claiming"
            /\ pc' = [pc EXCEPT ![p] = "lookup"]
            /\ UNCHANGED <<rows, claim, req, answer, committed, faults>>
        BY <1>2, <2>2 DEF Claim, Goto
      <3>2. TypeOK' /\ Progress'
        BY <3>1 DEF IInv, TypeOK, Progress, Pc
      <3>3. ClaimMatches' /\ RowsMatch' /\ ReplayFaithful'
        BY <3>1 DEF IInv, TypeOK, ClaimMatches, RowsMatch, ReplayFaithful
      <3>4. NoOrphanClaim'
        BY <3>1 DEF IInv, TypeOK, NoOrphanClaim, Running
      <3>5. QED
        BY <3>2, <3>3, <3>4 DEF IInv
    <2>3. QED
      BY <2>1, <2>2
  <1>3. ASSUME NEW p \in Attempts, Lookup(p) PROVE IInv'
    <2>1. TypeOK'
      BY <1>3, RowType DEF Lookup, Goto, Answer, IInv, TypeOK, Pc, Errors
    <2>2. Progress'
      BY <1>3 DEF Lookup, Goto, Answer, IInv, TypeOK, Progress
    <2>3. ClaimMatches'
      BY <1>3, RowType
      DEF Lookup, Goto, Answer, Hash, IInv, TypeOK, Progress, ClaimMatches, RowsMatch, RowOf, NoRow
    <2>4. RowsMatch'
      BY <1>3 DEF Lookup, Goto, Answer, IInv, TypeOK, RowsMatch
    <2>5. ReplayFaithful'
      BY <1>3, RowType
      DEF Lookup, Goto, Answer, Hash, IInv, TypeOK, Progress, RowsMatch, ReplayFaithful, RowOf, Errors, NoRow
    <2>6. NoOrphanClaim'
      BY <1>3 DEF Lookup, Goto, Answer, IInv, TypeOK, Progress, NoOrphanClaim, Running
    <2>7. QED
      BY <2>1, <2>2, <2>3, <2>4, <2>5, <2>6 DEF IInv
  <1>4. ASSUME NEW p \in Attempts, HandlerCommits(p) PROVE IInv'
    <2>1. TypeOK'
      BY <1>4 DEF HandlerCommits, Goto, Answer, IInv, TypeOK, Pc
    <2>2. Progress'
      BY <1>4 DEF HandlerCommits, Goto, Answer, IInv, TypeOK, Progress
    <2>3. ClaimMatches'
      BY <1>4 DEF HandlerCommits, Goto, Answer, IInv, TypeOK, ClaimMatches
    <2>4. RowsMatch'
      BY <1>4 DEF HandlerCommits, Goto, Answer, IInv, TypeOK, RowsMatch
    <2>5. ReplayFaithful'
      BY <1>4 DEF HandlerCommits, Goto, Answer, IInv, TypeOK, RowsMatch, ReplayFaithful
    <2>6. NoOrphanClaim'
      BY <1>4 DEF HandlerCommits, Goto, Answer, IInv, TypeOK, NoOrphanClaim, Running
    <2>7. QED
      BY <2>1, <2>2, <2>3, <2>4, <2>5, <2>6 DEF IInv
  <1>5. ASSUME NEW p \in Attempts, HandlerThrows(p) PROVE IInv'
    <2>1. TypeOK'
      BY <1>5, RowType DEF HandlerThrows, Goto, Answer, IInv, TypeOK, Pc, Errors
    <2>2. Progress'
      BY <1>5 DEF HandlerThrows, Goto, Answer, IInv, TypeOK, Progress
    <2>3. ClaimMatches'
      BY <1>5 DEF HandlerThrows, Goto, Answer, IInv, TypeOK, ClaimMatches
    <2>4. RowsMatch'
      BY <1>5 DEF HandlerThrows, Goto, Answer, IInv, TypeOK, RowsMatch
    <2>5. ReplayFaithful'
      BY <1>5 DEF HandlerThrows, Goto, Answer, IInv, TypeOK, RowsMatch, ReplayFaithful
    <2>6. NoOrphanClaim'
      BY <1>5 DEF HandlerThrows, Goto, Answer, IInv, TypeOK, NoOrphanClaim, Running
    <2>7. QED
      BY <2>1, <2>2, <2>3, <2>4, <2>5, <2>6 DEF IInv
  <1>6. ASSUME NEW p \in Attempts, Complete(p) PROVE IInv'
    <2>1. CASE RowOf(p).id = claim[p]
      <3> DEFINE row == [RowOf(p) EXCEPT !.response = p]
      <3>1. /\ pc[p] = "completing" /\ SetRow(p, row)
            /\ pc' = [pc EXCEPT ![p] = "answered"]
            /\ answer' = [answer EXCEPT ![p] = p]
            /\ UNCHANGED <<req, claim, committed, faults>>
        BY <1>6, <2>1 DEF Complete, Answer, Goto
      <3>2. p \in committed /\ claim[p] # None
        BY <3>1 DEF IInv, Progress
      <3>3. /\ req[p].key \in Keys /\ rows[req[p].key] \in RowRecord
            /\ RowOf(p) = rows[req[p].key] /\ rows[req[p].key] # NoRow
        BY <2>1, <3>1, <3>2, RowType DEF IInv, TypeOK, RowOf, RowRecord, NoRow
      <3>4. row \in RowRecord /\ row.response = p
        BY <3>3 DEF RowRecord
      <3>5. row.id = claim[p] /\ row.hash = rows[req[p].key].hash
        BY <2>1, <3>3 DEF RowRecord
      <3>6. /\ rows' \in [Keys -> {NoRow} \cup RowRecord]
            /\ \A k \in Keys : rows'[k] = IF k = req[p].key THEN row ELSE rows[k]
        BY <3>1, <3>4, RowWritten
      <3> HIDE DEF row
      <3>7. claim[p] = rows[req[p].key].id
        BY <2>1, <3>3
      <3>8. row.hash = req[p].body
        BY <3>2, <3>3, <3>5, <3>7 DEF IInv, TypeOK, ClaimMatches, RowsMatch
      <3>9. TypeOK'
        BY <3>1, <3>6 DEF IInv, TypeOK, RowRecord, Pc
      <3>10. Progress'
        BY <3>1 DEF IInv, TypeOK, Progress
      <3>11. ClaimMatches'
        BY <3>1 DEF IInv, TypeOK, ClaimMatches
      <3>12. RowsMatch'
        <4> SUFFICES ASSUME NEW k \in Keys, rows'[k] # NoRow
                     PROVE  /\ pc'[rows'[k].id] # "new"
                            /\ req[rows'[k].id].key = k
                            /\ req[rows'[k].id].body = rows'[k].hash
                            /\ rows'[k].response # None =>
                                 /\ rows'[k].response \in committed
                                 /\ req[rows'[k].response].key = k
                                 /\ req[rows'[k].response].body = rows'[k].hash
          BY <3>1 DEF RowsMatch
        <4>1. CASE k # req[p].key
          BY <3>1, <3>6, <4>1 DEF IInv, TypeOK, RowsMatch
        <4>2. CASE k = req[p].key
          <5>1. /\ rows'[k] = row /\ row.id = rows[k].id /\ row.hash = rows[k].hash
                /\ rows[k] # NoRow /\ rows[k].id \in Attempts
            BY <3>3, <3>5, <3>6, <3>7, <4>2 DEF RowRecord
          <5>2. /\ pc[rows[k].id] # "new" /\ req[rows[k].id].key = k
                /\ req[rows[k].id].body = rows[k].hash
            BY <5>1 DEF IInv, RowsMatch
          <5>3. pc'[rows[k].id] # "new"
            BY <3>1, <5>1, <5>2 DEF IInv, TypeOK
          <5>4. QED
            BY <3>2, <3>4, <3>8, <4>2, <5>1, <5>2, <5>3
        <4>3. QED
          BY <4>1, <4>2
      <3>13. ReplayFaithful'
        BY <3>1, <3>2 DEF IInv, TypeOK, ReplayFaithful
      <3>14. NoOrphanClaim'
        BY <2>1, <3>1, <3>3, <3>4, <3>6
        DEF IInv, TypeOK, ClaimMatches, RowsMatch, NoOrphanClaim, Running
      <3>15. QED
        BY <3>9, <3>10, <3>11, <3>12, <3>13, <3>14 DEF IInv
    <2>2. CASE RowOf(p).id # claim[p]
      <3>1. /\ pc[p] = "completing"
            /\ pc' = [pc EXCEPT ![p] = "aborting"]
            /\ UNCHANGED <<rows, answer, req, claim, committed, faults>>
        BY <1>6, <2>2 DEF Complete, Goto
      <3>2. TypeOK' /\ Progress'
        BY <3>1 DEF IInv, TypeOK, Progress, Pc
      <3>3. ClaimMatches' /\ RowsMatch' /\ ReplayFaithful'
        BY <3>1 DEF IInv, TypeOK, ClaimMatches, RowsMatch, ReplayFaithful
      <3>4. NoOrphanClaim'
        BY <3>1 DEF IInv, TypeOK, NoOrphanClaim, Running
      <3>5. QED
        BY <3>2, <3>3, <3>4 DEF IInv
    <2>3. QED
      BY <2>1, <2>2
  <1>7. ASSUME NEW p \in Attempts, AbortClaim(p) PROVE IInv'
    <2>1. /\ pc[p] = "aborting"
          /\ pc' = [pc EXCEPT ![p] = "answered"]
          /\ answer' = [answer EXCEPT ![p] = "failed"]
          /\ UNCHANGED <<req, claim, committed, faults>>
      BY <1>7 DEF AbortClaim, Answer, Goto
    <2>2. Progress'
      BY <2>1 DEF IInv, TypeOK, Progress
    <2>3. ClaimMatches'
      BY <2>1 DEF IInv, TypeOK, ClaimMatches
    <2>4. ReplayFaithful'
      BY <2>1 DEF IInv, TypeOK, ReplayFaithful
    <2>5. CASE RowOf(p).id = claim[p]
      <3>1. SetRow(p, NoRow)
        BY <1>7, <2>5 DEF AbortClaim
      <3>2. /\ rows' \in [Keys -> {NoRow} \cup RowRecord]
            /\ \A k \in Keys : rows'[k] = IF k = req[p].key THEN NoRow ELSE rows[k]
        BY <2>1, <3>1, RowWritten
      <3>3. TypeOK'
        BY <2>1, <3>2 DEF IInv, TypeOK, RowRecord, Pc, Errors
      <3>4. RowsMatch'
        BY <2>1, <3>2 DEF IInv, TypeOK, RowsMatch
      <3>5. \A k \in Keys : rows[k] # NoRow /\ rows[k].id = claim[p] => k = req[p].key
        BY <2>1 DEF IInv, TypeOK, Progress, ClaimMatches, RowsMatch
      <3>6. NoOrphanClaim'
        BY <2>1, <3>2, <3>5 DEF IInv, TypeOK, NoOrphanClaim, Running
      <3>7. QED
        BY <2>2, <2>3, <2>4, <3>3, <3>4, <3>6 DEF IInv
    <2>6. CASE RowOf(p).id # claim[p]
      <3>1. UNCHANGED rows
        BY <1>7, <2>6 DEF AbortClaim
      <3>2. TypeOK' /\ RowsMatch'
        BY <2>1, <3>1 DEF IInv, TypeOK, RowsMatch, Pc, Errors
      <3>3. \A k \in Keys : rows[k] # NoRow => rows[k].id # claim[p]
        BY <2>1, <2>6 DEF IInv, TypeOK, Progress, ClaimMatches, RowsMatch, RowOf
      <3>4. NoOrphanClaim'
        BY <2>1, <3>1, <3>3 DEF IInv, TypeOK, NoOrphanClaim, Running
      <3>5. QED
        BY <2>2, <2>3, <2>4, <3>2, <3>4 DEF IInv
    <2>7. QED
      BY <2>5, <2>6
  <1>8. ASSUME NEW p \in Attempts, Crash(p) PROVE IInv'
    <2>1. TypeOK'
      BY <1>8 DEF Crash, Goto, IInv, TypeOK, Pc
    <2>2. Progress'
      BY <1>8 DEF Crash, Goto, IInv, TypeOK, Progress, Running
    <2>3. ClaimMatches'
      BY <1>8 DEF Crash, Goto, IInv, TypeOK, ClaimMatches
    <2>4. RowsMatch'
      BY <1>8 DEF Crash, Goto, IInv, TypeOK, RowsMatch
    <2>5. ReplayFaithful'
      BY <1>8 DEF Crash, Goto, IInv, TypeOK, RowsMatch, ReplayFaithful
    <2>6. NoOrphanClaim'
      BY <1>8 DEF Crash, Goto, IInv, TypeOK, NoOrphanClaim, Running
    <2>7. QED
      BY <2>1, <2>2, <2>3, <2>4, <2>5, <2>6 DEF IInv
  <1>9. ASSUME NEW p \in Attempts, CompleteFails(p) PROVE IInv'
    <2>1. TypeOK'
      BY <1>9 DEF CompleteFails, Goto, IInv, TypeOK, Pc
    <2>2. Progress'
      BY <1>9 DEF CompleteFails, Goto, IInv, TypeOK, Progress
    <2>3. ClaimMatches'
      BY <1>9 DEF CompleteFails, Goto, IInv, TypeOK, ClaimMatches
    <2>4. RowsMatch'
      BY <1>9 DEF CompleteFails, Goto, IInv, TypeOK, RowsMatch
    <2>5. ReplayFaithful'
      BY <1>9 DEF CompleteFails, Goto, IInv, TypeOK, RowsMatch, ReplayFaithful
    <2>6. NoOrphanClaim'
      BY <1>9 DEF CompleteFails, Goto, IInv, TypeOK, NoOrphanClaim, Running
    <2>7. QED
      BY <2>1, <2>2, <2>3, <2>4, <2>5, <2>6 DEF IInv
  <1>10. ASSUME NEW p \in Attempts, ClaimFails(p) PROVE IInv'
    <2>1. TypeOK'
      BY <1>10 DEF ClaimFails, Goto, IInv, TypeOK, Pc
    <2>2. Progress'
      BY <1>10 DEF ClaimFails, Goto, IInv, TypeOK, Progress
    <2>3. ClaimMatches'
      BY <1>10 DEF ClaimFails, Goto, IInv, TypeOK, ClaimMatches
    <2>4. RowsMatch'
      BY <1>10 DEF ClaimFails, Goto, IInv, TypeOK, RowsMatch
    <2>5. ReplayFaithful'
      BY <1>10 DEF ClaimFails, Goto, IInv, TypeOK, RowsMatch, ReplayFaithful
    <2>6. NoOrphanClaim'
      BY <1>10 DEF ClaimFails, Goto, IInv, TypeOK, NoOrphanClaim, Running
    <2>7. QED
      BY <2>1, <2>2, <2>3, <2>4, <2>5, <2>6 DEF IInv
  <1>11. ASSUME NEW k \in Keys, Expire(k) PROVE IInv'
    <2> DEFINE row == [rows[k] EXCEPT !.expired = TRUE]
    <2>1. /\ rows' = [rows EXCEPT ![k] = row] /\ rows[k] # NoRow
          /\ UNCHANGED <<pc, req, claim, answer, committed, faults>>
      BY <1>11 DEF Expire
    <2>2. rows \in [Keys -> {NoRow} \cup RowRecord] /\ rows[k] \in RowRecord
      BY <2>1 DEF IInv, TypeOK, RowRecord
    <2>3. /\ row \in RowRecord /\ row.id = rows[k].id /\ row.hash = rows[k].hash
          /\ row.response = rows[k].response
      BY <2>2 DEF RowRecord
    <2> HIDE DEF row
    <2>4. /\ rows' \in [Keys -> {NoRow} \cup RowRecord]
          /\ \A j \in Keys : rows'[j] = IF j = k THEN row ELSE rows[j]
      BY <2>1, <2>2, <2>3
    <2>5. TypeOK' /\ Progress' /\ ClaimMatches' /\ ReplayFaithful'
      BY <2>1, <2>4 DEF IInv, TypeOK, Progress, ClaimMatches, ReplayFaithful, RowRecord
    <2>6. RowsMatch'
      BY <2>1, <2>3, <2>4 DEF IInv, RowsMatch
    <2>7. NoOrphanClaim'
      BY <2>1, <2>3, <2>4 DEF IInv, NoOrphanClaim
    <2>8. QED
      BY <2>5, <2>6, <2>7 DEF IInv
  <1>12. CASE UNCHANGED vars
    BY <1>12 DEF vars, IInv, TypeOK, Progress, ClaimMatches, RowsMatch, ReplayFaithful,
                NoOrphanClaim
  <1>13. QED
    BY <1>1, <1>2, <1>3, <1>4, <1>5, <1>6, <1>7, <1>8, <1>9, <1>10, <1>11, <1>12
    DEF Next, Step

\* While an attempt with a calm key is under way, the others are answered.
LEMMA Alone ==
  ASSUME CalmInv, NEW p \in Attempts, pc[p] \in Running, req[p].key \in Calm,
         NEW q \in Attempts \ {p}, pc[q] \in Pc, pc[q] # "new", req[q].key = req[p].key
  PROVE  pc[q] = "answered"
  BY DEF CalmInv, CalmAttempt, Running, Pc

\* A step of one attempt leaves the others as calm as they were when it keeps
\* to its own row and does not take a response away.
LEMMA CalmFrame ==
  ASSUME IInv, CalmInv, NEW p \in Attempts, pc[p] \in Running,
         UNCHANGED req,
         \A q \in Attempts \ {p} : pc'[q] = pc[q] /\ claim'[q] = claim[q],
         committed' \in {committed, committed \cup {p}},
         \A k \in Keys : k # req[p].key => rows'[k] = rows[k],
         req[p].key \in Calm =>
           /\ ~rows'[req[p].key].expired
           /\ rows[req[p].key].response # None => rows'[req[p].key].response # None,
         CalmAttempt(p)', OnceWhenCalm'
  PROVE  CalmInv'
  <1>1. \A k \in Calm : ~rows'[k].expired
    BY IdempotencyAssumption DEF CalmInv
  <1>2. ASSUME NEW q \in Attempts \ {p}, pc[q] # "new", req[q].key \in Calm PROVE CalmAttempt(q)'
    <2>1. pc[q] \in Pc /\ req[q].key \in Keys /\ CalmAttempt(q)
      BY <1>2, RowType DEF IInv, TypeOK, CalmInv
    <2>2. CASE req[q].key = req[p].key
      <3>1. pc[q] = "answered" /\ pc'[q] = "answered"
        BY <1>2, <2>1, <2>2, Alone
      <3>2. q \in committed' => rows'[req[q].key].response # None
        BY <1>2, <2>1, <2>2, <3>1 DEF CalmAttempt
      <3>3. QED
        BY <3>1, <3>2 DEF CalmAttempt, Running
    <2>3. CASE req[q].key # req[p].key
      <3>1. rows'[req[q].key] = rows[req[q].key]
        BY <2>1, <2>3
      <3>2. \A r \in committed' : req[r].key = req[q].key => r \in committed
        BY <2>3
      <3>3. pc[q] \in Running =>
              \A r \in Attempts \ {q} : pc'[r] \in Running => req[r].key # req[q].key
        BY <1>2, <2>1, <2>3 DEF CalmAttempt
      <3>4. QED
        BY <1>2, <2>1, <3>1, <3>2, <3>3 DEF CalmAttempt
    <2>4. QED
      BY <2>2, <2>3
  <1>3. \A q \in Attempts : CalmAttempt(q)'
    BY <1>2 DEF CalmAttempt
  <1>4. QED
    BY <1>1, <1>3 DEF CalmInv

\* Nothing disturbs a calm key, so that the attempts that use it take turns.
LEMMA CalmInvNext == IInv /\ CalmInv /\ [Next]_vars => CalmInv'
  <1> SUFFICES ASSUME IInv, CalmInv, [Next]_vars PROVE CalmInv'
    OBVIOUS
  <1> USE IdempotencyAssumption
  <1>1. ASSUME NEW p \in Attempts, Arrive(p) PROVE CalmInv'
    <2>1. PICK r \in Request :
            /\ r.key \in Calm => \A q \in Attempts : pc[q] \in Running => req[q].key # r.key
            /\ req' = [req EXCEPT ![p] = r]
      BY <1>1 DEF Arrive
    <2>2. /\ pc[p] = "new" /\ pc' = [pc EXCEPT ![p] = "claiming"]
          /\ UNCHANGED <<claim, rows, committed>>
      BY <1>1 DEF Arrive, Goto
    <2>3. p \notin committed
      BY <2>2 DEF IInv, Progress
    <2>4. OnceWhenCalm'
      BY <2>1, <2>2, <2>3 DEF IInv, TypeOK, CalmInv, OnceWhenCalm
    <2>5. CalmAttempt(p)'
      BY <2>1, <2>2, <2>3 DEF IInv, TypeOK, CalmAttempt, Running
    <2>6. ASSUME NEW q \in Attempts \ {p} PROVE CalmAttempt(q)'
      <3>1. pc'[q] = pc[q] /\ req'[q] = req[q] /\ CalmAttempt(q)
        BY <2>1, <2>2 DEF IInv, TypeOK, CalmInv
      <3>2. \A c \in committed : req'[c] = req[c]
        BY <2>1, <2>3 DEF IInv, TypeOK
      <3>3. pc[q] \in Running /\ req[q].key \in Calm =>
              \A o \in Attempts \ {q} : pc'[o] \in Running => req'[o].key # req[q].key
        BY <2>1, <2>2, <3>1 DEF IInv, TypeOK, CalmAttempt, Running
      <3>4. QED
        BY <2>2, <3>1, <3>2, <3>3 DEF CalmAttempt
    <2>7. QED
      BY <2>2, <2>4, <2>5, <2>6 DEF CalmInv
  <1>2. ASSUME NEW p \in Attempts, Claim(p) PROVE CalmInv'
    <2>1. /\ pc[p] = "claiming" /\ p \notin committed /\ req[p].key \in Keys
          /\ UNCHANGED <<req, committed>>
          /\ CalmAttempt(p) /\ OnceWhenCalm
      BY <1>2, RowType DEF Claim, IInv, Progress, CalmInv
    <2>2. OnceWhenCalm'
      BY <2>1 DEF OnceWhenCalm
    <2>3. CASE RowOf(p) = NoRow
      <3> DEFINE row == [id |-> p, hash |-> req[p].body, response |-> None, expired |-> FALSE]
      <3>1. /\ SetRow(p, row)
            /\ claim' = [claim EXCEPT ![p] = p]
            /\ pc' = [pc EXCEPT ![p] = "handling"]
        BY <1>2, <2>3 DEF Claim, Goto, Hash
      <3>2. row \in RowRecord
        BY <2>1, RowType DEF RowRecord
      <3>3. \A k \in Keys : rows'[k] = IF k = req[p].key THEN row ELSE rows[k]
        BY <2>1, <3>1, <3>2, RowWritten
      <3> HIDE DEF row
      <3>4. row.id = p /\ row.response = None /\ row.expired = FALSE
        BY DEF row
      <3>5. rows[req[p].key].response = None /\ rows[req[p].key].id = None
        BY <2>3 DEF RowOf, NoRow
      <3>6. req[p].key \in Calm => \A q \in committed : req[q].key # req[p].key
        <4> SUFFICES ASSUME req[p].key \in Calm, NEW q \in committed, req[q].key = req[p].key
                     PROVE  FALSE
          OBVIOUS
        <4>1. q \in Attempts /\ q # p /\ pc[q] # "new" /\ pc[q] \in Pc /\ CalmAttempt(q)
          BY <2>1 DEF IInv, TypeOK, Progress, CalmInv
        <4>2. pc[q] = "answered"
          BY <2>1, <4>1, Alone DEF Running
        <4>3. QED
          BY <3>5, <4>1, <4>2 DEF CalmAttempt
      <3>7. \A q \in Attempts \ {p} : pc'[q] = pc[q] /\ claim'[q] = claim[q]
        BY <3>1 DEF IInv, TypeOK
      <3>8. pc'[p] = "handling" /\ claim'[p] = p
        BY <3>1 DEF IInv, TypeOK
      <3>9. CalmAttempt(p)'
        BY <2>1, <3>3, <3>4, <3>6, <3>7, <3>8 DEF CalmAttempt, Running
      <3>10. QED
        BY <2>1, <2>2, <3>3, <3>4, <3>5, <3>7, <3>9, CalmFrame DEF Running
    <2>4. CASE RowOf(p) # NoRow
      <3>1. pc' = [pc EXCEPT ![p] = "lookup"] /\ UNCHANGED <<rows, claim>>
        BY <1>2, <2>4 DEF Claim, Goto
      <3>2. CalmAttempt(p)'
        BY <2>1, <2>4, <3>1 DEF IInv, TypeOK, CalmAttempt, Running, RowOf
      <3>3. QED
        BY <2>1, <2>2, <3>1, <3>2, CalmFrame DEF IInv, TypeOK, Running, CalmInv
    <2>5. QED
      BY <2>3, <2>4
  <1>3. ASSUME NEW p \in Attempts, Lookup(p) PROVE CalmInv'
    <2>1. /\ pc[p] = "lookup" /\ claim[p] = None /\ p \notin committed /\ req[p].key \in Keys
          /\ UNCHANGED <<req, rows, committed>>
          /\ CalmAttempt(p) /\ OnceWhenCalm
      BY <1>3, RowType DEF Lookup, IInv, Progress, CalmInv
    <2>2. OnceWhenCalm'
      BY <2>1 DEF OnceWhenCalm
    <2>3. \A q \in Attempts \ {p} : pc'[q] = pc[q] /\ claim'[q] = claim[q]
      BY <1>3 DEF Lookup, Answer, Goto, IInv, TypeOK
    <2>4. CASE req[p].key \notin Calm
      BY <2>1, <2>2, <2>3, <2>4, CalmFrame DEF CalmAttempt, Running
    <2>5. CASE req[p].key \in Calm
      <3>1. RowOf(p) # NoRow /\ ~RowOf(p).expired
        BY <2>1, <2>5 DEF RowOf, CalmAttempt, CalmInv
      <3>2. RowOf(p).response # None
        <4> SUFFICES ASSUME RowOf(p).response = None PROVE FALSE
          OBVIOUS
        <4>1. PICK q \in Attempts : /\ claim[q] = RowOf(p).id
                                    /\ pc[q] \in Running \cup {"dead"}
          BY <2>1, <3>1 DEF IInv, NoOrphanClaim, RowOf
        <4>2. claim[q] # None /\ q # p
          BY <2>1, <3>1, <4>1, RowType
        <4>3. req[q].key = req[p].key
          BY <2>1, <3>1, <4>1, <4>2 DEF IInv, ClaimMatches, RowsMatch, RowOf
        <4>4. pc[q] = "answered"
          BY <2>1, <2>5, <4>1, <4>2, <4>3, Alone DEF IInv, TypeOK, Running
        <4>5. QED
          BY <4>1, <4>4 DEF Running
      <3>3. pc'[p] = "answered"
        BY <1>3, <3>1, <3>2 DEF Lookup, Answer, Goto, IInv, TypeOK
      <3>4. CalmAttempt(p)'
        BY <2>1, <3>3 DEF CalmAttempt, Running
      <3>5. QED
        BY <2>1, <2>2, <2>3, <3>4, CalmFrame DEF Running, CalmInv
    <2>6. QED
      BY <2>4, <2>5
  <1>4. ASSUME NEW p \in Attempts, HandlerCommits(p) PROVE CalmInv'
    <2>1. /\ pc[p] = "handling" /\ req[p].key \in Keys
          /\ committed' = committed \cup {p}
          /\ UNCHANGED <<req, rows, claim>>
          /\ CalmAttempt(p) /\ OnceWhenCalm
      BY <1>4, RowType DEF HandlerCommits, CalmInv
    <2>2. OnceWhenCalm'
      BY <2>1 DEF OnceWhenCalm, CalmAttempt
    <2>3. \A q \in Attempts \ {p} : pc'[q] = pc[q]
      BY <1>4 DEF HandlerCommits, Answer, Goto, IInv, TypeOK
    <2>4. req[p].key \in Calm => pc'[p] = "completing"
      BY <1>4, <2>1 DEF HandlerCommits, Goto, IInv, TypeOK, CalmAttempt
    <2>5. CalmAttempt(p)'
      BY <2>1, <2>3, <2>4 DEF CalmAttempt, Running
    <2>6. QED
      BY <2>1, <2>2, <2>3, <2>5, CalmFrame DEF Running, CalmInv
  <1>5. ASSUME NEW p \in Attempts, HandlerThrows(p) PROVE CalmInv'
    <2>1. /\ pc[p] = "handling" /\ p \notin committed /\ req[p].key \in Keys
          /\ UNCHANGED <<req, rows, claim, committed>>
          /\ CalmAttempt(p) /\ OnceWhenCalm
      BY <1>5, RowType DEF HandlerThrows, IInv, Progress, CalmInv
    <2>2. OnceWhenCalm'
      BY <2>1 DEF OnceWhenCalm
    <2>3. \A q \in Attempts \ {p} : pc'[q] = pc[q]
      BY <1>5 DEF HandlerThrows, Answer, Goto, IInv, TypeOK
    <2>4. req[p].key \in Calm => pc'[p] = "aborting"
      BY <1>5, <2>1 DEF HandlerThrows, Goto, IInv, TypeOK, CalmAttempt
    <2>5. CalmAttempt(p)'
      BY <2>1, <2>3, <2>4 DEF CalmAttempt, Running
    <2>6. QED
      BY <2>1, <2>2, <2>3, <2>5, CalmFrame DEF Running, CalmInv
  <1>6. ASSUME NEW p \in Attempts, Complete(p) PROVE CalmInv'
    <2>1. /\ pc[p] = "completing" /\ req[p].key \in Keys
          /\ UNCHANGED <<req, claim, committed>>
          /\ CalmAttempt(p) /\ OnceWhenCalm
      BY <1>6, RowType DEF Complete, CalmInv
    <2>2. OnceWhenCalm'
      BY <2>1 DEF OnceWhenCalm
    <2>3. \A q \in Attempts \ {p} : pc'[q] = pc[q]
      BY <1>6 DEF Complete, Answer, Goto, IInv, TypeOK
    <2>4. CASE RowOf(p).id = claim[p]
      <3> DEFINE row == [RowOf(p) EXCEPT !.response = p]
      <3>1. SetRow(p, row) /\ pc'[p] = "answered"
        BY <1>6, <2>4 DEF Complete, Answer, Goto, IInv, TypeOK
      <3>2. claim[p] # None
        BY <2>1 DEF IInv, Progress
      <3>3. rows[req[p].key] \in RowRecord /\ RowOf(p) = rows[req[p].key]
        BY <2>1, <2>4, <3>2, RowType DEF IInv, TypeOK, RowOf, RowRecord, NoRow
      <3>4. row \in RowRecord /\ row.response = p /\ row.expired = rows[req[p].key].expired
        BY <3>3 DEF RowRecord
      <3>5. \A k \in Keys : rows'[k] = IF k = req[p].key THEN row ELSE rows[k]
        BY <2>1, <3>1, <3>4, RowWritten
      <3> HIDE DEF row
      <3>6. CalmAttempt(p)'
        BY <2>1, <3>1, <3>4, <3>5 DEF CalmAttempt, Running
      <3>7. QED
        BY <2>1, <2>2, <2>3, <3>4, <3>5, <3>6, CalmFrame DEF Running, CalmInv
    <2>5. CASE RowOf(p).id # claim[p]
      <3>1. pc'[p] = "aborting" /\ UNCHANGED rows
        BY <1>6, <2>5 DEF Complete, Goto, IInv, TypeOK
      <3>2. req[p].key \notin Calm
        BY <2>1, <2>5 DEF CalmAttempt, RowOf
      <3>3. CalmAttempt(p)'
        BY <2>1, <3>2 DEF CalmAttempt
      <3>4. QED
        BY <2>1, <2>2, <2>3, <3>1, <3>2, <3>3, CalmFrame DEF Running
    <2>6. QED
      BY <2>4, <2>5
  <1>7. ASSUME NEW p \in Attempts, AbortClaim(p) PROVE CalmInv'
    <2>1. /\ pc[p] = "aborting" /\ req[p].key \in Keys
          /\ UNCHANGED <<req, claim, committed>>
          /\ CalmAttempt(p) /\ OnceWhenCalm
      BY <1>7, RowType DEF AbortClaim, CalmInv
    <2>2. OnceWhenCalm'
      BY <2>1 DEF OnceWhenCalm
    <2>3. /\ \A q \in Attempts \ {p} : pc'[q] = pc[q]
          /\ pc'[p] = "answered"
      BY <1>7 DEF AbortClaim, Answer, Goto, IInv, TypeOK
    <2>4. \A k \in Keys : rows'[k] = rows[k] \/ (k = req[p].key /\ rows'[k] = NoRow)
      <3>1. CASE SetRow(p, NoRow)
        BY <2>1, <3>1, RowWritten
      <3>2. CASE UNCHANGED rows
        BY <3>2
      <3>3. QED
        BY <1>7, <3>1, <3>2 DEF AbortClaim
    <2>5. req[p].key \in Calm => rows[req[p].key].response = None /\ p \notin committed
      BY <2>1 DEF CalmAttempt
    <2>6. CalmAttempt(p)'
      BY <2>1, <2>3, <2>5 DEF CalmAttempt, Running
    <2>7. req[p].key \in Calm => ~rows'[req[p].key].expired
      BY <2>1, <2>4 DEF CalmInv, NoRow
    <2>8. QED
      BY <2>1, <2>2, <2>3, <2>4, <2>5, <2>6, <2>7, CalmFrame DEF Running
  <1>8. ASSUME NEW p \in Attempts, Crash(p) PROVE CalmInv'
    <2>1. /\ pc[p] \in Running /\ req[p].key \notin Calm
          /\ UNCHANGED <<req, claim, rows, committed>>
      BY <1>8 DEF Crash, Disturbed, Running
    <2>2. \A q \in Attempts \ {p} : pc'[q] = pc[q]
      BY <1>8 DEF Crash, Goto, IInv, TypeOK
    <2>3. CalmAttempt(p)' /\ OnceWhenCalm'
      BY <2>1 DEF CalmAttempt, CalmInv, OnceWhenCalm
    <2>4. QED
      BY <2>1, <2>2, <2>3, CalmFrame
  <1>9. ASSUME NEW p \in Attempts, CompleteFails(p) PROVE CalmInv'
    <2>1. /\ pc[p] \in Running /\ req[p].key \notin Calm
          /\ UNCHANGED <<req, claim, rows, committed>>
      BY <1>9 DEF CompleteFails, Disturbed, Running
    <2>2. \A q \in Attempts \ {p} : pc'[q] = pc[q]
      BY <1>9 DEF CompleteFails, Goto, IInv, TypeOK
    <2>3. CalmAttempt(p)' /\ OnceWhenCalm'
      BY <2>1 DEF CalmAttempt, CalmInv, OnceWhenCalm
    <2>4. QED
      BY <2>1, <2>2, <2>3, CalmFrame
  <1>10. ASSUME NEW p \in Attempts, ClaimFails(p) PROVE CalmInv'
    <2>1. /\ pc[p] \in Running /\ req[p].key \notin Calm
          /\ UNCHANGED <<req, claim, rows, committed>>
      BY <1>10 DEF ClaimFails, Disturbed, Running
    <2>2. \A q \in Attempts \ {p} : pc'[q] = pc[q]
      BY <1>10 DEF ClaimFails, Goto, IInv, TypeOK
    <2>3. CalmAttempt(p)' /\ OnceWhenCalm'
      BY <2>1 DEF CalmAttempt, CalmInv, OnceWhenCalm
    <2>4. QED
      BY <2>1, <2>2, <2>3, CalmFrame
  <1>11. ASSUME NEW k \in Keys, Expire(k) PROVE CalmInv'
    <2>1. /\ k \notin Calm /\ UNCHANGED <<pc, req, claim, committed>>
          /\ \A c \in Calm : rows'[c] = rows[c]
      BY <1>11 DEF Expire, IInv, TypeOK
    <2>2. QED
      BY <2>1 DEF CalmInv, CalmAttempt, OnceWhenCalm
  <1>12. CASE UNCHANGED vars
    BY <1>12 DEF vars, CalmInv, CalmAttempt, OnceWhenCalm
  <1>13. QED
    BY <1>1, <1>2, <1>3, <1>4, <1>5, <1>6, <1>7, <1>8, <1>9, <1>10, <1>11, <1>12
    DEF Next, Step

-----------------------------------------------------------------------------
\* Both invariants hold of every behaviour of the interceptor.
LEMMA IdempotencyInvariant == Spec => [](IInv /\ CalmInv)
  <1>1. Init => IInv /\ CalmInv
    BY IInvInit, CalmInvInit
  <1>2. IInv /\ CalmInv /\ [Next]_vars => (IInv /\ CalmInv)'
    BY IInvNext, CalmInvNext
  <1>3. QED
    BY <1>1, <1>2, PTL DEF Spec

\* Every variable of the interceptor keeps its type.
THEOREM IdempotencyTypes == Spec => []TypeOK
  <1>1. IInv /\ CalmInv => TypeOK
    BY DEF IInv
  <1>2. QED
    BY <1>1, IdempotencyInvariant, PTL

\* What is answered, replayed or not, is the response of a committed attempt
\* with the same key and body (complete, abort, claim).
THEOREM IdempotencyReplayFaithful == Spec => []ReplayFaithful
  <1>1. IInv /\ CalmInv => ReplayFaithful
    BY DEF IInv
  <1>2. QED
    BY <1>1, IdempotencyInvariant, PTL

\* No key stays claimed by an attempt that was answered (abort).
THEOREM IdempotencyNoOrphanClaim == Spec => []NoOrphanClaim
  <1>1. IInv /\ CalmInv => NoOrphanClaim
    BY DEF IInv
  <1>2. QED
    BY <1>1, IdempotencyInvariant, PTL

\* A key whose attempts take turns, and meet no fault, takes effect at most
\* once, however many of them fail or are repeated.
THEOREM IdempotencyOnceWhenCalm == Spec => []OnceWhenCalm
  <1>1. IInv /\ CalmInv => OnceWhenCalm
    BY DEF CalmInv
  <1>2. QED
    BY <1>1, IdempotencyInvariant, PTL

-----------------------------------------------------------------------------
(* Quotations                                                              *)

\* A request that is going to expire a quotation read a status to leave.
ExpiresOpen == \A s \in Sellers : selling[s].step = "expire" => selling[s].status # "CONVERTED"

QuotesInv == QuotesTypeOK /\ ExpiresOpen /\ ConvertedOnce

LEMMA QuotesInitInv == QuotesInit => QuotesInv
  <1> SUFFICES ASSUME QuotesInit PROVE QuotesInv
    OBVIOUS
  <1>1. QuotesTypeOK
    BY DEF QuotesInit, QuotesTypeOK, NoQuoteRow, NotSelling, QuoteStatus, QuoteSteps
  <1>2. ExpiresOpen
    BY DEF QuotesInit, ExpiresOpen, NotSelling
  <1>3. ConvertedOnce
    BY DEF QuotesInit, ConvertedOnce, NoQuoteRow
  <1>4. QED
    BY <1>1, <1>2, <1>3 DEF QuotesInv

\* A row that stays as it is, and so does what was drafted from it.
LEMMA QuoteKept ==
  ASSUME ConvertedOnce, NEW q \in Quotes,
         quote'[q].status = quote[q].status, quote'[q].linked = quote[q].linked,
         drafted'[q] = drafted[q]
  PROVE  /\ drafted'[q] = (IF quote'[q].status = "CONVERTED" THEN 1 ELSE 0)
         /\ quote'[q].linked <=> quote'[q].status = "CONVERTED"
  BY DEF ConvertedOnce

\* A row that moves between statuses other than CONVERTED.
LEMMA QuoteMoved ==
  ASSUME ConvertedOnce, NEW q \in Quotes,
         quote[q].status # "CONVERTED", quote'[q].status # "CONVERTED",
         quote'[q].linked = quote[q].linked, drafted'[q] = drafted[q]
  PROVE  /\ drafted'[q] = (IF quote'[q].status = "CONVERTED" THEN 1 ELSE 0)
         /\ quote'[q].linked <=> quote'[q].status = "CONVERTED"
  BY DEF ConvertedOnce

LEMMA QuotesStepInv == QuotesInv /\ [QuotesNext]_quoteVars => QuotesInv'
  <1> SUFFICES ASSUME QuotesInv, [QuotesNext]_quoteVars PROVE QuotesInv'
    OBVIOUS
  <1> USE DEF QuotesInv
  <1>1. ASSUME NEW q \in Quotes, CreateQuote(q) PROVE QuotesInv'
    <2>0. PICK l \in BOOLEAN : quote' = [quote EXCEPT ![q].status = "DRAFT", ![q].lapsed = l]
      BY <1>1 DEF CreateQuote
    <2>1. QuotesTypeOK'
      <3>0. /\ quote[q] \in [status : QuoteStatus, lapsed : BOOLEAN, linked : BOOLEAN]
            /\ "DRAFT" \in QuoteStatus
        BY DEF QuotesTypeOK, QuoteStatus
      <3>1. [quote[q] EXCEPT !.status = "DRAFT", !.lapsed = l]
              \in [status : QuoteStatus, lapsed : BOOLEAN, linked : BOOLEAN]
        BY <3>0
      <3>2. quote' \in [Quotes -> [status : QuoteStatus, lapsed : BOOLEAN, linked : BOOLEAN]]
        BY <2>0, <3>1 DEF QuotesTypeOK
      <3>3. QED
        BY <1>1, <3>2 DEF CreateQuote, QuotesTypeOK
    <2>2. ExpiresOpen'
      BY <1>1 DEF CreateQuote, ExpiresOpen
    <2>3. ConvertedOnce'
      BY <1>1, QuoteKept, QuoteMoved DEF CreateQuote, ConvertedOnce, QuotesTypeOK
    <2>4. QED
      BY <2>1, <2>2, <2>3
  <1>2. ASSUME NEW q \in Quotes, Lapse(q) PROVE QuotesInv'
    <2>1. QuotesTypeOK'
      BY <1>2 DEF Lapse, QuotesTypeOK
    <2>2. ExpiresOpen'
      BY <1>2 DEF Lapse, ExpiresOpen
    <2>3. ConvertedOnce'
      BY <1>2, QuoteKept DEF Lapse, ConvertedOnce, QuotesTypeOK
    <2>4. QED
      BY <2>1, <2>2, <2>3
  <1>3. ASSUME NEW s \in Sellers, NEW q \in Quotes, NEW step \in QuoteSteps \ {"idle", "expire"},
               ReadQuote(s, q, step)
        PROVE  QuotesInv'
    <2>1. QuotesTypeOK'
      BY <1>3 DEF ReadQuote, QuotesTypeOK, QuoteSteps
    <2>2. ExpiresOpen'
      BY <1>3 DEF ReadQuote, ExpiresOpen, Overdue, QuotesTypeOK, QuoteSteps
    <2>3. ConvertedOnce'
      BY <1>3 DEF ReadQuote, ConvertedOnce
    <2>4. QED
      BY <2>1, <2>2, <2>3
  <1>4. ASSUME NEW s \in Sellers, Answered(s), QuotesTypeOK, ExpiresOpen
        PROVE  /\ ExpiresOpen'
               /\ selling' \in [Sellers -> [step : QuoteSteps, quote : Quotes \cup {NoQuote},
                                            status : QuoteStatus]]
               /\ \A t \in Sellers : selling'[t].step # "idle" => selling'[t].quote \in Quotes
    BY <1>4 DEF Answered, ExpiresOpen, QuotesTypeOK, NotSelling, QuoteSteps, QuoteStatus
  <1>5. ASSUME NEW s \in Sellers, ExpireQuote(s) PROVE QuotesInv'
    <2> DEFINE q == selling[s].quote
    <2>1. q \in Quotes /\ selling[s].status # "CONVERTED"
      BY <1>5 DEF ExpireQuote, QuotesTypeOK, ExpiresOpen
    <2>2. QuotesTypeOK' /\ ExpiresOpen'
      BY <1>4, <1>5, <2>1, SMTT(30) DEF ExpireQuote, QuotesTypeOK, QuoteStatus
    <2>3. ConvertedOnce'
      BY <1>5, <2>1, QuoteKept, QuoteMoved
      DEF ExpireQuote, SameStatus, ConvertedOnce, QuotesTypeOK
    <2>4. QED
      BY <2>2, <2>3
  <1>6. ASSUME NEW s \in Sellers, Advance(s) PROVE QuotesInv'
    <2> DEFINE q == selling[s].quote
               t == selling[s].step
    <2>1. q \in Quotes /\ t \in {"send", "accept", "cancel"}
      BY <1>6 DEF Advance, QuotesTypeOK
    <2>2. /\ "CONVERTED" \notin From[t]
          /\ To[t] \in QuoteStatus \ {"CONVERTED"}
      BY <2>1 DEF From, To, QuoteStatus
    <2>3. QuotesTypeOK' /\ ExpiresOpen'
      BY <1>4, <1>6, <2>1, <2>2 DEF Advance, QuotesTypeOK
    <2>4. ConvertedOnce'
      BY <1>6, <2>1, <2>2, QuoteKept, QuoteMoved
      DEF Advance, Allowed, ConvertedOnce, QuotesTypeOK
    <2>5. QED
      BY <2>3, <2>4
  <1>7. ASSUME NEW s \in Sellers, Convert(s) PROVE QuotesInv'
    <2> DEFINE q == selling[s].quote
    <2>1. q \in Quotes /\ From["convert"] = {"ACCEPTED"}
      BY <1>7 DEF Convert, QuotesTypeOK, From
    <2>2. QuotesTypeOK' /\ ExpiresOpen'
      <3>0. /\ quote[q] \in [status : QuoteStatus, lapsed : BOOLEAN, linked : BOOLEAN]
            /\ "CONVERTED" \in QuoteStatus
        BY <2>1 DEF QuotesTypeOK, QuoteStatus
      <3>1. [quote[q] EXCEPT !.status = "CONVERTED", !.linked = TRUE]
              \in [status : QuoteStatus, lapsed : BOOLEAN, linked : BOOLEAN]
        BY <3>0
      <3>2. quote' \in [Quotes -> [status : QuoteStatus, lapsed : BOOLEAN, linked : BOOLEAN]]
        BY <1>7, <2>1, <3>1 DEF Convert, QuotesTypeOK
      <3>3. drafted' \in [Quotes -> Nat]
        BY <1>7, <2>1 DEF Convert, QuotesTypeOK
      <3>4. Answered(s)
        BY <1>7 DEF Convert
      <3>5. QED
        BY <1>4, <3>2, <3>3, <3>4 DEF QuotesTypeOK
    <2>3. ConvertedOnce'
      BY <1>7, <2>1 DEF Convert, Allowed, ConvertedOnce, QuotesTypeOK
    <2>4. QED
      BY <2>2, <2>3
  <1>8. ASSUME NEW s \in Sellers, UpdateDraft(s) PROVE QuotesInv'
    <2>1. selling[s].quote \in Quotes
      BY <1>8 DEF UpdateDraft, QuotesTypeOK
    <2>2. QuotesTypeOK' /\ ExpiresOpen'
      BY <1>4, <1>8, <2>1 DEF UpdateDraft, QuotesTypeOK
    <2>3. ConvertedOnce'
      BY <1>8, <2>1, QuoteKept DEF UpdateDraft, ConvertedOnce, QuotesTypeOK
    <2>4. QED
      BY <2>2, <2>3
  <1>9. CASE UNCHANGED quoteVars
    BY <1>9 DEF quoteVars, QuotesTypeOK, ExpiresOpen, ConvertedOnce
  <1>10. QED
    BY <1>1, <1>2, <1>3, <1>5, <1>6, <1>7, <1>8, <1>9 DEF QuotesNext, Selling

\* Every variable of the quotations keeps its type.
THEOREM QuotationsTypes == QuotesSpec => []QuotesTypeOK
  <1>1. QuotesInv => QuotesTypeOK
    BY DEF QuotesInv
  <1>2. QED
    BY <1>1, QuotesInitInv, QuotesStepInv, PTL DEF QuotesSpec

\* Conversions, cancellations and expiries that overlap (convertToInvoice's
\* compare-and-set) leave one invoice per converted quotation and no other.
THEOREM QuotationsConvertedOnce == QuotesSpec => []ConvertedOnce
  <1>1. QuotesInv => ConvertedOnce
    BY DEF QuotesInv
  <1>2. QED
    BY <1>1, QuotesInitInv, QuotesStepInv, PTL DEF QuotesSpec

-----------------------------------------------------------------------------
(* Purchases                                                               *)

Bought(i) == Posted(journal, "PURCHASE_INVOICE", i)

\* Entries of another type or source do not buy i, and none unbuys it.
LEMMA BoughtSame ==
  ASSUME NEW i, journal \subseteq journal',
         \A e \in journal' \ journal : e.type # "PURCHASE_INVOICE" \/ e.source # i
  PROVE  Bought(i)' <=> Bought(i)
  BY DEF Bought, Posted, EntriesOf

GoodEntries(j) ==
    \A e \in j : e.type \in SourceType /\ e.amount \in Nat \ {0} /\ e.copy \in Nat

LEMMA EntryIsGood ==
  ASSUME NEW type \in SourceType, NEW source, NEW amount \in Nat \ {0}
  PROVE  /\ Entry(type, source, amount).type = type
         /\ Entry(type, source, amount).source = source
         /\ GoodEntries({Entry(type, source, amount)})
  BY DEF Entry, GoodEntries

LEMMA SourceTypes ==
  {"PURCHASE_INVOICE", "PURCHASE_VOID", "PURCHASE_PAYMENT", "PURCHASE_PAYMENT_REVERSAL"}
    \subseteq SourceType
  BY DEF SourceType, DebitOf

LEMMA InvoiceEntryIsGood ==
  ASSUME NEW i, NEW amount \in Nat \ {0}
  PROVE  LET e == Entry("PURCHASE_INVOICE", i, amount)
         IN  e.type = "PURCHASE_INVOICE" /\ e.source = i /\ GoodEntries({e})
  BY EntryIsGood, SourceTypes

RequestsType ==
    /\ op \in [Requests -> Steps]
    /\ doc \in [Requests -> Purchases \cup Items \cup {NoPurchase}]
    /\ seen \in [Requests -> [status : Status, paid : Nat, onHand : Int]]
    /\ amt \in [Requests -> Int]

DocumentsType ==
    /\ status \in [Purchases -> Status]
    /\ paid \in [Purchases -> Nat]
    /\ IsFiniteSet(payments)
    /\ \A p \in payments : p.id \in Nat /\ p.invoice \in Purchases /\ p.amount \in Nat \ {0}

GoodsType ==
    /\ stock \in [Items -> Int] /\ moved \in [Items -> Int]
    /\ arrived \in [Purchases -> 0..1]
    /\ adjusts \in 0..MaxAdjusts

AboutPurchase == {"confirm", "void", "voidStocked", "pay"}

\* What a request is about, and what it may rely on when it commits.
RequestKnows(r) ==
    /\ op[r] \in AboutPurchase => doc[r] \in Purchases
    /\ op[r] = "void" /\ seen[r].status \in Released => Bought(doc[r])
    /\ op[r] = "voidStocked" => Bought(doc[r])
    /\ op[r] = "pay" => amt[r] \in Amounts /\ Bought(doc[r])
    /\ op[r] = "adjust" =>
         /\ doc[r] \in Items
         /\ doc[r] \in Counted => seen[r].onHand = stock[doc[r]]

\* A counted item is left alone while it is adjusted.
AdjustsAlone ==
    \A r, q \in Requests : op[r] = "adjust" /\ doc[r] \in Counted /\ q # r =>
      /\ op[q] \in AboutPurchase => ItemOf[doc[q]] # doc[r]
      /\ op[q] = "adjust" => doc[q] # doc[r]

\* A purchase is in the ledger from its confirmation on.
Confirmation ==
    \A i \in Purchases : /\ status[i] \in {"NONE", "DRAFT"} => ~Bought(i)
                         /\ status[i] \in Released => Bought(i)
                         /\ Bought(i) => Total[i] > 0

PInv ==
    /\ DocumentsType /\ GoodsType /\ RequestsType /\ GoodEntries(journal)
    /\ \A r \in Requests : RequestKnows(r)
    /\ AdjustsAlone
    /\ Confirmation
    /\ GoodsArriveOnce
    /\ StockIsSumOfMovements

LEMMA PInitInv == PurchasesInit => PInv
  <1> SUFFICES ASSUME PurchasesInit PROVE PInv
    OBVIOUS
  <1> USE PurchasesAssumption
  <1>1. DocumentsType /\ GoodsType /\ RequestsType /\ GoodEntries(journal)
    BY FS_EmptySet DEF PurchasesInit, DocumentsType, GoodsType, RequestsType, GoodEntries,
                       Status, Steps, NoView
  <1>2. (\A r \in Requests : RequestKnows(r)) /\ AdjustsAlone
    BY DEF PurchasesInit, RequestKnows, AdjustsAlone, AboutPurchase
  <1>3. \A i : ~Bought(i)
    BY DEF PurchasesInit, Bought, Posted, EntriesOf
  <1>4. Confirmation /\ GoodsArriveOnce /\ StockIsSumOfMovements
    BY <1>3 DEF PurchasesInit, Confirmation, GoodsArriveOnce, StockIsSumOfMovements, Released,
                Bought
  <1>5. QED
    BY <1>1, <1>2, <1>4 DEF PInv

-----------------------------------------------------------------------------
\* A step about d keeps away from the counted items of the other requests.
StartsAlone(r, step, d) ==
    /\ \A q \in Requests : q # r /\ op[q] = "adjust" /\ doc[q] \in Counted =>
         /\ step \in AboutPurchase => ItemOf[d] # doc[q]
         /\ step = "adjust" => d # doc[q]
    /\ \A q \in Requests : q # r /\ step = "adjust" /\ d \in Counted =>
         /\ op[q] \in AboutPurchase => ItemOf[doc[q]] # d
         /\ op[q] = "adjust" => doc[q] # d

\* A request begins: what it reads at its start is so.
LEMMA RequestBegins ==
  ASSUME PInv, NEW r \in Requests, NEW step \in Steps, NEW a \in Int,
         NEW d \in Purchases \cup Items,
         NEW view \in [status : Status, paid : Nat, onHand : Int],
         UNCHANGED <<docs, goods, journal>>,
         Begin(r, step, d, view, a),
         step \in AboutPurchase => d \in Purchases,
         step = "void" /\ view.status \in Released => Bought(d),
         step = "voidStocked" => Bought(d),
         step = "pay" => a \in Amounts /\ Bought(d),
         step = "adjust" => d \in Items /\ view.onHand = stock[d],
         StartsAlone(r, step, d)
  PROVE  PInv'
  <1>1. /\ op' = [op EXCEPT ![r] = step] /\ doc' = [doc EXCEPT ![r] = d]
        /\ seen' = [seen EXCEPT ![r] = view] /\ amt' = [amt EXCEPT ![r] = a]
    BY DEF Begin
  <1>2. \A q \in Requests : /\ op'[q] = IF q = r THEN step ELSE op[q]
                            /\ doc'[q] = IF q = r THEN d ELSE doc[q]
                            /\ seen'[q] = IF q = r THEN view ELSE seen[q]
                            /\ amt'[q] = IF q = r THEN a ELSE amt[q]
    BY <1>1 DEF PInv, RequestsType
  <1>3. RequestsType'
    BY <1>1 DEF PInv, RequestsType
  <1>4. /\ DocumentsType' /\ GoodsType' /\ GoodEntries(journal)' /\ Confirmation'
        /\ GoodsArriveOnce' /\ StockIsSumOfMovements'
    BY DEF docs, goods, PInv, DocumentsType, GoodsType, GoodEntries, Confirmation, GoodsArriveOnce,
           StockIsSumOfMovements, Bought
  <1>5. ASSUME NEW q \in Requests PROVE RequestKnows(q)'
    <2>1. RequestKnows(q)
      BY DEF PInv
    <2>2. \A i : Bought(i)' <=> Bought(i)
      BY DEF Bought
    <2>3. CASE q = r
      BY <1>2, <2>2, <2>3 DEF RequestKnows, goods
    <2>4. CASE q # r
      BY <1>2, <2>1, <2>2, <2>4 DEF RequestKnows, goods
    <2>5. QED
      BY <2>3, <2>4
  <1>6. AdjustsAlone'
    BY <1>2 DEF PInv, AdjustsAlone, StartsAlone
  <1>7. QED
    BY <1>3, <1>4, <1>5, <1>6 DEF PInv

\* A request ends: the others rely on the ledger and on the stock of what they adjust.
LEMMA RequestEnds ==
  ASSUME PInv, NEW r \in Requests, Finish(r),
         \A i : Bought(i) => Bought(i)',
         \A q \in Requests : q # r /\ op[q] = "adjust" /\ doc[q] \in Counted
                               => stock'[doc[q]] = stock[doc[q]]
  PROVE  RequestsType' /\ (\A q \in Requests : RequestKnows(q)') /\ AdjustsAlone'
  <1>1. \A q \in Requests : /\ op'[q] = IF q = r THEN "idle" ELSE op[q]
                            /\ q # r => /\ doc'[q] = doc[q] /\ seen'[q] = seen[q]
                                        /\ amt'[q] = amt[q]
    BY DEF PInv, RequestsType, Finish, Begin
  <1>2. RequestsType'
    BY DEF PInv, RequestsType, Finish, Begin, Steps, NoView, Status
  <1>3. ASSUME NEW q \in Requests PROVE RequestKnows(q)'
    <2>1. RequestKnows(q)
      BY DEF PInv
    <2>2. CASE q = r
      BY <1>1, <2>2 DEF RequestKnows, AboutPurchase
    <2>3. CASE q # r
      BY <1>1, <2>1, <2>3 DEF RequestKnows
    <2>4. QED
      BY <2>2, <2>3
  <1>4. AdjustsAlone'
    BY <1>1 DEF PInv, AdjustsAlone, AboutPurchase
  <1>5. QED
    BY <1>2, <1>3, <1>4

\* A transaction that rolls back leaves no trace.
LEMMA RolledBack ==
  ASSUME PInv, NEW r \in Requests, Rollback(r)
  PROVE  PInv'
  <1>1. Finish(r) /\ UNCHANGED <<docs, goods, journal>>
    BY DEF Rollback
  <1>2. \A i : Bought(i)' <=> Bought(i)
    BY <1>1 DEF Bought
  <1>3. RequestsType' /\ (\A q \in Requests : RequestKnows(q)') /\ AdjustsAlone'
    BY <1>1, <1>2, RequestEnds DEF goods
  <1>4. QED
    BY <1>1, <1>2, <1>3 DEF docs, goods, PInv, DocumentsType, GoodsType, GoodEntries,
                            Confirmation, GoodsArriveOnce, StockIsSumOfMovements, Bought

\* The item of a purchase that a request commits is not one being adjusted.
LEMMA MovesElsewhere ==
  ASSUME PInv, NEW r \in Requests, op[r] \in AboutPurchase, NEW q \in Requests, q # r,
         op[q] = "adjust", doc[q] \in Counted
  PROVE  doc[q] \in Items /\ doc[q] # ItemOf[doc[r]]
  BY DEF PInv, AdjustsAlone, RequestKnows

LEMMA PurchaseReads ==
  ASSUME PInv, NEW r \in Requests, NEW i \in Purchases, NEW step \in AboutPurchase,
         NEW a \in Int, BeginPurchase(r, step, i, a),
         step = "void" => status[i] \in {"DRAFT"} \cup Released,
         step = "pay" => a \in Amounts /\ status[i] \in {"CONFIRMED", "PARTIALLY_PAID"},
         step # "voidStocked"
  PROVE  PInv'
  <1>1. /\ Begin(r, step, i, View(i), a)
        /\ op[r] = "idle"
        /\ ItemOf[i] \in Counted => ~Adjusts(ItemOf[i])
        /\ UNCHANGED <<docs, goods, journal>>
    BY DEF BeginPurchase
  <1>2. /\ View(i) \in [status : Status, paid : Nat, onHand : Int]
        /\ View(i).status = status[i]
    BY PurchasesAssumption DEF View, PInv, DocumentsType
  <1>3. step \in Steps
    BY DEF AboutPurchase, Steps
  <1>4. status[i] \in Released => Bought(i)
    BY DEF PInv, Confirmation
  <1>5. step \in {"void", "pay"} /\ View(i).status \in Released => Bought(i)
    BY <1>2, <1>4
  <1>6. step = "pay" => Bought(i)
    BY <1>4 DEF Released
  <1>7. \A q \in Requests : q # r /\ op[q] = "adjust" /\ doc[q] \in Counted => ItemOf[i] # doc[q]
    BY <1>1 DEF Adjusts
  <1>8. step # "adjust"
    BY DEF AboutPurchase
  <1> DEFINE view == View(i)
  <1>9. view \in [status : Status, paid : Nat, onHand : Int]
    BY <1>2
  <1>10. step = "void" /\ view.status \in Released => Bought(i)
    BY <1>5
  <1>11. Begin(r, step, i, view, a)
    BY <1>1
  <1> HIDE DEF view
  <1>12. StartsAlone(r, step, i)
    BY <1>7, <1>8 DEF StartsAlone
  <1>13. /\ step = "voidStocked" => Bought(i)
         /\ step = "pay" => a \in Amounts /\ Bought(i)
         /\ step = "adjust" => i \in Items /\ view.onHand = stock[i]
         /\ i \in Purchases \cup Items
    BY <1>6, <1>8
  <1>14. UNCHANGED <<docs, goods, journal>>
    BY <1>1
  <1>15. QED
    BY <1>3, <1>9, <1>10, <1>11, <1>12, <1>13, <1>14, RequestBegins

LEMMA ConfirmKeeps ==
  ASSUME PInv, NEW r \in Requests, ConfirmCommit(r)
  PROVE  PInv'
  <1> USE PurchasesAssumption
  <1>0. PICK i : i = doc[r]
    OBVIOUS
  <1> DEFINE x == ItemOf[i]
             e == Entry("PURCHASE_INVOICE", i, Total[i])
  <1>1. op[r] = "confirm" /\ i \in Purchases /\ x \in Items
    BY <1>0 DEF ConfirmCommit, PInv, RequestKnows, AboutPurchase
  <1>2. CASE ~Confirmable(i)
    BY <1>0, <1>2, RolledBack DEF ConfirmCommit
  <1>3. CASE Confirmable(i)
    <2>1. /\ status' = [status EXCEPT ![i] = "CONFIRMED"]
          /\ stock' = [stock EXCEPT ![x] = @ + Qty[i]]
          /\ moved' = [moved EXCEPT ![x] = @ + Qty[i]]
          /\ arrived' = [arrived EXCEPT ![i] = @ + 1]
          /\ journal' = Post(journal, "PURCHASE_INVOICE", i, Total[i])
          /\ Finish(r)
          /\ UNCHANGED <<paid, payments, adjusts>>
      BY <1>0, <1>3 DEF ConfirmCommit, Move
    <2>2. /\ status[i] = "DRAFT" /\ Total[i] > 0 /\ ~Bought(i) /\ arrived[i] = 0
      BY <1>1, <1>3 DEF Confirmable, Postable, PInv, Confirmation, GoodsArriveOnce, Bought
    <2>3. journal' = journal \cup {e}
      BY <2>1, <2>2, PostIs DEF Bought
    <2>4. e.type = "PURCHASE_INVOICE" /\ e.source = i /\ GoodEntries({e})
      <3>1. Total[i] \in Nat \ {0}
        BY <1>1, <2>2
      <3>2. QED
        BY <3>1, InvoiceEntryIsGood
    <2> HIDE DEF e
    <2>5. Bought(i)' /\ \A j : j # i => (Bought(j)' <=> Bought(j))
      <3>1. Bought(i)'
        BY <2>3, <2>4 DEF Bought, Posted, EntriesOf
      <3>2. ASSUME NEW j, j # i PROVE Bought(j)' <=> Bought(j)
        BY <2>3, <2>4, <3>2, BoughtSame
      <3>3. QED
        BY <3>1, <3>2
    <2>6. GoodEntries(journal)'
      BY <2>3, <2>4 DEF PInv, GoodEntries
    <2>7. RequestsType' /\ (\A q \in Requests : RequestKnows(q)') /\ AdjustsAlone'
      <3>1. ASSUME NEW q \in Requests, q # r, op[q] = "adjust", doc[q] \in Counted
            PROVE  stock'[doc[q]] = stock[doc[q]]
        <4>1. doc[q] \in Items /\ doc[q] # x
          BY <1>0, <1>1, <3>1, MovesElsewhere DEF AboutPurchase
        <4>2. QED
          BY <2>1, <4>1 DEF PInv, GoodsType
      <3>2. \A j : Bought(j) => Bought(j)'
        BY <2>5
      <3>3. QED
        BY <2>1, <3>1, <3>2, RequestEnds
    <2>8. DocumentsType' /\ GoodsType'
      BY <1>1, <2>1, <2>2 DEF PInv, DocumentsType, GoodsType, Status
    <2>9. Confirmation'
      <3>1. /\ status'[i] = "CONFIRMED"
            /\ \A j \in Purchases : j # i => status'[j] = status[j]
        BY <1>1, <2>1 DEF PInv, DocumentsType
      <3>2. QED
        BY <2>2, <2>5, <3>1 DEF PInv, Confirmation, Released
    <2>10. GoodsArriveOnce'
      <3>1. /\ arrived'[i] = 1
            /\ \A j \in Purchases : j # i => arrived'[j] = arrived[j]
        BY <1>1, <2>1, <2>2 DEF PInv, GoodsType
      <3>2. QED
        BY <2>5, <3>1 DEF PInv, GoodsArriveOnce, Bought
    <2>11. StockIsSumOfMovements'
      BY <1>1, <2>1 DEF PInv, GoodsType, StockIsSumOfMovements
    <2>12. QED
      BY <2>6, <2>7, <2>8, <2>9, <2>10, <2>11 DEF PInv
  <1>4. QED
    BY <1>2, <1>3

LEMMA VoidDraftKeeps ==
  ASSUME PInv, NEW r \in Requests, VoidDraft(r)
  PROVE  PInv'
  <1> DEFINE i == doc[r]
  <1>1. /\ i \in Purchases /\ status' = [status EXCEPT ![i] = "VOID"] /\ Finish(r)
        /\ UNCHANGED <<paid, payments, goods, journal>>
    BY DEF VoidDraft, PInv, RequestKnows, AboutPurchase
  <1>2. \A j : Bought(j)' <=> Bought(j)
    BY <1>1 DEF Bought
  <1>3. RequestsType' /\ (\A q \in Requests : RequestKnows(q)') /\ AdjustsAlone'
    BY <1>1, <1>2, RequestEnds DEF goods
  <1>4. DocumentsType' /\ GoodsType' /\ GoodEntries(journal)'
    BY <1>1 DEF goods, PInv, DocumentsType, GoodsType, GoodEntries, Status
  <1>5. Confirmation'
    BY <1>1, <1>2 DEF PInv, DocumentsType, Confirmation, Released
  <1>6. GoodsArriveOnce' /\ StockIsSumOfMovements'
    BY <1>1, <1>2 DEF goods, PInv, GoodsArriveOnce, StockIsSumOfMovements, Bought
  <1>7. QED
    BY <1>3, <1>4, <1>5, <1>6 DEF PInv

\* What voidPurchase posts.
LEMMA VoidPosts ==
  ASSUME NEW j, NEW i, GoodEntries(j), Total[i] \in Nat \ {0},
         \A p \in payments : p.amount \in Nat \ {0}
  PROVE  LET k == ReversePayments(Post(j, "PURCHASE_VOID", i, Total[i]), i)
         IN  /\ j \subseteq k /\ GoodEntries(k)
             /\ \A e \in k \ j : e.type # "PURCHASE_INVOICE"
  <1> DEFINE v == Post(j, "PURCHASE_VOID", i, Total[i])
             k == ReversePayments(v, i)
  <1>1. /\ j \subseteq v
        /\ \A e \in v : e \in j \/ e = Entry("PURCHASE_VOID", i, Total[i])
    BY PostIs
  <1> HIDE DEF v
  <1>2. /\ v \subseteq k
        /\ \A e \in k : \/ e \in v
                        \/ \E p \in PaymentsOf(i) :
                             e = Entry("PURCHASE_PAYMENT_REVERSAL", p.id, p.amount)
    BY PostIs DEF ReversePayments
  <1> HIDE DEF k
  <1>3. ASSUME NEW e \in k, e \notin j
        PROVE  e.type # "PURCHASE_INVOICE" /\ GoodEntries({e})
    <2>1. CASE e = Entry("PURCHASE_VOID", i, Total[i])
      BY <2>1, EntryIsGood, SourceTypes
    <2>2. CASE \E p \in PaymentsOf(i) :
                 e = Entry("PURCHASE_PAYMENT_REVERSAL", p.id, p.amount)
      BY <2>2, EntryIsGood, SourceTypes DEF PaymentsOf
    <2>3. QED
      BY <1>1, <1>2, <1>3, <2>1, <2>2
  <1>4. j \subseteq k /\ GoodEntries(k) /\ \A e \in k \ j : e.type # "PURCHASE_INVOICE"
    BY <1>1, <1>2, <1>3 DEF GoodEntries
  <1>5. QED
    BY <1>4 DEF k, v

LEMMA VoidKeeps ==
  ASSUME PInv, NEW r \in Requests, VoidCommit(r)
  PROVE  PInv'
  <1> USE PurchasesAssumption
  <1> DEFINE i == doc[r]
             x == ItemOf[i]
             n == Smaller(Qty[i], seen[r].onHand)
  <1>1. op[r] = "voidStocked" /\ i \in Purchases /\ x \in Items /\ Bought(i)
    BY DEF VoidCommit, PInv, RequestKnows, AboutPurchase
  <1>2. /\ status' = [status EXCEPT ![i] = "VOID"]
        /\ stock' = [stock EXCEPT ![x] = @ + (-n)]
        /\ moved' = [moved EXCEPT ![x] = @ + (-n)]
        /\ journal' = ReversePayments(Post(journal, "PURCHASE_VOID", i, Total[i]), i)
        /\ Finish(r)
        /\ UNCHANGED <<paid, payments, arrived, adjusts>>
    BY DEF VoidCommit, Move, Returned, Recorded
  <1>3. -n \in Int
    BY <1>1 DEF PInv, RequestsType, Smaller
  <1> HIDE DEF n
  <1>4. /\ journal \subseteq journal' /\ GoodEntries(journal)'
        /\ \A e \in journal' \ journal : e.type # "PURCHASE_INVOICE"
    <2>1. Total[i] \in Nat \ {0}
      BY <1>1 DEF PInv, Confirmation
    <2>2. \A p \in payments : p.amount \in Nat \ {0}
      BY DEF PInv, DocumentsType
    <2>3. GoodEntries(journal)
      BY DEF PInv
    <2>4. GoodEntries(journal')
      BY <1>2, <2>1, <2>2, <2>3, VoidPosts
    <2>5. QED
      BY <1>2, <2>1, <2>2, <2>3, <2>4, VoidPosts DEF GoodEntries
  <1>5. \A j : Bought(j)' <=> Bought(j)
    BY <1>4, BoughtSame
  <1>6. RequestsType' /\ (\A q \in Requests : RequestKnows(q)') /\ AdjustsAlone'
    <2>1. ASSUME NEW q \in Requests, q # r, op[q] = "adjust", doc[q] \in Counted
          PROVE  stock'[doc[q]] = stock[doc[q]]
      <3>1. doc[q] \in Items /\ doc[q] # x
        BY <1>1, <2>1, MovesElsewhere DEF AboutPurchase
      <3>2. QED
        BY <1>2, <3>1 DEF PInv, GoodsType
    <2>2. QED
      BY <1>2, <1>5, <2>1, RequestEnds
  <1>7. DocumentsType' /\ GoodsType'
    BY <1>1, <1>2, <1>3 DEF PInv, DocumentsType, GoodsType, Status
  <1>8. Confirmation'
    BY <1>1, <1>2, <1>5 DEF PInv, DocumentsType, Confirmation, Released
  <1>9. GoodsArriveOnce'
    BY <1>2, <1>5 DEF PInv, GoodsArriveOnce, Bought
  <1>10. StockIsSumOfMovements'
    BY <1>1, <1>2, <1>3 DEF PInv, GoodsType, StockIsSumOfMovements
  <1>11. QED
    BY <1>4, <1>6, <1>7, <1>8, <1>9, <1>10 DEF PInv

LEMMA PayKeeps ==
  ASSUME PInv, NEW r \in Requests, PayCommit(r)
  PROVE  PInv'
  <1> USE PurchasesAssumption
  <1> DEFINE i == doc[r]
             newPaid == seen[r].paid + amt[r]
             id == Cardinality(payments) + 1
             payment == [id |-> id, invoice |-> i, amount |-> amt[r]]
             e == Entry("PURCHASE_PAYMENT", id, amt[r])
  <1>1. op[r] = "pay" /\ i \in Purchases /\ Bought(i) /\ amt[r] \in Nat \ {0}
    BY DEF PayCommit, PInv, RequestKnows, AboutPurchase
  <1>2. CASE ~SamePaid(r)
    BY <1>2, RolledBack DEF PayCommit
  <1>3. CASE SamePaid(r)
    <2>1. /\ payments' = payments \cup {payment}
          /\ paid' = [paid EXCEPT ![i] = newPaid]
          /\ status' = [status EXCEPT ![i] =
                          IF newPaid >= Total[i] THEN "PAID" ELSE "PARTIALLY_PAID"]
          /\ journal' = Post(journal, "PURCHASE_PAYMENT", id, amt[r])
          /\ Finish(r)
          /\ UNCHANGED goods
      BY <1>3 DEF PayCommit
    <2>2. id \in Nat /\ newPaid \in Nat
      BY <1>1, FS_CardinalityType DEF PInv, DocumentsType, RequestsType
    <2> HIDE DEF id, newPaid
    <2>3. e.type = "PURCHASE_PAYMENT" /\ GoodEntries({e})
      BY <1>1, EntryIsGood, SourceTypes
    <2>4. journal \subseteq journal' /\ \A f \in journal' : f \in journal \/ f = e
      BY <2>1, PostIs
    <2> HIDE DEF e
    <2>5. GoodEntries(journal)'
      BY <2>3, <2>4 DEF PInv, GoodEntries
    <2>6. \A j : Bought(j)' <=> Bought(j)
      BY <2>3, <2>4, BoughtSame
    <2>7. RequestsType' /\ (\A q \in Requests : RequestKnows(q)') /\ AdjustsAlone'
      BY <2>1, <2>6, RequestEnds DEF goods
    <2>8. DocumentsType'
      <3>1. IsFiniteSet(payments')
        BY <2>1, FS_AddElement DEF PInv, DocumentsType
      <3>2. \A p \in payments' : p.id \in Nat /\ p.invoice \in Purchases /\ p.amount \in Nat \ {0}
        BY <1>1, <2>1, <2>2 DEF PInv, DocumentsType
      <3>3. QED
        BY <1>1, <2>1, <2>2, <3>1, <3>2 DEF PInv, DocumentsType, Status
    <2>9. Confirmation'
      BY <1>1, <2>1, <2>6 DEF PInv, DocumentsType, Confirmation, Released
    <2>10. GoodsType' /\ GoodsArriveOnce' /\ StockIsSumOfMovements'
      BY <2>1, <2>6 DEF goods, PInv, GoodsType, GoodsArriveOnce, StockIsSumOfMovements, Bought
    <2>11. QED
      BY <2>5, <2>7, <2>8, <2>9, <2>10 DEF PInv
  <1>4. QED
    BY <1>2, <1>3

LEMMA AdjustKeeps ==
  ASSUME PInv, NEW r \in Requests, AdjustCommit(r)
  PROVE  PInv'
  <1> USE PurchasesAssumption
  <1> DEFINE x == doc[r]
             n == seen[r].onHand + amt[r]
  <1>1. /\ op[r] = "adjust" /\ x \in Items
        /\ x \in Counted => seen[r].onHand = stock[x]
    BY DEF AdjustCommit, PInv, RequestKnows
  <1>2. /\ adjusts < MaxAdjusts /\ adjusts' = adjusts + 1
        /\ stock' = [stock EXCEPT ![x] = n]
        /\ moved' = [moved EXCEPT ![x] = @ + amt[r]]
        /\ Finish(r)
        /\ UNCHANGED <<docs, arrived, journal>>
    BY DEF AdjustCommit
  <1>3. n \in Int /\ amt[r] \in Int
    BY DEF PInv, RequestsType
  <1>4. x \in Counted => n = moved[x] + amt[r]
    BY <1>1 DEF PInv, StockIsSumOfMovements
  <1> HIDE DEF n
  <1>5. \A j : Bought(j)' <=> Bought(j)
    BY <1>2 DEF Bought
  <1>6. RequestsType' /\ (\A q \in Requests : RequestKnows(q)') /\ AdjustsAlone'
    <2>1. ASSUME NEW q \in Requests, q # r, op[q] = "adjust", doc[q] \in Counted
          PROVE  stock'[doc[q]] = stock[doc[q]]
      <3>1. doc[q] \in Items /\ doc[q] # x
        BY <1>1, <2>1 DEF PInv, AdjustsAlone, RequestKnows
      <3>2. QED
        BY <1>2, <3>1 DEF PInv, GoodsType
    <2>2. QED
      BY <1>2, <1>5, <2>1, RequestEnds
  <1>7. DocumentsType' /\ GoodsType' /\ GoodEntries(journal)'
    BY <1>1, <1>2, <1>3 DEF docs, PInv, DocumentsType, GoodsType, GoodEntries
  <1>8. Confirmation' /\ GoodsArriveOnce'
    BY <1>2, <1>5 DEF docs, PInv, Confirmation, GoodsArriveOnce, Bought
  <1>9. StockIsSumOfMovements'
    BY <1>1, <1>2, <1>4 DEF PInv, GoodsType, StockIsSumOfMovements
  <1>10. QED
    BY <1>6, <1>7, <1>8, <1>9 DEF PInv

LEMMA PStepInv == PInv /\ [PurchasesNext]_purchaseVars => PInv'
  <1> SUFFICES ASSUME PInv, [PurchasesNext]_purchaseVars PROVE PInv'
    OBVIOUS
  <1> USE PurchasesAssumption
  <1>1. ASSUME NEW i \in Purchases, CreateDraft(i) PROVE PInv'
    <2>1. /\ status[i] = "NONE" /\ status' = [status EXCEPT ![i] = "DRAFT"]
          /\ UNCHANGED <<paid, payments, goods, journal, requests>>
      BY <1>1 DEF CreateDraft
    <2>2. \A j : Bought(j)' <=> Bought(j)
      BY <2>1 DEF Bought
    <2>3. ~Bought(i)
      BY <2>1 DEF PInv, Confirmation
    <2>4. DocumentsType' /\ GoodsType' /\ GoodEntries(journal)' /\ RequestsType'
      BY <2>1 DEF goods, requests, PInv, DocumentsType, GoodsType, GoodEntries, RequestsType, Status
    <2>5. Confirmation'
      BY <2>1, <2>2, <2>3 DEF PInv, DocumentsType, Confirmation, Released
    <2>6. (\A r \in Requests : RequestKnows(r)') /\ AdjustsAlone'
      BY <2>1, <2>2 DEF goods, requests, PInv, RequestKnows, AdjustsAlone
    <2>7. GoodsArriveOnce' /\ StockIsSumOfMovements'
      BY <2>1, <2>2 DEF goods, PInv, GoodsArriveOnce, StockIsSumOfMovements, Bought
    <2>8. QED
      BY <2>4, <2>5, <2>6, <2>7 DEF PInv
  <1>2. ASSUME NEW r \in Requests, NEW i \in Purchases, ConfirmRead(r, i) \/ VoidRead(r, i)
        PROVE  PInv'
    BY <1>2, PurchaseReads DEF ConfirmRead, VoidRead, AboutPurchase
  <1>3. ASSUME NEW r \in Requests, NEW i \in Purchases, NEW a \in Amounts, PayRead(r, i, a)
        PROVE  PInv'
    BY <1>3, PurchaseReads DEF PayRead, AboutPurchase
  <1>4. ASSUME NEW r \in Requests, VoidReadItem(r) PROVE PInv'
    <2> DEFINE view == [seen[r] EXCEPT !.onHand = stock[ItemOf[doc[r]]]]
    <2>1. /\ op[r] = "void" /\ doc[r] \in Purchases /\ Bought(doc[r])
          /\ Begin(r, "voidStocked", doc[r], view, 0)
          /\ UNCHANGED <<docs, goods, journal>>
      BY <1>4 DEF VoidReadItem, WasReleased, PInv, RequestKnows, AboutPurchase
    <2>2. view \in [status : Status, paid : Nat, onHand : Int]
      BY <2>1 DEF PInv, RequestsType, GoodsType
    <2> HIDE DEF view
    <2>3. StartsAlone(r, "voidStocked", doc[r])
      BY <2>1, MovesElsewhere DEF AboutPurchase, StartsAlone
    <2>4. "voidStocked" \in Steps
      BY DEF Steps
    <2>5. QED
      BY <2>1, <2>2, <2>3, <2>4, RequestBegins
  <1>5. ASSUME NEW r \in Requests, NEW x \in Items, NEW d \in Deltas, AdjustRead(r, x, d)
        PROVE  PInv'
    <2> DEFINE view == [NoView EXCEPT !.onHand = stock[x]]
    <2>1. /\ x \in Counted => \A q \in Requests : ~Moves(q, x)
          /\ Begin(r, "adjust", x, view, d)
          /\ op[r] = "idle"
          /\ UNCHANGED <<docs, goods, journal>>
      BY <1>5 DEF AdjustRead
    <2>2. view \in [status : Status, paid : Nat, onHand : Int] /\ view.onHand = stock[x]
      BY DEF PInv, GoodsType, NoView, Status
    <2> HIDE DEF view
    <2>3. "adjust" \in Steps /\ "adjust" \notin AboutPurchase /\ d \in Int
      BY DEF Steps, AboutPurchase
    <2>4. StartsAlone(r, "adjust", x)
      BY <2>1, <2>3 DEF StartsAlone, Moves, PInv, RequestKnows
    <2>5. /\ "adjust" \notin {"void", "voidStocked", "pay"}
          /\ x \in Purchases \cup Items
      OBVIOUS
    <2>6. QED
      BY <2>1, <2>2, <2>3, <2>4, <2>5, RequestBegins
  <1>6. CASE UNCHANGED purchaseVars
    BY <1>6 DEF purchaseVars, docs, goods, requests, PInv, DocumentsType, GoodsType, GoodEntries,
                RequestsType, Confirmation, RequestKnows, AdjustsAlone, GoodsArriveOnce,
                StockIsSumOfMovements, Bought
  <1>7. QED
    BY <1>1, <1>2, <1>3, <1>4, <1>5, <1>6, ConfirmKeeps, VoidDraftKeeps, VoidKeeps, PayKeeps,
       AdjustKeeps
    DEF PurchasesNext, Purchasing

\* Every variable of the purchases keeps its type.
THEOREM PurchasesTypes == PurchasesSpec => []PurchasesTypeOK
  <1>1. PInv => PurchasesTypeOK
    BY DEF PInv, DocumentsType, GoodsType, RequestsType, GoodEntries, PurchasesTypeOK
  <1>2. QED
    BY <1>1, PInitInv, PStepInv, PTL DEF PurchasesSpec

\* However confirms, voids and payments race (confirmPurchase), the goods of a
\* purchase arrive at most once, exactly when it is in the ledger.
THEOREM PurchasesArriveOnce == PurchasesSpec => []GoodsArriveOnce
  <1>1. PInv => GoodsArriveOnce
    BY DEF PInv
  <1>2. QED
    BY <1>1, PInitInv, PStepInv, PTL DEF PurchasesSpec

\* The stock of an item that is not adjusted while its purchases are confirmed
\* or voided (adjustStock) is the sum of its movements.
THEOREM PurchasesStockIsSum == PurchasesSpec => []StockIsSumOfMovements
  <1>1. PInv => StockIsSumOfMovements
    BY DEF PInv
  <1>2. QED
    BY <1>1, PInitInv, PStepInv, PTL DEF PurchasesSpec

-----------------------------------------------------------------------------
(* The books of the purchases                                              *)

\* A request about a serialized purchase is alone with it, and finds it as
\* it read it.
Apart(r) ==
    op[r] \in AboutPurchase =>
      /\ op[r] = "void" => seen[r].status \in {"DRAFT"} \cup Released
      /\ doc[r] \in Serialized =>
           /\ \A q \in Requests : op[q] \in AboutPurchase /\ doc[q] = doc[r] => q = r
           /\ op[r] = "void" => status[doc[r]] = seen[r].status
           /\ op[r] = "voidStocked" => status[doc[r]] \in Released
           /\ op[r] = "pay" => status[doc[r]] \in {"CONFIRMED", "PARTIALLY_PAID"}

PurchaseTypes == {"PURCHASE_INVOICE", "PURCHASE_VOID"}
PaymentTypes  == {"PURCHASE_PAYMENT", "PURCHASE_PAYMENT_REVERSAL"}

\* What an entry is about, and what it amounts to.
WellFounded(e) ==
    \/ e.type \in PurchaseTypes /\ e.source \in Purchases /\ e.amount = Total[e.source]
    \/ e.type \in PaymentTypes /\ \E p \in payments : e.source = p.id /\ e.amount = p.amount

EntriesWellFounded == OnePerSource(journal) /\ \A e \in journal : WellFounded(e)

\* Payments are numbered from 1, and amountPaid is what they add up to.
PaymentsNumbered ==
    /\ \A p \in payments : p.id \in 1..Cardinality(payments)
    /\ \A p, q \in payments : p.id = q.id => p = q

PaidIsSpent == \A i \in Purchases : paid[i] = AmountOf(PaymentsOf(i))

\* A payment is in the ledger, after the purchase; its reversal comes with the void.
PaymentsFounded ==
    \A p \in payments :
      /\ Posted(journal, "PURCHASE_PAYMENT", p.id) /\ Bought(p.invoice)
      /\ Posted(journal, "PURCHASE_PAYMENT_REVERSAL", p.id) =>
           Posted(journal, "PURCHASE_VOID", p.invoice)

\* The void of a serialized purchase reverses it and every payment of it.
VoidUnwinds ==
    /\ \A i \in Purchases : Posted(journal, "PURCHASE_VOID", i) => Bought(i)
    /\ \A i \in Serialized :
         /\ status[i] # "VOID" => ~Posted(journal, "PURCHASE_VOID", i)
         /\ status[i] = "VOID" /\ Bought(i) =>
              /\ Posted(journal, "PURCHASE_VOID", i)
              /\ \A p \in PaymentsOf(i) : Posted(journal, "PURCHASE_PAYMENT_REVERSAL", p.id)

Books == EntriesWellFounded /\ PaymentsNumbered /\ PaidIsSpent /\ PaymentsFounded /\ VoidUnwinds

BInv == Books /\ \A r \in Requests : Apart(r)

LEMMA BInvInit == PurchasesInit => BInv
  <1> SUFFICES ASSUME PurchasesInit PROVE BInv
    OBVIOUS
  <1> USE PurchasesAssumption
  <1>1. EntriesWellFounded /\ PaymentsNumbered /\ PaymentsFounded
    BY DEF PurchasesInit, EntriesWellFounded, OnePerSource, HasAmounts, PaymentsNumbered,
           PaymentsFounded
  <1>2. PaidIsSpent
    <2>1. \A i : PaymentsOf(i) = {}
      BY DEF PurchasesInit, PaymentsOf
    <2> QED
      BY <2>1, AmountOfNone DEF PurchasesInit, PaidIsSpent
  <1>3. VoidUnwinds
    BY DEF PurchasesInit, VoidUnwinds, Posted, EntriesOf
  <1>4. \A r \in Requests : Apart(r)
    BY DEF PurchasesInit, Apart, AboutPurchase
  <1> QED
    BY <1>1, <1>2, <1>3, <1>4 DEF BInv, Books

\* A step that changes neither ledger nor payments leaves no purchase void
\* that was bought, and none that was voided anything else.
LEMMA BooksSame ==
  ASSUME Books, UNCHANGED <<paid, payments, journal>>,
         \A i \in Serialized : /\ status'[i] = "VOID" /\ status[i] # "VOID" => ~Bought(i)
                               /\ status[i] = "VOID" => status'[i] = "VOID"
  PROVE  Books'
  <1>1. EntriesWellFounded' /\ PaymentsNumbered'
    BY DEF Books, EntriesWellFounded, WellFounded, PaymentsNumbered
  <1>2. PaidIsSpent' /\ PaymentsFounded'
    BY DEF Books, PaidIsSpent, PaymentsOf, PaymentsFounded, Bought
  <1>3. VoidUnwinds'
    BY DEF Books, VoidUnwinds, PaymentsOf, Bought
  <1> QED
    BY <1>1, <1>2, <1>3 DEF Books

\* A request that ends leaves the others with purchases of their own.
LEMMA OthersAlone ==
  ASSUME PInv, \A r \in Requests : Apart(r), NEW r \in Requests, Finish(r),
         \A i \in Serialized : status'[i] # status[i] => op[r] \in AboutPurchase /\ i = doc[r]
  PROVE  \A q \in Requests : Apart(q)'
  <1>1. \A q \in Requests : /\ op'[q] = IF q = r THEN "idle" ELSE op[q]
                            /\ q # r => doc'[q] = doc[q] /\ seen'[q] = seen[q]
    BY DEF PInv, RequestsType, Finish, Begin
  <1>2. ASSUME NEW q \in Requests PROVE Apart(q)'
    <2>1. CASE q = r
      BY <1>1, <2>1 DEF Apart, AboutPurchase
    <2>2. CASE q # r
      <3>1. op[q] \in AboutPurchase /\ doc[q] \in Serialized => status'[doc[q]] = status[doc[q]]
        BY <2>2 DEF Apart
      <3>2. Apart(q)
        OBVIOUS
      <3>3. "idle" \notin AboutPurchase
        BY DEF AboutPurchase
      <3> QED
        BY <1>1, <2>2, <3>1, <3>2, <3>3 DEF Apart
    <2> QED
      BY <2>1, <2>2
  <1> QED
    BY <1>2

LEMMA BooksRolledBack ==
  ASSUME PInv, BInv, NEW r \in Requests, Rollback(r)
  PROVE  BInv'
  <1>1. Finish(r) /\ UNCHANGED <<status, paid, payments, journal>>
    BY DEF Rollback, docs
  <1>2. \A q \in Requests : Apart(q)'
    BY <1>1, OthersAlone DEF BInv
  <1>3. Books'
    BY <1>1, BooksSame DEF BInv
  <1> QED
    BY <1>2, <1>3 DEF BInv

\* A request that begins, or reads on, about a purchase.
LEMMA BooksRead ==
  ASSUME PInv, BInv, NEW r \in Requests, NEW step, NEW d, NEW view, NEW a,
         UNCHANGED <<docs, goods, journal>>,
         Begin(r, step, d, view, a),
         step = "void" => view.status \in {"DRAFT"} \cup Released,
         step \in AboutPurchase /\ d \in Serialized =>
           /\ \A q \in Requests : op[q] \in AboutPurchase /\ doc[q] = d => q = r
           /\ step = "void" => status[d] = view.status
           /\ step = "voidStocked" => status[d] \in Released
           /\ step = "pay" => status[d] \in {"CONFIRMED", "PARTIALLY_PAID"}
  PROVE  BInv'
  <1>1. \A q \in Requests : /\ op'[q] = IF q = r THEN step ELSE op[q]
                            /\ doc'[q] = IF q = r THEN d ELSE doc[q]
                            /\ seen'[q] = IF q = r THEN view ELSE seen[q]
    BY DEF PInv, RequestsType, Begin
  <1>2. UNCHANGED <<status, paid, payments, journal>>
    BY DEF docs
  <1>3. ASSUME NEW q \in Requests PROVE Apart(q)'
    <2>1. Apart(q) /\ Apart(r)
      BY DEF BInv
    <2>2. CASE q = r
      BY <1>1, <1>2, <2>2 DEF Apart
    <2>3. CASE q # r
      BY <1>1, <1>2, <2>1, <2>3 DEF Apart
    <2> QED
      BY <2>2, <2>3
  <1>4. Books'
    BY <1>2, BooksSame DEF BInv
  <1> QED
    BY <1>3, <1>4 DEF BInv

LEMMA BooksPurchaseRead ==
  ASSUME PInv, BInv, NEW r \in Requests, NEW i \in Purchases, NEW step \in AboutPurchase,
         NEW a, BeginPurchase(r, step, i, a),
         step = "void" => status[i] \in {"DRAFT"} \cup Released,
         step = "pay" => status[i] \in {"CONFIRMED", "PARTIALLY_PAID"},
         step # "voidStocked"
  PROVE  BInv'
  <1> DEFINE view == View(i)
  <1>1. /\ Begin(r, step, i, view, a) /\ UNCHANGED <<docs, goods, journal>>
        /\ i \in Serialized => \A q \in Requests : doc[q] # i
    BY DEF BeginPurchase
  <1>2. view.status = status[i]
    BY DEF View
  <1> HIDE DEF view
  <1> QED
    BY <1>1, <1>2, BooksRead

LEMMA BooksConfirm ==
  ASSUME PInv, BInv, NEW r \in Requests, ConfirmCommit(r)
  PROVE  BInv'
  <1> USE PurchasesAssumption
  <1>0. op[r] = "confirm" /\ doc[r] \in Purchases
    BY DEF ConfirmCommit, PInv, RequestKnows, AboutPurchase
  <1> PICK i \in Purchases : i = doc[r]
    BY <1>0
  <1>1. CASE ~Confirmable(i)
    BY <1>1, BooksRolledBack DEF ConfirmCommit
  <1>2. CASE Confirmable(i)
    <2>1. /\ status' = [status EXCEPT ![i] = "CONFIRMED"] /\ status[i] = "DRAFT"
          /\ journal' = Post(journal, "PURCHASE_INVOICE", i, Total[i])
          /\ Finish(r)
          /\ UNCHANGED <<paid, payments>>
      BY <1>2 DEF ConfirmCommit, Confirmable
    <2>2. /\ journal \subseteq journal' /\ OnePerSource(journal')
          /\ \A e \in journal' : e \in journal \/ e = Entry("PURCHASE_INVOICE", i, Total[i])
      BY <2>1, PostIs, PostOnePerSource DEF BInv, Books, EntriesWellFounded
    <2>3. \A j \in Purchases : status'[j] = IF j = i THEN "CONFIRMED" ELSE status[j]
      BY <2>1 DEF PInv, DocumentsType
    <2>4. \A q \in Requests : Apart(q)'
      <3>1. \A j \in Serialized : status'[j] # status[j] => op[r] \in AboutPurchase /\ j = doc[r]
        BY <1>0, <2>3 DEF AboutPurchase
      <3> QED
        BY <2>1, <3>1, OthersAlone DEF BInv
    <2>5. \A t, s : Posted(journal, t, s) => Posted(journal', t, s)
      BY <2>2, PostedGrows
    <2>6. \A t, s : t # "PURCHASE_INVOICE" \/ s # i =>
                      (Posted(journal', t, s) <=> Posted(journal, t, s))
      BY <2>2, <2>5, PostedIsOldOrNew DEF Entry
    <2>7. EntriesWellFounded' /\ PaymentsNumbered'
      <3>1. \A e \in journal' : WellFounded(e)'
        BY <2>1, <2>2 DEF BInv, Books, EntriesWellFounded, WellFounded, PurchaseTypes, Entry
      <3> QED
        BY <2>1, <2>2, <3>1
        DEF BInv, Books, EntriesWellFounded, OnePerSource, HasAmounts, PaymentsNumbered
    <2>8. PaidIsSpent' /\ PaymentsFounded'
      BY <2>1, <2>5, <2>6 DEF BInv, Books, PaidIsSpent, PaymentsOf, PaymentsFounded, Bought
    <2>9. VoidUnwinds'
      <3>1. \A j : Posted(journal', "PURCHASE_VOID", j) <=> Posted(journal, "PURCHASE_VOID", j)
        BY <2>6
      <3>2. \A j : /\ Bought(j) => Bought(j)'
                   /\ j # i => (Bought(j)' <=> Bought(j))
        BY <2>5, <2>6 DEF Bought
      <3>3. \A j : PaymentsOf(j)' = PaymentsOf(j)
        BY <2>1 DEF PaymentsOf
      <3>4. \A j \in Serialized : j \in Purchases
        OBVIOUS
      <3> QED
        BY <2>1, <2>3, <2>5, <3>1, <3>2, <3>3, <3>4 DEF BInv, Books, VoidUnwinds
    <2> QED
      BY <2>4, <2>7, <2>8, <2>9 DEF BInv, Books
  <1> QED
    BY <1>1, <1>2

LEMMA BooksVoid ==
  ASSUME PInv, BInv, NEW r \in Requests, VoidCommit(r)
  PROVE  BInv'
  <1> USE PurchasesAssumption
  <1>0. op[r] = "voidStocked" /\ doc[r] \in Purchases /\ Bought(doc[r])
    BY DEF VoidCommit, PInv, RequestKnows, AboutPurchase
  <1> PICK i \in Purchases : i = doc[r]
    BY <1>0
  <1> DEFINE void == Post(journal, "PURCHASE_VOID", i, Total[i])
             P    == PaymentsOf(i)
  <1>1. /\ status' = [status EXCEPT ![i] = "VOID"]
        /\ journal' = PostAll(void, "PURCHASE_PAYMENT_REVERSAL", P)
        /\ Finish(r)
        /\ UNCHANGED <<paid, payments>>
    BY DEF VoidCommit, ReversePayments, PostAll
  <1>2. /\ journal \subseteq void /\ OnePerSource(void) /\ Posted(void, "PURCHASE_VOID", i)
        /\ \A e \in void : e \in journal \/ e = Entry("PURCHASE_VOID", i, Total[i])
    BY PostIs, PostOnePerSource, PostedAfter DEF BInv, Books, EntriesWellFounded
  <1> HIDE DEF void
  <1>3. HasAmounts(P) /\ (\A p, q \in P : p.id = q.id => p = q) /\ P \subseteq payments
        /\ \A p \in payments : p \in P <=> p.invoice = i
    BY DEF PInv, DocumentsType, BInv, Books, PaymentsNumbered, PaymentsOf, HasAmounts
  <1> HIDE DEF P
  <1>4. /\ journal \subseteq journal' /\ OnePerSource(journal') /\ Posted(journal', "PURCHASE_VOID", i)
        /\ \A e \in journal' : \/ e \in journal
                               \/ e = Entry("PURCHASE_VOID", i, Total[i])
                               \/ \E p \in P : e = Entry("PURCHASE_PAYMENT_REVERSAL", p.id, p.amount)
        /\ \A p \in P : Posted(journal', "PURCHASE_PAYMENT_REVERSAL", p.id)
    BY <1>1, <1>2, <1>3, PostAllIs, PostAllOnePerSource, PostedGrows
  <1>5. \A j \in Purchases : status'[j] = IF j = i THEN "VOID" ELSE status[j]
    BY <1>1 DEF PInv, DocumentsType
  <1>6. \A q \in Requests : Apart(q)'
    <2>1. \A j \in Serialized : status'[j] # status[j] => op[r] \in AboutPurchase /\ j = doc[r]
      BY <1>0, <1>5 DEF AboutPurchase
    <2> QED
      BY <1>1, <2>1, OthersAlone DEF BInv
  <1>7. \A t, s : Posted(journal, t, s) => Posted(journal', t, s)
    BY <1>4, PostedGrows
  <1>8. /\ \A s : Posted(journal', "PURCHASE_INVOICE", s) <=> Posted(journal, "PURCHASE_INVOICE", s)
        /\ \A s : Posted(journal', "PURCHASE_PAYMENT", s) <=> Posted(journal, "PURCHASE_PAYMENT", s)
        /\ \A s : s # i => (Posted(journal', "PURCHASE_VOID", s) <=> Posted(journal, "PURCHASE_VOID", s))
        /\ \A p \in payments : p.invoice # i =>
             (Posted(journal', "PURCHASE_PAYMENT_REVERSAL", p.id)
                => Posted(journal, "PURCHASE_PAYMENT_REVERSAL", p.id))
    <2>1. \A p \in payments : p.invoice # i => \A q \in P : q.id # p.id
      BY <1>3 DEF BInv, Books, PaymentsNumbered
    <2>2. \A t, s : Posted(journal', t, s) /\ ~Posted(journal, t, s) =>
            \/ t = "PURCHASE_VOID" /\ s = i
            \/ t = "PURCHASE_PAYMENT_REVERSAL" /\ \E p \in P : s = p.id
      BY <1>4, PostedIsOldOrNew DEF Entry
    <2> QED
      BY <1>7, <2>1, <2>2
  <1>9. EntriesWellFounded' /\ PaymentsNumbered'
    <2>1. \A e \in journal' : WellFounded(e)'
      BY <1>1, <1>3, <1>4
      DEF BInv, Books, EntriesWellFounded, WellFounded, PurchaseTypes, PaymentTypes, Entry
    <2> QED
      BY <1>1, <1>4, <2>1
      DEF BInv, Books, EntriesWellFounded, OnePerSource, HasAmounts, PaymentsNumbered
  <1>10. PaidIsSpent'
    BY <1>1 DEF BInv, Books, PaidIsSpent, PaymentsOf
  <1>11. PaymentsFounded'
    BY <1>1, <1>4, <1>7, <1>8 DEF BInv, Books, PaymentsFounded, Bought
  <1>12. VoidUnwinds'
    <2>1. \A j : Bought(j)' <=> Bought(j)
      BY <1>8 DEF Bought
    <2>2. \A j : PaymentsOf(j)' = PaymentsOf(j)
      BY <1>1 DEF PaymentsOf
    <2>3. \A j \in Serialized : j \in Purchases
      OBVIOUS
    <2> QED
      BY <1>0, <1>1, <1>4, <1>5, <1>7, <1>8, <2>1, <2>2, <2>3 DEF BInv, Books, VoidUnwinds, P
  <1> QED
    BY <1>6, <1>9, <1>10, <1>11, <1>12 DEF BInv, Books

\* A payment row is new, and adds its amount to what was paid of its purchase.
LEMMA SpentAfter ==
  ASSUME IsFiniteSet(payments), HasAmounts(payments), NEW i \in Purchases,
         NEW p, p \notin payments, p.invoice = i, p.amount \in Nat,
         payments' = payments \cup {p}
  PROVE  /\ AmountOf(PaymentsOf(i)') = AmountOf(PaymentsOf(i)) + p.amount
         /\ \A j \in Purchases \ {i} : PaymentsOf(j)' = PaymentsOf(j)
         /\ PaymentsOf(i)' = PaymentsOf(i) \cup {p}
  <1>1. PaymentsOf(i)' = PaymentsOf(i) \cup {p} /\ p \notin PaymentsOf(i)
    BY DEF PaymentsOf
  <1>2. IsFiniteSet(PaymentsOf(i))
    <2>1. PaymentsOf(i) \subseteq payments /\ IsFiniteSet(payments)
      BY DEF PaymentsOf
    <2> QED
      BY <2>1, FS_Subset
  <1>3. HasAmounts(PaymentsOf(i))
    BY DEF PaymentsOf, HasAmounts
  <1>4. \A j \in Purchases \ {i} : PaymentsOf(j)' = PaymentsOf(j)
    BY DEF PaymentsOf
  <1> QED
    BY <1>1, <1>2, <1>3, <1>4, AmountWith

LEMMA BooksPay ==
  ASSUME PInv, BInv, NEW r \in Requests, PayCommit(r)
  PROVE  BInv'
  <1> USE PurchasesAssumption
  <1>0. /\ op[r] = "pay" /\ doc[r] \in Purchases /\ Bought(doc[r]) /\ amt[r] \in Nat \ {0}
        /\ doc[r] \in Serialized => status[doc[r]] # "VOID"
    <2>1. op[r] = "pay" /\ RequestKnows(r) /\ Apart(r)
      BY DEF PayCommit, PInv, BInv
    <2> QED
      BY <2>1 DEF RequestKnows, Apart, AboutPurchase
  <1> PICK i \in Purchases : i = doc[r]
    BY <1>0
  <1>1. CASE ~SamePaid(r)
    BY <1>1, BooksRolledBack DEF PayCommit
  <1>2. CASE SamePaid(r)
    <2> DEFINE newPaid == seen[r].paid + amt[r]
               payment == [id |-> Cardinality(payments) + 1, invoice |-> i, amount |-> amt[r]]
               next    == IF newPaid >= Total[i] THEN "PAID" ELSE "PARTIALLY_PAID"
    <2>1. /\ paid' = [paid EXCEPT ![i] = newPaid] /\ newPaid = paid[i] + amt[r]
          /\ payments' = payments \cup {payment}
          /\ status' = [status EXCEPT ![i] = next] /\ next # "VOID"
          /\ journal' = Post(journal, "PURCHASE_PAYMENT", payment.id, amt[r])
          /\ Finish(r)
      BY <1>2 DEF PayCommit, SamePaid
    <2>2. /\ payment.invoice = i /\ payment.amount = amt[r]
          /\ payment.id = Cardinality(payments) + 1 /\ Cardinality(payments) \in Nat
          /\ payment \notin payments /\ \A p \in payments : p.id # payment.id
      BY FS_CardinalityType DEF PInv, DocumentsType, BInv, Books, PaymentsNumbered
    <2> HIDE DEF payment, newPaid, next
    <2>3. /\ journal \subseteq journal' /\ OnePerSource(journal')
          /\ Posted(journal', "PURCHASE_PAYMENT", payment.id)
          /\ \A e \in journal' : e \in journal \/ e = Entry("PURCHASE_PAYMENT", payment.id, amt[r])
      BY <1>0, <2>1, PostIs, PostOnePerSource, PostedAfter DEF BInv, Books, EntriesWellFounded
    <2>4. \A j \in Purchases : status'[j] = IF j = i THEN next ELSE status[j]
      BY <2>1 DEF PInv, DocumentsType
    <2>5. \A q \in Requests : Apart(q)'
      <3>1. \A j \in Serialized : status'[j] # status[j] => op[r] \in AboutPurchase /\ j = doc[r]
        BY <1>0, <2>4 DEF AboutPurchase
      <3> QED
        BY <2>1, <3>1, OthersAlone DEF BInv
    <2>6. \A t, s : Posted(journal, t, s) => Posted(journal', t, s)
      BY <2>3, PostedGrows
    <2>7. \A t, s : t # "PURCHASE_PAYMENT" => (Posted(journal', t, s) <=> Posted(journal, t, s))
      BY <2>3, <2>6, PostedIsOldOrNew DEF Entry
    <2>8. EntriesWellFounded'
      <3>1. \A e \in journal' : WellFounded(e)'
        BY <2>1, <2>2, <2>3
        DEF BInv, Books, EntriesWellFounded, WellFounded, PurchaseTypes, PaymentTypes, Entry
      <3> QED
        BY <2>3, <3>1 DEF EntriesWellFounded, OnePerSource, HasAmounts
    <2>9. PaymentsNumbered'
      <3>1. Cardinality(payments') = Cardinality(payments) + 1
        BY <2>1, <2>2, FS_AddElement DEF PInv, DocumentsType
      <3> QED
        BY <2>1, <2>2, <3>1 DEF BInv, Books, PaymentsNumbered
    <2>10. /\ AmountOf(PaymentsOf(i)') = AmountOf(PaymentsOf(i)) + amt[r]
           /\ \A j \in Purchases \ {i} : PaymentsOf(j)' = PaymentsOf(j)
           /\ PaymentsOf(i)' = PaymentsOf(i) \cup {payment}
      <3>1. payment.amount \in Nat /\ payments' = payments \cup {payment}
        BY <1>0, <2>1, <2>2
      <3>2. i \in Purchases /\ payment \notin payments /\ payment.invoice = i
        BY <2>2
      <3>3. IsFiniteSet(payments) /\ HasAmounts(payments)
        BY DEF PInv, DocumentsType, HasAmounts
      <3>4. /\ AmountOf(PaymentsOf(i)') = AmountOf(PaymentsOf(i)) + payment.amount
            /\ \A j \in Purchases \ {i} : PaymentsOf(j)' = PaymentsOf(j)
            /\ PaymentsOf(i)' = PaymentsOf(i) \cup {payment}
        BY <3>1, <3>2, <3>3, SpentAfter
      <3> QED
        BY <2>2, <3>4
    <2>11. PaidIsSpent'
      <3>1. \A j \in Purchases : paid'[j] = IF j = i THEN paid[i] + amt[r] ELSE paid[j]
        <4>1. paid \in [Purchases -> Nat]
          BY DEF PInv, DocumentsType
        <4>2. paid' = [paid EXCEPT ![i] = paid[i] + amt[r]]
          BY <2>1
        <4> QED
          BY <4>1, <4>2
      <3>2. \A j \in Purchases : paid'[j] = AmountOf(PaymentsOf(j)')
        BY <2>10, <3>1 DEF BInv, Books, PaidIsSpent
      <3> QED
        BY <3>2 DEF PaidIsSpent
    <2>12. \A j : Bought(j)' <=> Bought(j)
      BY <2>7 DEF Bought
    <2>13. PaymentsFounded'
      <3>1. ~Posted(journal, "PURCHASE_PAYMENT_REVERSAL", payment.id)
        BY <2>2 DEF Posted, EntriesOf, BInv, Books, EntriesWellFounded, WellFounded, PurchaseTypes
      <3>2. ASSUME NEW p \in payments'
            PROVE  /\ Posted(journal', "PURCHASE_PAYMENT", p.id) /\ Bought(p.invoice)'
                   /\ Posted(journal', "PURCHASE_PAYMENT_REVERSAL", p.id) =>
                        Posted(journal', "PURCHASE_VOID", p.invoice)
        <4>1. CASE p \in payments
          BY <2>6, <2>7, <2>12, <4>1 DEF BInv, Books, PaymentsFounded
        <4>2. CASE p = payment
          BY <1>0, <2>2, <2>3, <2>7, <2>12, <3>1, <4>2
        <4> QED
          BY <2>1, <4>1, <4>2
      <3> QED
        BY <3>2 DEF PaymentsFounded
    <2>14. VoidUnwinds'
      <3>1. \A j : Posted(journal', "PURCHASE_VOID", j) <=> Posted(journal, "PURCHASE_VOID", j)
        BY <2>7
      <3>2. \A j \in Serialized : j \in Purchases
        OBVIOUS
      <3> QED
        BY <1>0, <2>1, <2>4, <2>6, <2>10, <2>12, <3>1, <3>2 DEF BInv, Books, VoidUnwinds
    <2> QED
      BY <2>5, <2>8, <2>9, <2>11, <2>13, <2>14 DEF BInv, Books
  <1> QED
    BY <1>1, <1>2

LEMMA BooksAdjust ==
  ASSUME PInv, BInv, NEW r \in Requests, AdjustCommit(r)
  PROVE  BInv'
  <1>1. Finish(r) /\ UNCHANGED <<status, paid, payments, journal>>
    BY DEF AdjustCommit, docs
  <1>2. \A q \in Requests : Apart(q)'
    BY <1>1, OthersAlone DEF BInv
  <1>3. Books'
    BY <1>1, BooksSame DEF BInv
  <1> QED
    BY <1>2, <1>3 DEF BInv

LEMMA BooksVoidDraft ==
  ASSUME PInv, BInv, NEW r \in Requests, VoidDraft(r)
  PROVE  BInv'
  <1> USE PurchasesAssumption
  <1>1. /\ op[r] = "void" /\ doc[r] \in Purchases
        /\ doc[r] \in Serialized => ~Bought(doc[r])
    <2>1. /\ op[r] = "void" /\ RequestKnows(r) /\ Apart(r) /\ Confirmation
          /\ seen[r].status \notin Released
      BY DEF VoidDraft, WasReleased, PInv, BInv
    <2> QED
      BY <2>1 DEF RequestKnows, Apart, Confirmation, AboutPurchase
  <1>2. /\ status' = [status EXCEPT ![doc[r]] = "VOID"] /\ Finish(r)
        /\ UNCHANGED <<paid, payments, journal>>
    BY DEF VoidDraft
  <1>3. \A j \in Purchases : status'[j] = IF j = doc[r] THEN "VOID" ELSE status[j]
    BY <1>1, <1>2 DEF PInv, DocumentsType
  <1>4. \A j \in Serialized : j \in Purchases
    OBVIOUS
  <1>5. \A q \in Requests : Apart(q)'
    <2>1. \A j \in Serialized : status'[j] # status[j] => op[r] \in AboutPurchase /\ j = doc[r]
      BY <1>1, <1>3, <1>4 DEF AboutPurchase
    <2> QED
      BY <1>2, <2>1, OthersAlone DEF BInv
  <1>6. Books'
    BY <1>1, <1>2, <1>3, <1>4, BooksSame DEF BInv
  <1> QED
    BY <1>5, <1>6 DEF BInv

LEMMA BooksCreate ==
  ASSUME PInv, BInv, NEW i \in Purchases, CreateDraft(i)
  PROVE  BInv'
  <1> USE PurchasesAssumption
  <1>1. /\ status[i] = "NONE" /\ status' = [status EXCEPT ![i] = "DRAFT"]
        /\ UNCHANGED <<paid, payments, journal, op, doc, seen>>
    BY DEF CreateDraft, requests
  <1>2. \A j \in Purchases : status'[j] = IF j = i THEN "DRAFT" ELSE status[j]
    BY <1>1 DEF PInv, DocumentsType
  <1>3. \A j \in Serialized : j \in Purchases
    OBVIOUS
  <1>4. Books'
    BY <1>1, <1>2, <1>3, BooksSame DEF BInv
  <1>5. ASSUME NEW q \in Requests PROVE Apart(q)'
    <2>1. Apart(q)
      BY DEF BInv
    <2>2. op[q] \in {"void", "voidStocked", "pay"} /\ doc[q] \in Serialized => doc[q] # i
      BY <1>1, <2>1 DEF Apart, AboutPurchase, Released
    <2> QED
      BY <1>1, <1>2, <1>3, <2>1, <2>2 DEF Apart
  <1> QED
    BY <1>4, <1>5 DEF BInv

LEMMA BInvNext == PInv /\ BInv /\ [PurchasesNext]_purchaseVars => BInv'
  <1> SUFFICES ASSUME PInv, BInv, [PurchasesNext]_purchaseVars PROVE BInv'
    OBVIOUS
  <1> USE PurchasesAssumption
  <1>1. ASSUME UNCHANGED purchaseVars PROVE BInv'
    <2>1. UNCHANGED <<status, paid, payments, journal, op, doc, seen>>
      BY <1>1 DEF purchaseVars, docs, requests
    <2>2. Books'
      BY <2>1, BooksSame DEF BInv
    <2> QED
      BY <2>1, <2>2 DEF BInv, Apart
  <1>2. ASSUME NEW r \in Requests, NEW i \in Purchases, ConfirmRead(r, i) PROVE BInv'
    BY <1>2, BooksPurchaseRead DEF ConfirmRead, AboutPurchase
  <1>3. ASSUME NEW r \in Requests, NEW i \in Purchases, VoidRead(r, i) PROVE BInv'
    BY <1>3, BooksPurchaseRead DEF VoidRead, AboutPurchase
  <1>4. ASSUME NEW r \in Requests, NEW i \in Purchases, NEW a \in Amounts, PayRead(r, i, a)
        PROVE  BInv'
    BY <1>4, BooksPurchaseRead DEF PayRead, AboutPurchase
  <1>5. ASSUME NEW r \in Requests, NEW x \in Items, NEW d \in Deltas, AdjustRead(r, x, d)
        PROVE  BInv'
    <2>1. "adjust" \notin AboutPurchase
      BY DEF AboutPurchase
    <2> QED
      BY <1>5, <2>1, BooksRead DEF AdjustRead
  <1>6. ASSUME NEW r \in Requests, VoidReadItem(r) PROVE BInv'
    <2> DEFINE view == [seen[r] EXCEPT !.onHand = stock[ItemOf[doc[r]]]]
    <2>1. /\ op[r] = "void" /\ seen[r].status \in Released
          /\ Begin(r, "voidStocked", doc[r], view, 0)
          /\ UNCHANGED <<docs, goods, journal>>
      BY <1>6 DEF VoidReadItem, WasReleased
    <2> HIDE DEF view
    <2>2. Apart(r)
      BY DEF BInv
    <2>3. doc[r] \in Serialized =>
            /\ \A q \in Requests : op[q] \in AboutPurchase /\ doc[q] = doc[r] => q = r
            /\ status[doc[r]] \in Released
      BY <2>1, <2>2 DEF Apart, AboutPurchase
    <2> QED
      BY <2>1, <2>3, BooksRead
  <1> QED
    BY <1>1, <1>2, <1>3, <1>4, <1>5, <1>6, BooksConfirm, BooksVoid, BooksVoidDraft, BooksPay,
       BooksAdjust, BooksCreate DEF PurchasesNext, Purchasing

\* The entries that move the payable of a purchase, by type.
LEMMA PayableEntries ==
  ASSUME PInv, BInv, NEW i \in Purchases
  PROVE  /\ {e \in EntriesAbout(i) : CreditOf[e.type] = "AP"} =
              EntriesOf(journal, "PURCHASE_INVOICE", i)
              \cup EntriesFor(journal, "PURCHASE_PAYMENT_REVERSAL", PaymentsOf(i))
         /\ {e \in EntriesAbout(i) : DebitOf[e.type] = "AP"} =
              EntriesOf(journal, "PURCHASE_VOID", i)
              \cup EntriesFor(journal, "PURCHASE_PAYMENT", PaymentsOf(i))
  <1> DEFINE P == PaymentsOf(i)
  <1>1. \A e \in journal :
          \/ /\ e.type \in PurchaseTypes /\ e.source \in Purchases
          \/ /\ e.type \in PaymentTypes /\ \E p \in payments : e.source = p.id
    BY DEF BInv, Books, EntriesWellFounded, WellFounded
  <1>2. \A p \in payments : p.id \in Nat
    BY DEF PInv, DocumentsType
  <1>3. \A j \in Purchases : j \notin Nat
    BY PurchasesAssumption
  <1>4. P \subseteq payments
    BY DEF PaymentsOf
  <1> HIDE DEF P
  <1>5. EntriesAbout(i) = {e \in journal : e.source = i}
                          \cup {e \in journal : \E p \in P : e.source = p.id}
    BY DEF EntriesAbout, P
  <1>6. ASSUME NEW e \in EntriesAbout(i)
        PROVE  /\ e \in journal
               /\ \/ e.type \in PurchaseTypes /\ e.source = i
                  \/ e.type \in PaymentTypes /\ \E p \in P : e.source = p.id
    BY <1>1, <1>2, <1>3, <1>4, <1>5
  <1>7. /\ DebitOf["PURCHASE_INVOICE"] # "AP" /\ CreditOf["PURCHASE_INVOICE"] = "AP"
        /\ DebitOf["PURCHASE_VOID"] = "AP" /\ CreditOf["PURCHASE_VOID"] # "AP"
        /\ DebitOf["PURCHASE_PAYMENT"] = "AP" /\ CreditOf["PURCHASE_PAYMENT"] # "AP"
        /\ DebitOf["PURCHASE_PAYMENT_REVERSAL"] # "AP" /\ CreditOf["PURCHASE_PAYMENT_REVERSAL"] = "AP"
    BY DEF DebitOf, CreditOf
  <1>8. ASSUME NEW e
        PROVE  /\ e \in {x \in EntriesAbout(i) : CreditOf[x.type] = "AP"} <=>
                    e \in EntriesOf(journal, "PURCHASE_INVOICE", i)
                          \cup EntriesFor(journal, "PURCHASE_PAYMENT_REVERSAL", P)
               /\ e \in {x \in EntriesAbout(i) : DebitOf[x.type] = "AP"} <=>
                    e \in EntriesOf(journal, "PURCHASE_VOID", i)
                          \cup EntriesFor(journal, "PURCHASE_PAYMENT", P)
    <2>1. e \in EntriesOf(journal, "PURCHASE_INVOICE", i) => e \in EntriesAbout(i)
      BY <1>5 DEF EntriesOf
    <2>2. e \in EntriesOf(journal, "PURCHASE_VOID", i) => e \in EntriesAbout(i)
      BY <1>5 DEF EntriesOf
    <2>3. \A t : e \in EntriesFor(journal, t, P) => e \in EntriesAbout(i) /\ e.type = t
      BY <1>5 DEF EntriesFor
    <2> QED
      BY <1>6, <1>7, <2>1, <2>2, <2>3 DEF EntriesOf, EntriesFor, PurchaseTypes, PaymentTypes
  <1> QED
    BY <1>8 DEF P

LEMMA PayableIsOwed ==
  ASSUME PInv, BInv
  PROVE  LedgerMatchesPurchases
  <1> USE PurchasesAssumption
  <1> SUFFICES ASSUME NEW i \in Serialized PROVE -Balance("AP", EntriesAbout(i)) = Owed(i)
    BY DEF LedgerMatchesPurchases
  <1> DEFINE P     == PaymentsOf(i)
             buy   == EntriesOf(journal, "PURCHASE_INVOICE", i)
             void  == EntriesOf(journal, "PURCHASE_VOID", i)
             paids == EntriesFor(journal, "PURCHASE_PAYMENT", P)
             backs == EntriesFor(journal, "PURCHASE_PAYMENT_REVERSAL", P)
  <1>1. i \in Purchases /\ Total[i] \in Nat /\ paid[i] \in Nat /\ OnePerSource(journal)
        /\ HasAmounts(journal)
    BY DEF PInv, DocumentsType, BInv, Books, EntriesWellFounded, OnePerSource
  <1>2. /\ P \subseteq payments /\ IsFiniteSet(P) /\ HasAmounts(P)
        /\ \A p, q \in P : p.id = q.id => p = q
    <2>1. P \subseteq payments /\ IsFiniteSet(payments)
      BY DEF PaymentsOf, PInv, DocumentsType
    <2>2. IsFiniteSet(P)
      BY <2>1, FS_Subset
    <2> QED
      BY <2>1, <2>2 DEF PInv, DocumentsType, BInv, Books, PaymentsNumbered, HasAmounts
  <1>3. AmountOf(P) = paid[i]
    BY <1>1 DEF BInv, Books, PaidIsSpent
  <1>4. \A p \in P : p.invoice = i
    BY DEF PaymentsOf
  <1> HIDE DEF P
  <1>5. /\ IsFiniteSet(buy) /\ AmountOf(buy) = IF Bought(i) THEN Total[i] ELSE 0
        /\ IsFiniteSet(void)
        /\ AmountOf(void) = IF Posted(journal, "PURCHASE_VOID", i) THEN Total[i] ELSE 0
    <2>1. \A e \in journal : e.type \in {"PURCHASE_INVOICE", "PURCHASE_VOID"} /\ e.source = i
                               => e.amount = Total[i]
      BY DEF BInv, Books, EntriesWellFounded, WellFounded, PurchaseTypes, PaymentTypes
    <2>2. \A e \in EntriesOf(journal, "PURCHASE_INVOICE", i) : e.amount = Total[i]
      BY <2>1 DEF EntriesOf
    <2>3. \A e \in EntriesOf(journal, "PURCHASE_VOID", i) : e.amount = Total[i]
      BY <2>1 DEF EntriesOf
    <2> QED
      BY <1>1, <2>2, <2>3, AmountOfEntry DEF Bought
  <1>6. IsFiniteSet(paids) /\ AmountOf(paids) = paid[i]
    <2>1. \A p \in P : Posted(journal, "PURCHASE_PAYMENT", p.id)
      BY <1>2 DEF BInv, Books, PaymentsFounded
    <2>2. \A p \in P : \A e \in EntriesOf(journal, "PURCHASE_PAYMENT", p.id) : e.amount = p.amount
      BY <1>2 DEF EntriesOf, BInv, Books, EntriesWellFounded, WellFounded, PurchaseTypes,
                  PaymentTypes, PaymentsNumbered
    <2> QED
      BY <1>1, <1>2, <1>3, <2>1, <2>2, AmountOfEntries
  <1>7. /\ IsFiniteSet(backs)
        /\ AmountOf(backs) = IF Posted(journal, "PURCHASE_VOID", i) THEN paid[i] ELSE 0
    <2>1. CASE Posted(journal, "PURCHASE_VOID", i)
      <3>1. \A p \in P : Posted(journal, "PURCHASE_PAYMENT_REVERSAL", p.id)
        BY <1>1, <2>1 DEF BInv, Books, VoidUnwinds, P
      <3>2. \A p \in P : \A e \in EntriesOf(journal, "PURCHASE_PAYMENT_REVERSAL", p.id) :
              e.amount = p.amount
        BY <1>2 DEF EntriesOf, BInv, Books, EntriesWellFounded, WellFounded, PurchaseTypes,
                    PaymentTypes, PaymentsNumbered
      <3> QED
        BY <1>1, <1>2, <1>3, <2>1, <3>1, <3>2, AmountOfEntries
    <2>2. CASE ~Posted(journal, "PURCHASE_VOID", i)
      <3>1. \A p \in P : ~Posted(journal, "PURCHASE_PAYMENT_REVERSAL", p.id)
        BY <1>2, <1>4, <2>2 DEF BInv, Books, PaymentsFounded
      <3> QED
        BY <2>2, <3>1, AmountOfNoEntries
    <2> QED
      BY <2>1, <2>2
  <1>8. /\ buy \cap backs = {} /\ void \cap paids = {}
        /\ HasAmounts(buy) /\ HasAmounts(void) /\ HasAmounts(paids) /\ HasAmounts(backs)
    BY <1>1 DEF EntriesOf, EntriesFor, HasAmounts
  <1>9. Balance("AP", EntriesAbout(i)) = AmountOf(void \cup paids) - AmountOf(buy \cup backs)
    BY <1>1, PayableEntries DEF Balance, P
  <1> HIDE DEF buy, void, paids, backs
  <1>10. /\ AmountOf(buy \cup backs) = AmountOf(buy) + AmountOf(backs)
         /\ AmountOf(void \cup paids) = AmountOf(void) + AmountOf(paids)
    BY <1>5, <1>6, <1>7, <1>8, AmountOfBoth
  <1>11. /\ Posted(journal, "PURCHASE_VOID", i) <=> status[i] = "VOID" /\ Bought(i)
         /\ status[i] \in Released => Bought(i)
         /\ status[i] \in {"NONE", "DRAFT"} => ~Bought(i)
         /\ ~Bought(i) => paid[i] = 0
         /\ status[i] \in Status
    <2>1. ASSUME ~Bought(i) PROVE paid[i] = 0
      <3>1. P = {}
        BY <1>2, <1>4, <2>1 DEF BInv, Books, PaymentsFounded
      <3> QED
        BY <1>3, <3>1, AmountOfNone
    <2> QED
      BY <1>1, <2>1 DEF BInv, Books, VoidUnwinds, PInv, DocumentsType, Confirmation
  <1> QED
    BY <1>1, <1>5, <1>6, <1>7, <1>9, <1>10, <1>11 DEF Owed, Released, Status

LEMMA PurchasesBooks == PurchasesSpec => [](PInv /\ BInv)
  <1>1. PurchasesInit => PInv /\ BInv
    BY PInitInv, BInvInit
  <1>2. PInv /\ BInv /\ [PurchasesNext]_purchaseVars => (PInv /\ BInv)'
    BY PStepInv, BInvNext
  <1> QED
    BY <1>1, <1>2, PTL DEF PurchasesSpec

\* However many confirms, voids and payments race, the goods of a purchase
\* arrive at most once (confirmPurchase), and amountPaid is the sum of the
\* payment rows (recordPayment).
THEOREM PurchasesCountOnce == PurchasesSpec => []PurchaseCountsOnce
  <1>1. PInv /\ BInv => PurchaseCountsOnce
    BY DEF PInv, BInv, Books, PaidIsSpent, PurchaseCountsOnce
  <1> QED
    BY <1>1, PurchasesBooks, PTL

\* The ledger never drifts from the operational data (LedgerService): the
\* payable of a purchase about which requests do not overlap is what the
\* purchase says is owed, whatever overlapping requests do to the others.
THEOREM PurchasesLedgerMatches == PurchasesSpec => []LedgerMatchesPurchases
  <1>1. PInv /\ BInv => LedgerMatchesPurchases
    BY PayableIsOwed
  <1> QED
    BY <1>1, PurchasesBooks, PTL

-----------------------------------------------------------------------------
(* Procurement                                                             *)

ReceiptRow == [status : {"NONE", "DRAFT", "CONFIRMED", "CANCELLED"},
               order : Orders \cup {NoOrder}, line : Nat, qty : Deliveries \cup {<<>>}]

RowsType ==
    /\ orderStatus \in [Orders -> OrderStatus]
    /\ receipt \in [Receipts -> ReceiptRow]
    /\ created \in Nat
    /\ \A l \in lines : DOMAIN l = {"id", "order", "qty", "received"} /\ l.order \in Orders

TasksType ==
    /\ task \in [Storekeepers -> OrderSteps]
    /\ subject \in [Storekeepers -> Orders \cup Receipts \cup {NoOrder}]
    /\ linesSeen \in [Storekeepers -> SUBSET Nat]

\* An identity is given once, and names one line.
LinesAreNumbered ==
    /\ \A l \in lines : l.id \in 1..created
    /\ \A l, k \in lines : l.id = k.id => l.order = k.order

\* What a request knows of its order when it commits.
TaskKnows(r) ==
    /\ \A n \in linesSeen[r] : n <= created
    /\ task[r] \in {"update", "replace"} => subject[r] \in Orders
    /\ task[r] = "receive" => /\ subject[r] \in Orders
                              /\ orderStatus[subject[r]] = "APPROVED"
                              /\ \A l \in lines : l.id \in linesSeen[r] => l.order = subject[r]
    /\ task[r] = "confirm" => subject[r] \in Receipts

OInv ==
    /\ RowsType /\ TasksType /\ LinesAreNumbered
    /\ \A r \in Storekeepers : TaskKnows(r)
    /\ ReceiptsAgainstApproved

LEMMA OInitInv == ProcurementInit => OInv
  <1> SUFFICES ASSUME ProcurementInit PROVE OInv
    OBVIOUS
  <1>1. RowsType
    BY DEF ProcurementInit, RowsType, ReceiptRow, NoReceipt, OrderStatus
  <1>2. TasksType /\ LinesAreNumbered /\ (\A r \in Storekeepers : TaskKnows(r))
    BY DEF ProcurementInit, TasksType, LinesAreNumbered, TaskKnows, OrderSteps
  <1>3. ReceiptsAgainstApproved
    BY DEF ProcurementInit, ReceiptsAgainstApproved
  <1>4. QED
    BY <1>1, <1>2, <1>3 DEF OInv

\* A request moves on, and the rows stay.
LEMMA TaskMoves ==
  ASSUME OInv, NEW r \in Storekeepers, NEW step \in OrderSteps,
         NEW d \in Orders \cup Receipts \cup {NoOrder}, NEW ids \in SUBSET Nat,
         BeginOrder(r, step, d, ids), UNCHANGED <<orders, receipt>>,
         \A n \in ids : n <= created,
         step \in {"update", "replace"} => d \in Orders,
         step = "receive" => /\ d \in Orders /\ orderStatus[d] = "APPROVED"
                             /\ \A l \in lines : l.id \in ids => l.order = d,
         step = "confirm" => d \in Receipts
  PROVE  OInv'
  <1>1. /\ task' = [task EXCEPT ![r] = step] /\ subject' = [subject EXCEPT ![r] = d]
        /\ linesSeen' = [linesSeen EXCEPT ![r] = ids]
    BY DEF BeginOrder
  <1>2. \A q \in Storekeepers : /\ task'[q] = IF q = r THEN step ELSE task[q]
                                /\ subject'[q] = IF q = r THEN d ELSE subject[q]
                                /\ linesSeen'[q] = IF q = r THEN ids ELSE linesSeen[q]
    BY <1>1 DEF OInv, TasksType
  <1>3. UNCHANGED <<orderStatus, lines, created, receipt>>
    BY DEF orders
  <1>4. RowsType' /\ LinesAreNumbered' /\ ReceiptsAgainstApproved'
    BY <1>3 DEF OInv, RowsType, LinesAreNumbered, ReceiptsAgainstApproved, LinesOf, Ids
  <1>5. TasksType'
    BY <1>1 DEF OInv, TasksType
  <1>6. \A q \in Storekeepers : TaskKnows(q)'
    BY <1>2, <1>3 DEF OInv, TaskKnows
  <1>7. QED
    BY <1>4, <1>5, <1>6 DEF OInv

LEMMA TaskRollsBack ==
  ASSUME OInv, NEW r \in Storekeepers, RollbackOrder(r)
  PROVE  OInv'
  <1>1. "idle" \in OrderSteps
    BY DEF OrderSteps
  <1>2. BeginOrder(r, "idle", NoOrder, {}) /\ UNCHANGED <<orders, receipt>>
    BY DEF RollbackOrder, FinishOrder
  <1>3. QED
    BY <1>1, <1>2, TaskMoves

\* A new line takes an identity that no request has seen.
LEMMA LineAdded ==
  ASSUME OInv, NEW o \in Orders, NEW q, NEW gone \in SUBSET lines,
         lines' = (lines \ gone) \cup {NewLine(o, q)}, created' = created + 1,
         \A l \in gone, g \in Receipts : l.id # receipt[g].line,
         UNCHANGED receipt,
         orderStatus' \in [Orders -> OrderStatus],
         \A p \in Orders : orderStatus[p] = "APPROVED" => orderStatus'[p] = "APPROVED"
  PROVE  /\ RowsType' /\ LinesAreNumbered' /\ ReceiptsAgainstApproved'
         /\ \A r \in Storekeepers : /\ task'[r] = task[r] /\ subject'[r] = subject[r]
                                    /\ linesSeen'[r] = linesSeen[r]
                                    => TaskKnows(r)'
  <1> DEFINE new == NewLine(o, q)
  <1>1. /\ DOMAIN new = {"id", "order", "qty", "received"}
        /\ new.id = created + 1 /\ new.order = o
    BY DEF NewLine
  <1>2. \A l \in lines' : l \in lines \/ l = new
    OBVIOUS
  <1>3. lines' = (lines \ gone) \cup {new}
    OBVIOUS
  <1> HIDE DEF new
  <1>4. RowsType'
    BY <1>1, <1>2 DEF OInv, RowsType
  <1>5. LinesAreNumbered'
    BY <1>1, <1>2 DEF OInv, RowsType, LinesAreNumbered
  <1>6. ReceiptsAgainstApproved'
    <2> SUFFICES ASSUME NEW g \in Receipts, receipt[g] # NoReceipt
                 PROVE  /\ orderStatus'[receipt[g].order] = "APPROVED"
                        /\ receipt[g].line \in Ids(LinesOf(receipt[g].order))'
      BY DEF ReceiptsAgainstApproved
    <2>1. PICK l \in lines : l.order = receipt[g].order /\ l.id = receipt[g].line
      BY DEF OInv, ReceiptsAgainstApproved, Ids, LinesOf
    <2>2. l \in lines'
      BY <1>3, <2>1
    <2>3. receipt[g].order \in Orders /\ orderStatus[receipt[g].order] = "APPROVED"
      BY <2>1 DEF OInv, RowsType, ReceiptsAgainstApproved
    <2>4. QED
      BY <2>1, <2>2, <2>3 DEF Ids, LinesOf
  <1>7. ASSUME NEW r \in Storekeepers, task'[r] = task[r], subject'[r] = subject[r],
               linesSeen'[r] = linesSeen[r]
        PROVE  TaskKnows(r)'
    <2>1. TaskKnows(r) /\ created \in Nat /\ \A n \in linesSeen[r] : n \in Nat
      BY DEF OInv, RowsType, TasksType
    <2>2. new.id \notin linesSeen[r]
      BY <1>1, <2>1 DEF TaskKnows
    <2>3. QED
      BY <1>2, <1>7, <2>1, <2>2 DEF TaskKnows
  <1>8. QED
    BY <1>4, <1>5, <1>6, <1>7

\* A status or a receipt changes: what stands against an approved order still does.
LEMMA ReceiptsStand ==
  ASSUME OInv, RowsType', LinesAreNumbered', created' = created,
         \A p \in Orders : orderStatus[p] = "APPROVED" => orderStatus'[p] = "APPROVED",
         \A l \in lines : \E k \in lines' : k.id = l.id /\ k.order = l.order,
         \A k \in lines' : \E l \in lines : k.id = l.id /\ k.order = l.order,
         \A g \in Receipts : receipt'[g] # NoReceipt =>
           \/ /\ receipt[g] # NoReceipt
              /\ receipt'[g].order = receipt[g].order /\ receipt'[g].line = receipt[g].line
           \/ /\ receipt'[g].order \in Orders /\ orderStatus[receipt'[g].order] = "APPROVED"
              /\ \E l \in lines : l.order = receipt'[g].order /\ l.id = receipt'[g].line
  PROVE  /\ ReceiptsAgainstApproved'
         /\ \A r \in Storekeepers : /\ task'[r] = task[r] /\ subject'[r] = subject[r]
                                    /\ linesSeen'[r] = linesSeen[r]
                                    => TaskKnows(r)'
  <1>1. ReceiptsAgainstApproved'
    <2> SUFFICES ASSUME NEW g \in Receipts, receipt'[g] # NoReceipt
                 PROVE  /\ orderStatus'[receipt'[g].order] = "APPROVED"
                        /\ receipt'[g].line \in Ids(LinesOf(receipt[g].order))'
      BY DEF ReceiptsAgainstApproved, NoReceipt
    <2>1. /\ receipt'[g].order \in Orders /\ orderStatus[receipt'[g].order] = "APPROVED"
          /\ \E l \in lines : l.order = receipt'[g].order /\ l.id = receipt'[g].line
      BY DEF OInv, RowsType, ReceiptsAgainstApproved, Ids, LinesOf
    <2>2. PICK k \in lines' : k.order = receipt'[g].order /\ k.id = receipt'[g].line
      BY <2>1
    <2>3. QED
      BY <2>1, <2>2 DEF Ids, LinesOf
  <1>2. ASSUME NEW r \in Storekeepers, task'[r] = task[r], subject'[r] = subject[r],
               linesSeen'[r] = linesSeen[r]
        PROVE  TaskKnows(r)'
    <2>1. TaskKnows(r)
      BY DEF OInv
    <2>2. QED
      BY <1>2, <2>1 DEF TaskKnows
  <1>3. QED
    BY <1>1, <1>2

\* Nothing but a request's own step changes what it knows.
LEMMA OthersWait ==
  ASSUME OInv, NEW r \in Storekeepers, FinishOrder(r),
         \A q \in Storekeepers : /\ task'[q] = task[q] /\ subject'[q] = subject[q]
                                 /\ linesSeen'[q] = linesSeen[q]
                                 => TaskKnows(q)'
  PROVE  TasksType' /\ \A q \in Storekeepers : TaskKnows(q)'
  <1>1. /\ task' = [task EXCEPT ![r] = "idle"] /\ subject' = [subject EXCEPT ![r] = NoOrder]
        /\ linesSeen' = [linesSeen EXCEPT ![r] = {}]
    BY DEF FinishOrder, BeginOrder
  <1>2. TasksType'
    BY <1>1 DEF OInv, TasksType, OrderSteps
  <1>3. \A q \in Storekeepers : q # r => /\ task'[q] = task[q] /\ subject'[q] = subject[q]
                                         /\ linesSeen'[q] = linesSeen[q]
    BY <1>1 DEF OInv, TasksType
  <1>4. task'[r] = "idle" /\ linesSeen'[r] = {}
    BY <1>1 DEF OInv, TasksType
  <1>5. TaskKnows(r)'
    BY <1>4 DEF TaskKnows
  <1>6. QED
    BY <1>2, <1>3, <1>5

LEMMA TransitionKeeps ==
  ASSUME OInv, NEW o \in Orders, NEW expected, NEW next \in OrderStatus,
         Transition(o, expected, next), expected # "APPROVED"
  PROVE  OInv'
  <1>1. /\ orderStatus[o] # "APPROVED" /\ orderStatus' = [orderStatus EXCEPT ![o] = next]
        /\ UNCHANGED <<lines, created, receipt, task, subject, linesSeen>>
    BY DEF Transition, tasks
  <1>2. /\ RowsType' /\ LinesAreNumbered' /\ TasksType'
        /\ \A p \in Orders : orderStatus[p] = "APPROVED" => orderStatus'[p] = "APPROVED"
    BY <1>1 DEF OInv, RowsType, LinesAreNumbered, TasksType
  <1>3. ReceiptsAgainstApproved' /\ \A r \in Storekeepers : TaskKnows(r)'
    BY <1>1, <1>2, ReceiptsStand
  <1>4. QED
    BY <1>2, <1>3 DEF OInv

LEMMA CreateKeeps ==
  ASSUME OInv, NEW o \in Orders, NEW q \in Quantities, Create(o, q)
  PROVE  OInv'
  <1>1. /\ orderStatus[o] = "NONE" /\ orderStatus' = [orderStatus EXCEPT ![o] = "DRAFT"]
        /\ lines' = lines \cup {NewLine(o, q)} /\ created' = created + 1
        /\ UNCHANGED <<receipt, task, subject, linesSeen>>
    BY DEF Create, tasks
  <1>2. /\ orderStatus' \in [Orders -> OrderStatus]
        /\ \A p \in Orders : orderStatus[p] = "APPROVED" => orderStatus'[p] = "APPROVED"
    BY <1>1 DEF OInv, RowsType, OrderStatus
  <1> DEFINE gone == {l \in lines : FALSE}
  <1>3. /\ gone \in SUBSET lines /\ lines' = (lines \ gone) \cup {NewLine(o, q)}
        /\ \A l \in gone, g \in Receipts : l.id # receipt[g].line
    BY <1>1
  <1> HIDE DEF gone
  <1>4. /\ RowsType' /\ LinesAreNumbered' /\ ReceiptsAgainstApproved'
        /\ \A r \in Storekeepers : TaskKnows(r)'
    BY <1>1, <1>2, <1>3, LineAdded
  <1>5. QED
    BY <1>1, <1>4 DEF OInv, TasksType

LEMMA UpdateKeeps ==
  ASSUME OInv, NEW r \in Storekeepers, NEW q \in Quantities, UpdateCommit(r, q)
  PROVE  OInv'
  <1> DEFINE o == subject[r]
             gone == {l \in lines : l.id \in linesSeen[r]}
  <1>1. o \in Orders
    BY DEF UpdateCommit, OInv, TaskKnows
  <1>2. CASE linesSeen[r] \cap Referenced # {}
    BY <1>2, TaskRollsBack DEF UpdateCommit
  <1>3. CASE linesSeen[r] \cap Referenced = {}
    <2>1. /\ lines' = {l \in lines : l.id \notin linesSeen[r]} \cup {NewLine(o, q)}
          /\ created' = created + 1 /\ FinishOrder(r)
          /\ UNCHANGED <<orderStatus, receipt>>
      BY <1>3 DEF UpdateCommit
    <2>2. gone \in SUBSET lines /\ lines' = (lines \ gone) \cup {NewLine(o, q)}
      BY <2>1
    <2>3. \A l \in gone, g \in Receipts : l.id # receipt[g].line
      BY <1>3 DEF Referenced
    <2>4. orderStatus' \in [Orders -> OrderStatus]
      BY <2>1 DEF OInv, RowsType
    <2> HIDE DEF gone, o
    <2>5. /\ RowsType' /\ LinesAreNumbered' /\ ReceiptsAgainstApproved'
          /\ \A k \in Storekeepers : /\ task'[k] = task[k] /\ subject'[k] = subject[k]
                                     /\ linesSeen'[k] = linesSeen[k]
                                     => TaskKnows(k)'
      BY <1>1, <2>1, <2>2, <2>3, <2>4, LineAdded
    <2>6. QED
      BY <2>1, <2>5, OthersWait DEF OInv
  <1>4. QED
    BY <1>2, <1>3

LEMMA ReceiveKeeps ==
  ASSUME OInv, NEW r \in Storekeepers, NEW g \in Receipts, NEW n \in linesSeen[r],
         NEW d \in Deliveries, ReceiveCommit(r, g, n, d)
  PROVE  OInv'
  <1>1. CASE n \notin Ids(lines)
    BY <1>1, TaskRollsBack DEF ReceiveCommit
  <1>2. CASE n \in Ids(lines)
    <2> DEFINE row == [status |-> "DRAFT", order |-> subject[r], line |-> n, qty |-> d]
    <2>1. /\ task[r] = "receive" /\ receipt' = [receipt EXCEPT ![g] = row] /\ FinishOrder(r)
          /\ UNCHANGED <<orderStatus, lines, created>>
      BY <1>2 DEF ReceiveCommit, orders
    <2>2. PICK l \in lines : l.id = n
      BY <1>2 DEF Ids
    <2>3. /\ subject[r] \in Orders /\ orderStatus[subject[r]] = "APPROVED"
          /\ l.order = subject[r] /\ n \in Nat
      BY <2>1, <2>2 DEF OInv, TaskKnows, TasksType
    <2>4. row \in ReceiptRow /\ row.order = subject[r] /\ row.line = n
      BY <2>3 DEF ReceiptRow
    <2> HIDE DEF row
    <2>5. RowsType' /\ LinesAreNumbered'
      BY <2>1, <2>4 DEF OInv, RowsType, LinesAreNumbered
    <2>6. \A h \in Receipts : receipt'[h] = IF h = g THEN row ELSE receipt[h]
      BY <2>1 DEF OInv, RowsType
    <2>7. /\ ReceiptsAgainstApproved'
          /\ \A k \in Storekeepers : /\ task'[k] = task[k] /\ subject'[k] = subject[k]
                                     /\ linesSeen'[k] = linesSeen[k]
                                     => TaskKnows(k)'
      BY <2>1, <2>2, <2>3, <2>4, <2>5, <2>6, ReceiptsStand
    <2>8. QED
      BY <2>1, <2>5, <2>7, OthersWait DEF OInv
  <1>3. QED
    BY <1>1, <1>2

\* The status of a receipt that is a draft changes.
LEMMA ReceiptMarked ==
  ASSUME OInv, NEW g \in Receipts, NEW s \in {"CONFIRMED", "CANCELLED"},
         receipt[g].status = "DRAFT", receipt' = [receipt EXCEPT ![g].status = s]
  PROVE  /\ receipt' \in [Receipts -> ReceiptRow]
         /\ \A h \in Receipts : receipt'[h] # NoReceipt =>
              /\ receipt[h] # NoReceipt
              /\ receipt'[h].order = receipt[h].order /\ receipt'[h].line = receipt[h].line
  <1>1. receipt[g] \in ReceiptRow /\ receipt[g] # NoReceipt
    BY DEF OInv, RowsType, NoReceipt
  <1> DEFINE row == [receipt[g] EXCEPT !.status = s]
  <1>2. row \in ReceiptRow /\ row.order = receipt[g].order /\ row.line = receipt[g].line
    BY <1>1 DEF ReceiptRow
  <1>3. receipt' = [receipt EXCEPT ![g] = row]
    OBVIOUS
  <1> HIDE DEF row
  <1>4. QED
    BY <1>1, <1>2, <1>3 DEF OInv, RowsType

LEMMA ConfirmReceiptKeeps ==
  ASSUME OInv, NEW r \in Storekeepers, ConfirmReceiptCommit(r)
  PROVE  OInv'
  <1> DEFINE g == subject[r]
             n == QtyOf(g)
             Booked(l) == IF l.id = receipt[g].line THEN [l EXCEPT !.received = @ + n] ELSE l
  <1>1. g \in Receipts
    BY DEF ConfirmReceiptCommit, OInv, TaskKnows
  <1>2. CASE ~StillDraft(g)
    BY <1>2, TaskRollsBack DEF ConfirmReceiptCommit
  <1>3. CASE StillDraft(g)
    <2>1. /\ receipt[g].status = "DRAFT"
          /\ receipt' = [receipt EXCEPT ![g].status = "CONFIRMED"]
          /\ lines' = {Booked(l) : l \in lines}
          /\ FinishOrder(r)
          /\ UNCHANGED <<orderStatus, created>>
      BY <1>3 DEF ConfirmReceiptCommit, StillDraft
    <2> HIDE DEF n
    <2>2. ASSUME NEW l \in lines
          PROVE  /\ DOMAIN Booked(l) = {"id", "order", "qty", "received"}
                 /\ Booked(l).id = l.id /\ Booked(l).order = l.order
      BY DEF OInv, RowsType
    <2> HIDE DEF Booked
    <2>3. /\ receipt' \in [Receipts -> ReceiptRow]
          /\ \A h \in Receipts : receipt'[h] # NoReceipt =>
               /\ receipt[h] # NoReceipt
               /\ receipt'[h].order = receipt[h].order /\ receipt'[h].line = receipt[h].line
      BY <1>1, <2>1, ReceiptMarked
    <2> HIDE DEF g
    <2>4. \A k \in lines' : /\ DOMAIN k = {"id", "order", "qty", "received"}
                            /\ \E l \in lines : k.id = l.id /\ k.order = l.order
      BY <2>1, <2>2
    <2>5. \A l \in lines : \E k \in lines' : k.id = l.id /\ k.order = l.order
      BY <2>1, <2>2
    <2>6. RowsType' /\ LinesAreNumbered'
      BY <2>1, <2>3, <2>4 DEF OInv, RowsType, LinesAreNumbered
    <2>7. /\ ReceiptsAgainstApproved'
          /\ \A k \in Storekeepers : /\ task'[k] = task[k] /\ subject'[k] = subject[k]
                                     /\ linesSeen'[k] = linesSeen[k]
                                     => TaskKnows(k)'
      BY <2>1, <2>3, <2>4, <2>5, <2>6, ReceiptsStand
    <2>8. QED
      BY <2>1, <2>6, <2>7, OthersWait DEF OInv
  <1>4. QED
    BY <1>2, <1>3

LEMMA CancelReceiptKeeps ==
  ASSUME OInv, NEW g \in Receipts, CancelReceipt(g)
  PROVE  OInv'
  <1>1. /\ receipt[g].status = "DRAFT"
        /\ receipt' = [receipt EXCEPT ![g].status = "CANCELLED"]
        /\ UNCHANGED <<orderStatus, lines, created, task, subject, linesSeen>>
    BY DEF CancelReceipt, orders, tasks
  <1>2. /\ receipt' \in [Receipts -> ReceiptRow]
        /\ \A h \in Receipts : receipt'[h] # NoReceipt =>
             /\ receipt[h] # NoReceipt
             /\ receipt'[h].order = receipt[h].order /\ receipt'[h].line = receipt[h].line
    BY <1>1, ReceiptMarked
  <1>3. RowsType' /\ LinesAreNumbered' /\ TasksType'
    BY <1>1, <1>2 DEF OInv, RowsType, LinesAreNumbered, TasksType
  <1>4. ReceiptsAgainstApproved' /\ \A r \in Storekeepers : TaskKnows(r)'
    BY <1>1, <1>2, <1>3, ReceiptsStand
  <1>5. QED
    BY <1>3, <1>4 DEF OInv

\* The first read of each request, and the delete of an edit.
LEMMA TaskReads ==
  ASSUME OInv, NEW r \in Storekeepers
  PROVE  /\ \A o \in Orders : UpdateRead(r, o) \/ ReceiveRead(r, o) => OInv'
         /\ \A g \in Receipts : ConfirmReceiptRead(r, g) => OInv'
         /\ UpdateDelete(r) => OInv'
  <1>1. {"update", "replace", "receive", "confirm"} \subseteq OrderSteps
    BY DEF OrderSteps
  <1>2. \A o : /\ Ids(LinesOf(o)) \in SUBSET Nat /\ \A n \in Ids(LinesOf(o)) : n <= created
               /\ \A l \in lines : l.id \in Ids(LinesOf(o)) => l.order = o
    BY DEF OInv, RowsType, LinesAreNumbered, Ids, LinesOf
  <1>3. ASSUME NEW o \in Orders, UpdateRead(r, o) PROVE OInv'
    <2>1. BeginOrder(r, "update", o, {}) /\ UNCHANGED <<orders, receipt>>
      BY <1>3 DEF UpdateRead
    <2>2. QED
      BY <1>1, <2>1, TaskMoves
  <1>4. ASSUME NEW o \in Orders, ReceiveRead(r, o) PROVE OInv'
    <2> DEFINE ids == Ids(LinesOf(o))
    <2>1. /\ orderStatus[o] = "APPROVED" /\ BeginOrder(r, "receive", o, ids)
          /\ UNCHANGED <<orders, receipt>>
      BY <1>4 DEF ReceiveRead
    <2>2. /\ ids \in SUBSET Nat /\ \A n \in ids : n <= created
          /\ \A l \in lines : l.id \in ids => l.order = o
      BY <1>2
    <2> HIDE DEF ids
    <2>3. QED
      BY <1>1, <2>1, <2>2, TaskMoves
  <1>5. ASSUME NEW g \in Receipts, ConfirmReceiptRead(r, g) PROVE OInv'
    <2>1. BeginOrder(r, "confirm", g, {}) /\ UNCHANGED <<orders, receipt>>
      BY <1>5 DEF ConfirmReceiptRead
    <2>2. QED
      BY <1>1, <2>1, TaskMoves
  <1>6. ASSUME UpdateDelete(r) PROVE OInv'
    <2>1. PICK o : o = subject[r]
      OBVIOUS
    <2>2. o \in Orders
      BY <1>6, <2>1 DEF UpdateDelete, OInv, TaskKnows
    <2> DEFINE ids == Ids(LinesOf(o))
    <2>3. BeginOrder(r, "replace", o, ids) /\ UNCHANGED <<orders, receipt>>
      BY <1>6, <2>1 DEF UpdateDelete
    <2>4. ids \in SUBSET Nat /\ \A n \in ids : n <= created
      BY <1>2
    <2> HIDE DEF ids
    <2>5. QED
      BY <1>1, <2>2, <2>3, <2>4, TaskMoves
  <1>7. QED
    BY <1>3, <1>4, <1>5, <1>6

LEMMA OStepInv == OInv /\ [ProcurementNext]_procurementVars => OInv'
  <1> SUFFICES ASSUME OInv, [ProcurementNext]_procurementVars PROVE OInv'
    OBVIOUS
  <1>1. ASSUME NEW o \in Orders, Submit(o) \/ Approve(o) \/ Reject(o) \/ Cancel(o)
        PROVE  OInv'
    <2>1. {"SUBMITTED", "APPROVED", "REJECTED", "CANCELLED"} \subseteq OrderStatus
      BY DEF OrderStatus
    <2>2. QED
      BY <1>1, <2>1, TransitionKeeps DEF Submit, Approve, Reject, Cancel
  <1>2. ASSUME NEW r \in Storekeepers, Procuring(r) PROVE OInv'
    BY <1>2, TaskReads, UpdateKeeps, ReceiveKeeps, ConfirmReceiptKeeps DEF Procuring
  <1>3. CASE UNCHANGED procurementVars
    BY <1>3 DEF procurementVars, orders, tasks, OInv, RowsType, TasksType, LinesAreNumbered,
                TaskKnows, ReceiptsAgainstApproved, Ids, LinesOf
  <1>4. QED
    BY <1>1, <1>2, <1>3, CreateKeeps, CancelReceiptKeeps DEF ProcurementNext

\* A receipt only ever stands against an approved order, and against a line the
\* order has: an edit that was begun while the order was a draft, and commits
\* after the receipt (updatePurchaseOrder), cannot take the line away.
THEOREM ProcurementReceipts == ProcurementSpec => []ReceiptsAgainstApproved
  <1>1. OInv => ReceiptsAgainstApproved
    BY DEF OInv
  <1>2. QED
    BY <1>1, OInitInv, OStepInv, PTL DEF ProcurementSpec

-----------------------------------------------------------------------------
(* What is ordered and what is received                                    *)

LineRow == [id : Nat, order : Orders, qty : Quantities, received : Nat]

\* Receipts that stand confirmed against line n, and what they deliver.
ConfirmedFor(grns, n) == {g \in Receipts : grns[g].status = "CONFIRMED" /\ grns[g].line = n}
DeliveredBy(grns, n)  == SumFunction([g \in ConfirmedFor(grns, n) |-> SumFunction(grns[g].qty)])

\* What was received, and ordered, of a set of lines.
ReceivedOf(S) == SumFunction([l \in S |-> l.received])
OrderedOf(S)  == SumFunction([l \in S |-> l.qty])

OfOrder(S, o) == {l \in S : l.order = o}

RowsCount ==
    /\ IsFiniteSet(lines) /\ (\A l \in lines : l \in LineRow)
    /\ IsFiniteSet({g \in Receipts : receipt[g] # NoReceipt})
    /\ total \in [Orders -> Quantities \cup {0}]
    /\ created \in 0..MaxLines /\ stocked \in Nat

LinesKnown ==
    /\ \A l, k \in lines : l.id = k.id => l = k
    /\ \A l \in lines : orderStatus[l.order] # "NONE"

\* What a request finds as it left it, and a serialized order alone with it.
TaskAlone(r) ==
    /\ task[r] \in {"update", "replace"} => orderStatus[subject[r]] # "NONE"
    /\ task[r] = "replace" => \A l \in lines : l.id \in linesSeen[r] => l.order = subject[r]
    /\ task[r] = "confirm" => receipt[subject[r]] # NoReceipt
    /\ linesSeen[r] \subseteq 1..created
    /\ task[r] # "idle" /\ OrderOf(subject[r]) \in SerialOrders =>
         /\ \A q \in Storekeepers :
              task[q] # "idle" /\ OrderOf(subject[q]) = OrderOf(subject[r]) => q = r
         /\ task[r] = "replace" => \A l \in LinesOf(subject[r]) : l.id \in linesSeen[r]
         /\ task[r] = "confirm" => WithinOrder(subject[r])

QInv ==
    /\ RowsCount /\ LinesKnown
    /\ ReceivedMatchesReceipts /\ TotalMatchesLines /\ WithinOrderWhenSerialized
    /\ \A r \in Storekeepers : TaskAlone(r)

LEMMA ColumnsAre ==
  ASSUME NEW S
  PROVE  /\ ReceivedOf(S) = SumFunctionOnSet([l \in S |-> l.received], S)
         /\ OrderedOf(S) = SumFunctionOnSet([l \in S |-> l.qty], S)
  BY DEF ReceivedOf, OrderedOf, SumFunction

LEMMA OrderedOfNothing == OrderedOf({}) = 0
  BY ColumnsAre, SumOfNothing

LEMMA OrderedOfOne ==
  ASSUME NEW l, l.qty \in Nat
  PROVE  OrderedOf({l}) = l.qty
  <1> DEFINE S == {l}
             f == [k \in S |-> k.qty]
  <1>1. f[l] = l.qty /\ f[l] \in Int
    OBVIOUS
  <1>2. OrderedOf(S) = SumFunctionOnSet(f, S)
    BY ColumnsAre
  <1> HIDE DEF f
  <1>3. SumFunctionOnSet(f, S) = f[l]
    BY <1>1, SumOfOne
  <1> QED
    BY <1>1, <1>2, <1>3

\* Lines of which nothing was received come and go.
LEMMA ReceivedOfReplaced ==
  ASSUME NEW S, IsFiniteSet(S), \A l \in S : l.received \in Nat, NEW gone \in SUBSET S,
         \A l \in gone : l.received = 0, NEW new, new \notin S, new.received = 0
  PROVE  ReceivedOf((S \ gone) \cup {new}) = ReceivedOf(S)
  <1> DEFINE T == S \ gone
             U == T \cup {new}
             f == [l \in S |-> l.received]
             g == [l \in U |-> l.received]
  <1>1. /\ Numeric(f, S) /\ (\A l \in gone : f[l] = 0) /\ (\A l \in T : g[l] = f[l])
        /\ Numeric(g, T) /\ g[new] = 0 /\ new \notin T /\ T \subseteq S
    BY DEF Numeric
  <1>2. ReceivedOf(S) = SumFunctionOnSet(f, S) /\ ReceivedOf(U) = SumFunctionOnSet(g, U)
    BY ColumnsAre
  <1>3. IsFiniteSet(T) /\ IsFiniteSet(gone)
    BY FS_Subset
  <1> HIDE DEF f, g
  <1>4. SumFunctionOnSet(g, U) = 0 + SumFunctionOnSet(g, T)
    <2> HIDE DEF T
    <2> QED
      BY <1>1, <1>3, SumWith
  <1>5. SumFunctionOnSet(f, S) = SumFunctionOnSet(f, gone) + SumFunctionOnSet(f, T)
    BY <1>1, SumInParts
  <1>6. SumFunctionOnSet(f, gone) = 0
    BY <1>1, <1>3, SumOfZeros
  <1>7. SumFunctionOnSet(g, T) = SumFunctionOnSet(f, T)
    <2> HIDE DEF T
    <2> QED
      BY <1>1, <1>3, SumAgrees
  <1>8. SumFunctionOnSet(g, T) \in Int
    <2> HIDE DEF T
    <2> QED
      BY <1>1, <1>3, SumIsInt
  <1> HIDE DEF T
  <1>9. ReceivedOf(U) = ReceivedOf(S)
    BY <1>2, <1>4, <1>5, <1>6, <1>7, <1>8
  <1> QED
    BY <1>9 DEF T

\* A receipt of q units is booked on line n.
Booked(l, n, q)      == IF l.id = n THEN [l EXCEPT !.received = @ + q] ELSE l
BookedLines(S, n, q) == {Booked(l, n, q) : l \in S}

LEMMA BookedIs ==
  ASSUME NEW l \in LineRow, NEW n, NEW q \in Nat
  PROVE  /\ Booked(l, n, q) \in LineRow /\ Booked(l, n, q).id = l.id
         /\ Booked(l, n, q).order = l.order /\ Booked(l, n, q).qty = l.qty
         /\ Booked(l, n, q).received = l.received + IF l.id = n THEN q ELSE 0
         /\ l.id # n => Booked(l, n, q) = l
  BY DEF Booked, LineRow

LEMMA ColumnsBooked ==
  ASSUME ProcurementAssumption, NEW S, IsFiniteSet(S), \A l \in S : l \in LineRow,
         \A l, k \in S : l.id = k.id => l = k, NEW n, NEW q \in Nat
  PROVE  /\ IsFiniteSet(BookedLines(S, n, q))
         /\ OrderedOf(BookedLines(S, n, q)) = OrderedOf(S)
         /\ \A c \in S : c.id = n => ReceivedOf(BookedLines(S, n, q)) = ReceivedOf(S) + q
  <1> DEFINE T == BookedLines(S, n, q)
             h == [l \in S |-> Booked(l, n, q)]
             f == [l \in S |-> l.received]
             b == [l \in S |-> Booked(l, n, q).received]
             k == [l \in T |-> l.received]
             u == [l \in S |-> l.qty]
             v == [l \in T |-> l.qty]
  <1>1. \A l \in S : /\ h[l] = Booked(l, n, q) /\ h[l].id = l.id /\ h[l].qty = l.qty
                     /\ Booked(l, n, q) \in T
    BY BookedIs DEF BookedLines
  <1>2. T = Named(h, S)
    BY DEF BookedLines, Named
  <1>3. \A l, m \in S : h[l] = h[m] => l = m
    BY <1>1
  <1>4. \A l \in S : l.received \in Nat /\ l.qty \in Nat
    BY DEF LineRow, ProcurementAssumption
  <1>5. /\ Numeric(f, S) /\ Numeric(b, S) /\ Numeric(u, S)
        /\ \A l \in S : k[h[l]] = b[l] /\ v[h[l]] = u[l]
    <2>1. \A l \in S : b[l] \in Nat /\ f[l] \in Nat /\ u[l] \in Nat
      BY <1>4, BookedIs DEF LineRow
    <2>2. \A l \in S : k[h[l]] = b[l] /\ v[h[l]] = u[l]
      <3> HIDE DEF T
      <3> QED
        BY <1>1
    <2> HIDE DEF h, f, b, k, u, v, T
    <2> QED
      BY <2>1, <2>2 DEF Numeric
  <1>6. /\ ReceivedOf(S) = SumFunctionOnSet(f, S) /\ ReceivedOf(T) = SumFunctionOnSet(k, T)
        /\ OrderedOf(S) = SumFunctionOnSet(u, S) /\ OrderedOf(T) = SumFunctionOnSet(v, T)
    BY ColumnsAre
  <1>7. \A c \in S : c.id = n => /\ b[c] = f[c] + q /\ f[c] \in Nat /\ b[c] \in Int
                                 /\ \A l \in S \ {c} : f[l] = b[l]
    BY <1>4, BookedIs
  <1> HIDE DEF h, f, b, k, u, v, T
  <1>8. /\ IsFiniteSet(T) /\ SumFunctionOnSet(k, T) = SumFunctionOnSet(b, S)
        /\ SumFunctionOnSet(v, T) = SumFunctionOnSet(u, S)
    <2>1. IsFiniteSet(T) /\ SumFunctionOnSet(k, T) = SumFunctionOnSet(b, S)
      BY <1>2, <1>3, <1>5, SumRenamed
    <2>2. SumFunctionOnSet(v, T) = SumFunctionOnSet(u, S)
      BY <1>2, <1>3, <1>5, SumRenamed
    <2> QED
      BY <2>1, <2>2
  <1>9. ASSUME NEW c \in S, c.id = n
        PROVE  SumFunctionOnSet(b, S) = SumFunctionOnSet(f, S) + q
    <2>1. SumFunctionOnSet(b, S) = SumFunctionOnSet(f, S) - f[c] + b[c]
      BY <1>5, <1>7, <1>9, SumChangesAt
    <2>2. SumFunctionOnSet(f, S) \in Int
      BY <1>5, SumIsInt
    <2> QED
      BY <1>7, <1>9, <2>1, <2>2
  <1> QED
    BY <1>6, <1>8, <1>9 DEF T

LEMMA DeliveryIsNat ==
  ASSUME ProcurementAssumption, NEW d \in Deliveries \cup {<<>>}
  PROVE  SumFunction(d) \in Nat /\ (Len(d) = 1 => SumFunction(d) = d[1])
  <1>1. d \in Seq(Nat) /\ DOMAIN d = 1..Len(d) /\ Len(d) \in Nat
    <2>1. CASE d = <<>>
      BY <2>1
    <2>2. CASE d \in Deliveries
      BY <2>2 DEF ProcurementAssumption
    <2> QED
      BY <2>1, <2>2
  <1>2. IsFiniteSet(DOMAIN d)
    BY <1>1, FS_Interval
  <1>3. \A n \in DOMAIN d : d[n] \in Nat
    BY <1>1
  <1>4. SumFunction(d) = SumFunctionOnSet(d, DOMAIN d)
    BY DEF SumFunction
  <1>5. SumFunction(d) \in Nat
    BY <1>2, <1>3, <1>4, SumIsNat
  <1>6. ASSUME Len(d) = 1 PROVE SumFunction(d) = d[1]
    <2>1. DOMAIN d = {1} /\ d[1] \in Int
      BY <1>1, <1>3, <1>6
    <2> QED
      BY <1>4, <2>1, SumOfOne
  <1> QED
    BY <1>5, <1>6

\* Receipts that are not confirmed do not count.
LEMMA DeliveredSame ==
  ASSUME NEW grns, NEW next, NEW n,
         \A g \in Receipts : /\ next[g].status = "CONFIRMED" <=> grns[g].status = "CONFIRMED"
                             /\ next[g].status = "CONFIRMED" =>
                                  next[g].line = grns[g].line /\ next[g].qty = grns[g].qty
  PROVE  ConfirmedFor(next, n) = ConfirmedFor(grns, n) /\ DeliveredBy(next, n) = DeliveredBy(grns, n)
  <1>1. ConfirmedFor(next, n) = ConfirmedFor(grns, n)
    BY DEF ConfirmedFor
  <1>2. \A g \in ConfirmedFor(grns, n) : next[g].qty = grns[g].qty
    BY DEF ConfirmedFor
  <1> QED
    BY <1>1, <1>2 DEF DeliveredBy

\* A receipt that is confirmed counts on its line.
LEMMA DeliveredMore ==
  ASSUME ProcurementAssumption, NEW grns, NEW next, NEW n, NEW c \in Receipts,
         \A g \in Receipts : grns[g].qty \in Deliveries \cup {<<>>},
         IsFiniteSet(ConfirmedFor(grns, n)),
         grns[c].status # "CONFIRMED", next[c].status = "CONFIRMED",
         next[c].line = grns[c].line, next[c].qty = grns[c].qty,
         \A g \in Receipts \ {c} : next[g] = grns[g]
  PROVE  /\ ConfirmedFor(grns, n) \subseteq ConfirmedFor(next, n)
         /\ n = grns[c].line => c \in ConfirmedFor(next, n)
         /\ DeliveredBy(next, n) =
              DeliveredBy(grns, n) + IF n = grns[c].line THEN SumFunction(grns[c].qty) ELSE 0
  <1> DEFINE R == ConfirmedFor(grns, n)
             N == ConfirmedFor(next, n)
             f == [g \in R |-> SumFunction(grns[g].qty)]
             k == [g \in N |-> SumFunction(next[g].qty)]
  <1>1. /\ DeliveredBy(grns, n) = SumFunctionOnSet(f, R)
        /\ DeliveredBy(next, n) = SumFunctionOnSet(k, N)
    BY DEF DeliveredBy, SumFunction
  <1>2. /\ c \notin R /\ R \subseteq N /\ (n = grns[c].line => N = R \cup {c})
        /\ n # grns[c].line => N = R
    BY DEF ConfirmedFor
  <1>3. R \subseteq Receipts
    BY DEF ConfirmedFor
  <1> HIDE DEF R, N
  <1>4. \A g \in R : f[g] = k[g] /\ f[g] \in Nat
    <2>1. \A g \in Receipts : SumFunction(grns[g].qty) \in Nat
      BY DeliveryIsNat
    <2>2. \A g \in R : next[g].qty = grns[g].qty
      BY <1>2, <1>3
    <2> QED
      BY <1>2, <1>3, <2>1, <2>2
  <1>5. n = grns[c].line => k[c] = SumFunction(grns[c].qty) /\ k[c] \in Nat
    <2>1. SumFunction(grns[c].qty) \in Nat
      BY DeliveryIsNat
    <2> QED
      BY <1>2, <2>1
  <1> HIDE DEF f, k
  <1>6. Numeric(f, R) /\ Numeric(k, R) /\ IsFiniteSet(R)
    BY <1>4 DEF Numeric, R
  <1>7. SumFunctionOnSet(f, R) = SumFunctionOnSet(k, R) /\ SumFunctionOnSet(f, R) \in Int
    BY <1>4, <1>6, SumAgrees, SumIsInt
  <1>8. CASE n = grns[c].line
    <2>1. SumFunctionOnSet(k, R \cup {c}) = k[c] + SumFunctionOnSet(k, R)
      BY <1>2, <1>5, <1>6, <1>8, SumWith
    <2>2. k[c] = SumFunction(grns[c].qty) /\ k[c] \in Nat /\ N = R \cup {c}
      BY <1>2, <1>5, <1>8
    <2>3. DeliveredBy(next, n) = DeliveredBy(grns, n) + SumFunction(grns[c].qty)
      BY <1>1, <1>7, <2>1, <2>2
    <2> QED
      BY <1>2, <1>8, <2>2, <2>3 DEF R, N
  <1>9. CASE n # grns[c].line
    BY <1>1, <1>2, <1>7, <1>9 DEF R, N
  <1> QED
    BY <1>8, <1>9

-----------------------------------------------------------------------------
LEMMA QInit == ProcurementInit => QInv
  <1> SUFFICES ASSUME ProcurementInit PROVE QInv
    OBVIOUS
  <1> USE ProcurementAssumption
  <1>1. {g \in Receipts : receipt[g] # NoReceipt} = {}
    BY DEF ProcurementInit
  <1>2. RowsCount
    <2>1. IsFiniteSet(lines) /\ IsFiniteSet({g \in Receipts : receipt[g] # NoReceipt})
      BY <1>1, FS_EmptySet DEF ProcurementInit
    <2> QED
      BY <2>1 DEF ProcurementInit, RowsCount
  <1>3. LinesKnown /\ WithinOrderWhenSerialized
    BY DEF ProcurementInit, LinesKnown, WithinOrderWhenSerialized
  <1>4. ReceivedMatchesReceipts
    <2>1. lines = {} /\ stocked = 0
      BY DEF ProcurementInit
    <2>2. ReceivedOf({}) = 0
      BY ColumnsAre, SumOfNothing
    <2>3. SumFunction([l \in lines |-> l.received]) = 0
      BY <2>1, <2>2 DEF ReceivedOf
    <2> QED
      BY <2>1, <2>3 DEF ReceivedMatchesReceipts
  <1>5. TotalMatchesLines
    <2>1. \A o : LinesOf(o) = {}
      BY DEF ProcurementInit, LinesOf
    <2>2. \A o : SumFunction([l \in LinesOf(o) |-> l.qty]) = 0
      BY <2>1, OrderedOfNothing DEF OrderedOf
    <2> QED
      BY <2>2 DEF ProcurementInit, TotalMatchesLines
  <1>6. \A r \in Storekeepers : TaskAlone(r)
    BY DEF ProcurementInit, TaskAlone
  <1> QED
    BY <1>2, <1>3, <1>4, <1>5, <1>6 DEF QInv

\* Which order a request is about.
LEMMA OrderOfTask ==
  ASSUME OInv, QInv, NEW r \in Storekeepers, task[r] # "idle"
  PROVE  \/ /\ task[r] = "confirm" /\ subject[r] \in Receipts
            /\ OrderOf(subject[r]) = receipt[subject[r]].order
            /\ receipt[subject[r]] # NoReceipt
         \/ /\ task[r] # "confirm" /\ subject[r] \in Orders /\ subject[r] \notin Receipts
            /\ OrderOf(subject[r]) = subject[r]
            /\ orderStatus[subject[r]] # "NONE"
  <1>1. TaskKnows(r) /\ TaskAlone(r) /\ task[r] \in OrderSteps
    BY DEF OInv, TasksType, QInv
  <1> QED
    BY <1>1, ProcurementAssumption DEF TaskKnows, TaskAlone, OrderSteps, OrderOf

\* The order a request is about is not a new one.
LEMMA OrderOfTaskKnown ==
  ASSUME OInv, QInv, NEW r \in Storekeepers, task[r] # "idle"
  PROVE  /\ OrderOf(subject[r]) \in Orders
         /\ orderStatus[OrderOf(subject[r])] # "NONE"
  <1>1. \A g \in Receipts : receipt[g] # NoReceipt =>
          receipt[g].order \in Orders /\ orderStatus[receipt[g].order] = "APPROVED"
    BY DEF OInv, ReceiptsAgainstApproved, RowsType, Ids, LinesOf
  <1> QED
    BY <1>1, OrderOfTask

\* What a step leaves to the requests it ends or does not move.
LEMMA TasksStayAlone ==
  ASSUME OInv, QInv, ReceiptsAgainstApproved', LinesKnown', created' \in Nat, created <= created',
         \A o \in Orders : orderStatus[o] # "NONE" => orderStatus'[o] # "NONE",
         \A g \in Receipts : receipt[g] # NoReceipt =>
           /\ receipt'[g] # NoReceipt
           /\ receipt'[g].order = receipt[g].order /\ receipt'[g].line = receipt[g].line
           /\ receipt'[g].qty = receipt[g].qty,
         \A l \in lines' : (\E k \in lines : k.id = l.id /\ k.order = l.order) \/ l.id > created,
         \A q \in Storekeepers :
           \/ task'[q] = "idle" /\ linesSeen'[q] = {}
           \/ /\ task'[q] = task[q] /\ subject'[q] = subject[q] /\ linesSeen'[q] = linesSeen[q]
              /\ task[q] # "idle" /\ OrderOf(subject[q]) \in SerialOrders =>
                   \A l \in lines' : l.order = OrderOf(subject[q]) => l \in lines
  PROVE  \A q \in Storekeepers : TaskAlone(q)'
  <1> SUFFICES ASSUME NEW r \in Storekeepers PROVE TaskAlone(r)'
    OBVIOUS
  <1>0. created \in Nat
    BY DEF OInv, RowsType
  <1>1. CASE task'[r] = "idle" /\ linesSeen'[r] = {}
    BY <1>1 DEF TaskAlone
  <1>2. CASE task[r] = "idle" /\ task'[r] = task[r] /\ linesSeen'[r] = linesSeen[r]
    <2>1. linesSeen[r] \subseteq 1..created
      BY DEF QInv, TaskAlone
    <2> QED
      BY <1>0, <1>2, <2>1 DEF TaskAlone
  <1>3. CASE /\ task'[r] # "idle"
             /\ task'[r] = task[r] /\ subject'[r] = subject[r] /\ linesSeen'[r] = linesSeen[r]
             /\ OrderOf(subject[r]) \in SerialOrders =>
                  \A l \in lines' : l.order = OrderOf(subject[r]) => l \in lines
    <2>1. ASSUME NEW q \in Storekeepers, task'[q] # "idle"
          PROVE  /\ task[q] # "idle" /\ subject'[q] = subject[q]
                 /\ OrderOf(subject[q])' = OrderOf(subject[q])
      <3>1. task[q] # "idle" /\ subject'[q] = subject[q]
        BY <2>1
      <3>2. CASE subject[q] \in Receipts
        <4>1. receipt[subject[q]] # NoReceipt
          BY <3>1, <3>2, OrderOfTask
        <4>2. receipt'[subject[q]].order = receipt[subject[q]].order
          BY <3>2, <4>1
        <4> QED
          BY <3>1, <3>2, <4>2 DEF OrderOf
      <3>3. CASE subject[q] \notin Receipts
        BY <3>1, <3>3 DEF OrderOf
      <3> QED
        BY <3>1, <3>2, <3>3
    <2>2. /\ TaskAlone(r) /\ linesSeen[r] \subseteq 1..created
          /\ OrderOf(subject[r])' = OrderOf(subject[r])
      BY <1>3, <2>1 DEF QInv, TaskAlone
    <2>3. /\ task'[r] \in {"update", "replace"} => orderStatus'[subject'[r]] # "NONE"
          /\ task'[r] = "confirm" => receipt'[subject'[r]] # NoReceipt
      BY <1>3, OrderOfTask
    <2>4. task'[r] = "replace" => \A l \in lines' : l.id \in linesSeen'[r] => l.order = subject'[r]
      BY <1>0, <1>3, <2>2 DEF TaskAlone
    <2>5. linesSeen'[r] \subseteq 1..created'
      BY <1>0, <1>3, <2>2
    <2>6. ASSUME OrderOf(subject[r]) \in SerialOrders
          PROVE  /\ \A q \in Storekeepers :
                      task'[q] # "idle" /\ OrderOf(subject[q])' = OrderOf(subject[r])' => q = r
                 /\ task'[r] = "replace" => \A l \in LinesOf(subject[r])' : l.id \in linesSeen'[r]
                 /\ task'[r] = "confirm" => WithinOrder(subject[r])'
      <3>1. \A q \in Storekeepers :
              task'[q] # "idle" /\ OrderOf(subject[q])' = OrderOf(subject[r])' => q = r
        BY <1>3, <2>1, <2>2, <2>6 DEF TaskAlone
      <3>2. ASSUME task'[r] = "replace" PROVE \A l \in LinesOf(subject[r])' : l.id \in linesSeen'[r]
        <4>1. OrderOf(subject[r]) = subject[r]
          BY <1>3, <3>2, OrderOfTask
        <4> QED
          BY <1>3, <2>2, <2>6, <3>2, <4>1 DEF LinesOf, TaskAlone
      <3>3. ASSUME task'[r] = "confirm" PROVE WithinOrder(subject[r])'
        <4> PICK g : g = subject[r]
          OBVIOUS
        <4>1. /\ subject'[r] = g /\ g \in Receipts /\ OrderOf(g) = receipt[g].order
              /\ receipt[g] # NoReceipt /\ WithinOrder(g)
          BY <1>3, <2>2, <2>6, <3>3, OrderOfTask DEF TaskAlone
        <4>2. /\ receipt'[g] # NoReceipt
              /\ receipt'[g].order = receipt[g].order /\ receipt'[g].line = receipt[g].line
              /\ receipt'[g].qty = receipt[g].qty
          BY <4>1
        <4>3. PICK k \in lines' : k.order = receipt[g].order /\ k.id = receipt[g].line
          BY <4>1, <4>2 DEF ReceiptsAgainstApproved, Ids, LinesOf
        <4>4. \A l \in lines' : l.id = receipt[g].line => l \in lines
          BY <1>3, <2>6, <4>1, <4>3 DEF LinesKnown
        <4> QED
          BY <4>1, <4>2, <4>4 DEF WithinOrder
      <3> QED
        BY <3>1, <3>2, <3>3
    <2> QED
      BY <1>3, <2>2, <2>3, <2>4, <2>5, <2>6 DEF TaskAlone
  <1> QED
    BY <1>1, <1>2, <1>3

\* Receipts come, or are cancelled, and orders move on: the lines stay.
LEMMA LinesStand ==
  ASSUME OInv, QInv, UNCHANGED <<lines, total, created, stocked>>,
         \A o \in Orders : orderStatus[o] # "NONE" => orderStatus'[o] # "NONE",
         \A g \in Receipts : /\ receipt'[g].status = "CONFIRMED" <=> receipt[g].status = "CONFIRMED"
                             /\ receipt'[g].status = "CONFIRMED" =>
                                  /\ receipt'[g].line = receipt[g].line
                                  /\ receipt'[g].qty = receipt[g].qty,
         NEW c, \A g \in Receipts : g # c => receipt'[g] = receipt[g]
  PROVE  /\ RowsCount' /\ LinesKnown'
         /\ ReceivedMatchesReceipts' /\ TotalMatchesLines' /\ WithinOrderWhenSerialized'
  <1>1. RowsCount'
    <2> DEFINE old == {g \in Receipts : receipt[g] # NoReceipt}
               new == {g \in Receipts : receipt'[g] # NoReceipt}
    <2>1. IsFiniteSet(old \cup {c})
      BY FS_AddElement DEF QInv, RowsCount
    <2>2. new \subseteq old \cup {c}
      OBVIOUS
    <2>3. IsFiniteSet(new)
      BY <2>1, <2>2, FS_Subset
    <2>4. {g \in Receipts : receipt[g] # NoReceipt}' = new
      BY DEF NoReceipt
    <2> HIDE DEF new
    <2> QED
      BY <2>3, <2>4 DEF QInv, RowsCount
  <1>2. LinesKnown'
    BY DEF QInv, LinesKnown, RowsCount, LineRow
  <1>3. \A n : /\ ConfirmedFor(receipt', n) = ConfirmedFor(receipt, n)
               /\ DeliveredBy(receipt', n) = DeliveredBy(receipt, n)
    BY DeliveredSame
  <1>4. ReceivedMatchesReceipts'
    BY <1>3 DEF QInv, ReceivedMatchesReceipts, Confirmed, QtyOf, DeliveredBy, ConfirmedFor
  <1>5. TotalMatchesLines'
    BY DEF QInv, TotalMatchesLines, LinesOf
  <1>6. WithinOrderWhenSerialized'
    <2>1. \A n : \A g \in ConfirmedFor(receipt, n) : receipt'[g].qty = receipt[g].qty
      BY DEF ConfirmedFor
    <2> QED
      BY <1>3, <2>1 DEF QInv, WithinOrderWhenSerialized, Confirmed, ConfirmedFor
  <1> QED
    BY <1>1, <1>2, <1>4, <1>5, <1>6

LEMMA NothingDelivered ==
  ASSUME NEW grns, NEW n, ConfirmedFor(grns, n) = {}
  PROVE  DeliveredBy(grns, n) = 0
  <1> DEFINE f == [g \in ConfirmedFor(grns, n) |-> SumFunction(grns[g].qty)]
  <1>1. DOMAIN f = {} /\ DeliveredBy(grns, n) = SumFunction(f)
    BY DEF DeliveredBy
  <1> HIDE DEF f
  <1> QED
    BY <1>1, SumOfNothing DEF SumFunction

\* What the invariant says of the receipts, in these terms.
LEMMA DeliveredIsReceived ==
  ASSUME QInv
  PROVE  /\ \A l \in lines : l.received = DeliveredBy(receipt, l.id)
         /\ stocked = ReceivedOf(lines)
         /\ \A o \in SerialOrders : total[o] = OrderedOf(LinesOf(o))
  BY DEF QInv, ReceivedMatchesReceipts, TotalMatchesLines, Confirmed, QtyOf, DeliveredBy,
         ConfirmedFor, ReceivedOf, OrderedOf

\* The lines of an order are replaced by a new one.
LEMMA LinesReplaced ==
  ASSUME OInv, QInv, NEW o \in Orders, NEW q \in Quantities, NEW gone \in SUBSET lines,
         lines' = (lines \ gone) \cup {NewLine(o, q)},
         created < MaxLines, created' = created + 1,
         total' = [total EXCEPT ![o] = q],
         UNCHANGED <<receipt, stocked>>,
         \A p \in Orders : orderStatus[p] # "NONE" => orderStatus'[p] # "NONE",
         orderStatus'[o] # "NONE",
         \A l \in gone : l.order = o /\ \A g \in Receipts : l.id # receipt[g].line,
         o \in SerialOrders => LinesOf(o) \subseteq gone
  PROVE  /\ RowsCount' /\ LinesKnown'
         /\ ReceivedMatchesReceipts' /\ TotalMatchesLines' /\ WithinOrderWhenSerialized'
  <1> USE ProcurementAssumption
  <1> DEFINE new == NewLine(o, q)
  <1>1. /\ new \in LineRow /\ new.id = created + 1 /\ new.order = o /\ new.qty = q
        /\ new.received = 0 /\ created \in Nat /\ q \in Nat
    BY DEF NewLine, LineRow, OInv, RowsType
  <1>2. lines' = (lines \ gone) \cup {new}
    OBVIOUS
  <1> HIDE DEF new
  <1>3. /\ \A l \in lines : l \in LineRow /\ l.id # new.id
        /\ new \notin lines /\ IsFiniteSet(lines)
    BY <1>1 DEF OInv, LinesAreNumbered, QInv, RowsCount
  <1>4. RowsCount'
    <2>1. IsFiniteSet(lines')
      <3>1. IsFiniteSet(lines \ gone)
        BY <1>3, FS_Subset
      <3> QED
        BY <1>2, <3>1, FS_AddElement
    <2>2. \A l \in lines' : l \in LineRow
      BY <1>1, <1>2, <1>3
    <2>3. total' \in [Orders -> Quantities \cup {0}] /\ created' \in 0..MaxLines
      BY <1>1 DEF QInv, RowsCount
    <2>4. {g \in Receipts : receipt[g] # NoReceipt}' = {g \in Receipts : receipt[g] # NoReceipt}
      BY DEF NoReceipt
    <2> QED
      BY <2>1, <2>2, <2>3, <2>4 DEF QInv, RowsCount
  <1>5. LinesKnown'
    BY <1>1, <1>2, <1>3 DEF QInv, LinesKnown, LineRow
  <1>6. \A l \in gone \cup {new} : DeliveredBy(receipt, l.id) = 0
    <2>1. \A g \in Receipts : receipt[g] # NoReceipt => receipt[g].line # new.id
      BY <1>1 DEF OInv, ReceiptsAgainstApproved, Ids, LinesOf, LinesAreNumbered
    <2>2. \A l \in gone \cup {new} : ConfirmedFor(receipt, l.id) = {}
      BY <2>1 DEF ConfirmedFor, NoReceipt
    <2> QED
      BY <2>2, NothingDelivered
  <1>7. ReceivedMatchesReceipts'
    <2>1. \A l \in lines' : l.received = DeliveredBy(receipt, l.id)
      <3>1. \A l \in lines : l.received = DeliveredBy(receipt, l.id)
        BY DeliveredIsReceived
      <3>2. new.received = DeliveredBy(receipt, new.id)
        BY <1>1, <1>6
      <3> QED
        BY <1>2, <3>1, <3>2
    <2>2. ReceivedOf(lines') = ReceivedOf(lines)
      <3>1. \A l \in lines : l.received \in Nat
        BY <1>3 DEF LineRow
      <3>2. \A l \in gone : l.received = 0
        BY <1>6, DeliveredIsReceived
      <3>3. ReceivedOf((lines \ gone) \cup {new}) = ReceivedOf(lines)
        BY <1>1, <1>3, <3>1, <3>2, ReceivedOfReplaced
      <3> QED
        BY <1>2, <3>3
    <2>3. stocked' = ReceivedOf(lines')
      BY <2>2, DeliveredIsReceived
    <2> QED
      BY <2>1, <2>3 DEF ReceivedMatchesReceipts, Confirmed, QtyOf, DeliveredBy, ConfirmedFor,
                        ReceivedOf
  <1>8. TotalMatchesLines'
    <2>1. ASSUME NEW p \in SerialOrders
          PROVE  total'[p] = OrderedOf(LinesOf(p)')
      <3>1. CASE p = o
        <4>1. LinesOf(p)' = {new}
          BY <1>1, <1>2, <3>1 DEF LinesOf
        <4>2. OrderedOf({new}) = q
          BY <1>1, OrderedOfOne
        <4> QED
          BY <3>1, <4>1, <4>2 DEF QInv, RowsCount
      <3>2. CASE p # o
        <4>1. LinesOf(p)' = LinesOf(p)
          BY <1>1, <1>2, <3>2 DEF LinesOf
        <4>2. total'[p] = total[p]
          BY <3>2 DEF QInv, RowsCount
        <4> QED
          BY <4>1, <4>2, DeliveredIsReceived
      <3> QED
        BY <3>1, <3>2
    <2> QED
      BY <2>1 DEF TotalMatchesLines, OrderedOf
  <1>9. WithinOrderWhenSerialized'
    BY <1>1, <1>2 DEF QInv, WithinOrderWhenSerialized, Confirmed
  <1> QED
    BY <1>4, <1>5, <1>7, <1>8, <1>9

LEMMA CreateCounts ==
  ASSUME OInv, QInv, OInv', NEW o \in Orders, NEW q \in Quantities, Create(o, q)
  PROVE  QInv'
  <1> USE ProcurementAssumption
  <1>1. /\ orderStatus[o] = "NONE" /\ orderStatus' = [orderStatus EXCEPT ![o] = "DRAFT"]
        /\ created < MaxLines /\ total' = [total EXCEPT ![o] = q]
        /\ lines' = lines \cup {NewLine(o, q)} /\ created' = created + 1
        /\ UNCHANGED <<receipt, stocked, task, subject, linesSeen>>
    BY DEF Create, tasks
  <1>2. \A p \in Orders : orderStatus'[p] = IF p = o THEN "DRAFT" ELSE orderStatus[p]
    BY <1>1 DEF OInv, RowsType
  <1>3. LinesOf(o) = {}
    BY <1>1 DEF QInv, LinesKnown, LinesOf
  <1> PICK gone : gone = {}
    OBVIOUS
  <1>4. /\ gone \in SUBSET lines /\ lines' = (lines \ gone) \cup {NewLine(o, q)}
        /\ \A l \in gone : l.order = o /\ \A g \in Receipts : l.id # receipt[g].line
        /\ LinesOf(o) \subseteq gone
    BY <1>1, <1>3
  <1>5. /\ RowsCount' /\ LinesKnown'
        /\ ReceivedMatchesReceipts' /\ TotalMatchesLines' /\ WithinOrderWhenSerialized'
    <2>1. \A p \in Orders : orderStatus[p] # "NONE" => orderStatus'[p] # "NONE"
      BY <1>2
    <2>2. orderStatus'[o] # "NONE" /\ UNCHANGED <<receipt, stocked>>
      BY <1>1, <1>2
    <2> HIDE DEF LinesOf
    <2> QED
      BY <1>1, <1>4, <2>1, <2>2, LinesReplaced
  <1>6. /\ NewLine(o, q).id = created + 1 /\ NewLine(o, q).order = o /\ created \in Nat
    BY DEF NewLine, OInv, RowsType
  <1>7. \A q1 \in Storekeepers : TaskAlone(q1)'
    <2>1. \A q1 \in Storekeepers : task[q1] # "idle" => OrderOf(subject[q1]) # o
      BY <1>1, OrderOfTaskKnown
    <2>2. \A l \in lines' : \/ \E k \in lines : k.id = l.id /\ k.order = l.order
                            \/ l.id > created
      BY <1>1, <1>6
    <2>3. \A l \in lines' : l.order # o => l \in lines
      BY <1>1, <1>6
    <2>4. ReceiptsAgainstApproved' /\ LinesKnown' /\ created' \in Nat /\ created <= created'
      BY <1>1, <1>5, <1>6 DEF OInv
    <2>5. \A p \in Orders : orderStatus[p] # "NONE" => orderStatus'[p] # "NONE"
      BY <1>2
    <2>6. \A q1 \in Storekeepers :
            /\ task'[q1] = task[q1] /\ subject'[q1] = subject[q1] /\ linesSeen'[q1] = linesSeen[q1]
            /\ task[q1] # "idle" /\ OrderOf(subject[q1]) \in SerialOrders =>
                 \A l \in lines' : l.order = OrderOf(subject[q1]) => l \in lines
      BY <1>1, <2>1, <2>3
    <2> QED
      BY <1>1, <2>2, <2>4, <2>5, <2>6, TasksStayAlone
  <1> QED
    BY <1>5, <1>7 DEF QInv

\* A request that ends leaves the others alone if all it wrote is about its order.
LEMMA OthersStayAlone ==
  ASSUME OInv, QInv, ReceiptsAgainstApproved', LinesKnown', created' \in Nat, created <= created',
         NEW r \in Storekeepers, task[r] # "idle", FinishOrder(r),
         \A o \in Orders : orderStatus[o] # "NONE" => orderStatus'[o] # "NONE",
         \A g \in Receipts : receipt[g] # NoReceipt =>
           /\ receipt'[g] # NoReceipt
           /\ receipt'[g].order = receipt[g].order /\ receipt'[g].line = receipt[g].line
           /\ receipt'[g].qty = receipt[g].qty,
         \A l \in lines' : (\E k \in lines : k.id = l.id /\ k.order = l.order) \/ l.id > created,
         \A l \in lines' : l.order # OrderOf(subject[r]) => l \in lines
  PROVE  \A q \in Storekeepers : TaskAlone(q)'
  <1>1. ASSUME NEW q \in Storekeepers
        PROVE  \/ task'[q] = "idle" /\ linesSeen'[q] = {}
               \/ /\ task'[q] = task[q] /\ subject'[q] = subject[q] /\ linesSeen'[q] = linesSeen[q]
                  /\ task[q] # "idle" /\ OrderOf(subject[q]) \in SerialOrders =>
                       \A l \in lines' : l.order = OrderOf(subject[q]) => l \in lines
    <2>1. CASE q = r
      BY <2>1 DEF OInv, TasksType, FinishOrder, BeginOrder
    <2>2. CASE q # r
      <3>1. task'[q] = task[q] /\ subject'[q] = subject[q] /\ linesSeen'[q] = linesSeen[q]
        BY <2>2 DEF OInv, TasksType, FinishOrder, BeginOrder
      <3>2. task[q] # "idle" /\ OrderOf(subject[q]) \in SerialOrders =>
              OrderOf(subject[q]) # OrderOf(subject[r])
        BY <2>2 DEF QInv, TaskAlone
      <3> QED
        BY <3>1, <3>2
    <2> QED
      BY <2>1, <2>2
  <1> QED
    BY <1>1, TasksStayAlone

LEMMA TaskRollsBackCounts ==
  ASSUME OInv, QInv, NEW r \in Storekeepers, task[r] # "idle", RollbackOrder(r)
  PROVE  QInv'
  <1>1. FinishOrder(r) /\ UNCHANGED <<orderStatus, total, lines, created, receipt, stocked>>
    BY DEF RollbackOrder, orders
  <1>2. /\ RowsCount' /\ LinesKnown'
        /\ ReceivedMatchesReceipts' /\ TotalMatchesLines' /\ WithinOrderWhenSerialized'
    BY <1>1, LinesStand
  <1>3. \A q \in Storekeepers : TaskAlone(q)'
    <2>1. ReceiptsAgainstApproved' /\ created' \in Nat /\ created <= created'
      BY <1>1 DEF OInv, RowsType, ReceiptsAgainstApproved, Ids, LinesOf, NoReceipt
    <2>2. \A l \in lines' : (\E k \in lines : k.id = l.id /\ k.order = l.order) /\ l \in lines
      BY <1>1
    <2> QED
      BY <1>1, <1>2, <2>1, <2>2, OthersStayAlone
  <1> QED
    BY <1>2, <1>3 DEF QInv

LEMMA UpdateCounts ==
  ASSUME OInv, QInv, OInv', NEW r \in Storekeepers, NEW q \in Quantities, UpdateCommit(r, q)
  PROVE  QInv'
  <1> USE ProcurementAssumption
  <1> PICK o : o = subject[r]
    OBVIOUS
  <1> PICK gone : gone = {l \in lines : l.id \in linesSeen[r]}
    OBVIOUS
  <1>1. task[r] = "replace" /\ o \in Orders /\ OrderOf(subject[r]) = o /\ orderStatus[o] # "NONE"
    BY OrderOfTask DEF UpdateCommit
  <1>2. CASE linesSeen[r] \cap Referenced # {}
    BY <1>1, <1>2, TaskRollsBackCounts DEF UpdateCommit
  <1>3. CASE linesSeen[r] \cap Referenced = {}
    <2>1. /\ lines' = {l \in lines : l.id \notin linesSeen[r]} \cup {NewLine(o, q)}
          /\ created < MaxLines /\ created' = created + 1 /\ FinishOrder(r)
          /\ total' = [total EXCEPT ![o] = q]
          /\ UNCHANGED <<orderStatus, receipt, stocked>>
      BY <1>3 DEF UpdateCommit
    <2>2. /\ gone \in SUBSET lines /\ lines' = (lines \ gone) \cup {NewLine(o, q)}
          /\ \A l \in gone : l.order = o /\ \A g \in Receipts : l.id # receipt[g].line
      <3>1. \A l \in lines : l.id \in linesSeen[r] => l.order = o
        BY <1>1 DEF QInv, TaskAlone
      <3>2. \A l \in gone : \A g \in Receipts : l.id # receipt[g].line
        BY <1>3 DEF Referenced
      <3> QED
        BY <2>1, <3>1, <3>2
    <2>3. o \in SerialOrders => LinesOf(o) \subseteq gone
      <3>1. ASSUME o \in SerialOrders PROVE \A l \in LinesOf(o) : l.id \in linesSeen[r]
        BY <1>1, <3>1 DEF QInv, TaskAlone
      <3> QED
        BY <3>1 DEF LinesOf
    <2>4. /\ RowsCount' /\ LinesKnown'
          /\ ReceivedMatchesReceipts' /\ TotalMatchesLines' /\ WithinOrderWhenSerialized'
      <3>1. \A p \in Orders : orderStatus[p] # "NONE" => orderStatus'[p] # "NONE"
        BY <2>1
      <3>2. orderStatus'[o] # "NONE" /\ UNCHANGED <<receipt, stocked>>
        BY <1>1, <2>1
      <3> QED
        BY <1>1, <2>1, <2>2, <2>3, <3>1, <3>2, LinesReplaced
    <2>5. \A q1 \in Storekeepers : TaskAlone(q1)'
      <3>1. /\ NewLine(o, q).id = created + 1 /\ NewLine(o, q).order = o /\ created \in Nat
        BY DEF NewLine, OInv, RowsType
      <3>2. \A l \in lines' : /\ \/ \E k \in lines : k.id = l.id /\ k.order = l.order
                                 \/ l.id > created
                              /\ l.order # o => l \in lines
        BY <2>1, <3>1
      <3>3. ReceiptsAgainstApproved' /\ created' \in Nat /\ created <= created'
        BY <2>1, <3>1 DEF OInv
      <3> QED
        BY <1>1, <2>1, <2>4, <3>2, <3>3, OthersStayAlone
    <2> QED
      BY <2>4, <2>5 DEF QInv
  <1> QED
    BY <1>2, <1>3

LEMMA ReceiveCounts ==
  ASSUME OInv, QInv, OInv', NEW r \in Storekeepers, NEW g \in Receipts, NEW n \in linesSeen[r],
         NEW d \in Deliveries, ReceiveCommit(r, g, n, d)
  PROVE  QInv'
  <1>1. CASE n \notin Ids(lines)
    BY <1>1, TaskRollsBackCounts DEF ReceiveCommit
  <1>2. CASE n \in Ids(lines)
    <2> DEFINE row == [status |-> "DRAFT", order |-> subject[r], line |-> n, qty |-> d]
    <2>1. /\ task[r] = "receive" /\ receipt' = [receipt EXCEPT ![g] = row] /\ FinishOrder(r)
          /\ receipt[g] = NoReceipt
          /\ UNCHANGED <<orderStatus, total, lines, created, stocked>>
      BY <1>2 DEF ReceiveCommit, orders
    <2>2. row.status = "DRAFT"
      OBVIOUS
    <2> HIDE DEF row
    <2>3. \A h \in Receipts : receipt'[h] = IF h = g THEN row ELSE receipt[h]
      BY <2>1 DEF OInv, RowsType
    <2>4. /\ RowsCount' /\ LinesKnown'
          /\ ReceivedMatchesReceipts' /\ TotalMatchesLines' /\ WithinOrderWhenSerialized'
      <3>1. \A h \in Receipts :
              /\ receipt'[h].status = "CONFIRMED" <=> receipt[h].status = "CONFIRMED"
              /\ receipt'[h].status = "CONFIRMED" =>
                   receipt'[h].line = receipt[h].line /\ receipt'[h].qty = receipt[h].qty
        BY <2>1, <2>2, <2>3 DEF NoReceipt
      <3>2. \A h \in Receipts : h # g => receipt'[h] = receipt[h]
        BY <2>3
      <3>3. \A o \in Orders : orderStatus[o] # "NONE" => orderStatus'[o] # "NONE"
        BY <2>1
      <3> QED
        BY <2>1, <3>1, <3>2, <3>3, LinesStand
    <2>5. \A q \in Storekeepers : TaskAlone(q)'
      <3>1. ReceiptsAgainstApproved' /\ created' \in Nat /\ created <= created'
        BY <2>1 DEF OInv, RowsType
      <3>2. \A l \in lines' : (\E k \in lines : k.id = l.id /\ k.order = l.order) /\ l \in lines
        BY <2>1
      <3>3. \A h \in Receipts : receipt[h] # NoReceipt => receipt'[h] = receipt[h]
        BY <2>1, <2>3
      <3> QED
        BY <2>1, <2>4, <3>1, <3>2, <3>3, OthersStayAlone
    <2> QED
      BY <2>4, <2>5 DEF QInv
  <1> QED
    BY <1>1, <1>2

LEMMA CancelReceiptCounts ==
  ASSUME OInv, QInv, OInv', NEW g \in Receipts, CancelReceipt(g)
  PROVE  QInv'
  <1>1. /\ receipt[g].status = "DRAFT"
        /\ receipt' = [receipt EXCEPT ![g].status = "CANCELLED"]
        /\ UNCHANGED <<orderStatus, total, lines, created, stocked, task, subject, linesSeen>>
    BY DEF CancelReceipt, orders, tasks
  <1> DEFINE row == [receipt[g] EXCEPT !.status = "CANCELLED"]
  <1>2. /\ row.status = "CANCELLED" /\ row.order = receipt[g].order /\ row.line = receipt[g].line
        /\ row.qty = receipt[g].qty
    BY DEF OInv, RowsType, ReceiptRow
  <1>3. \A h \in Receipts : receipt'[h] = IF h = g THEN row ELSE receipt[h]
    BY <1>1 DEF OInv, RowsType
  <1> HIDE DEF row
  <1>4. /\ RowsCount' /\ LinesKnown'
        /\ ReceivedMatchesReceipts' /\ TotalMatchesLines' /\ WithinOrderWhenSerialized'
    <2>1. \A h \in Receipts :
            /\ receipt'[h].status = "CONFIRMED" <=> receipt[h].status = "CONFIRMED"
            /\ receipt'[h].status = "CONFIRMED" =>
                 receipt'[h].line = receipt[h].line /\ receipt'[h].qty = receipt[h].qty
      BY <1>1, <1>2, <1>3
    <2>2. \A h \in Receipts : h # g => receipt'[h] = receipt[h]
      BY <1>3
    <2>3. \A o \in Orders : orderStatus[o] # "NONE" => orderStatus'[o] # "NONE"
      BY <1>1
    <2> QED
      BY <1>1, <2>1, <2>2, <2>3, LinesStand
  <1>5. \A q \in Storekeepers : TaskAlone(q)'
    <2>1. ReceiptsAgainstApproved' /\ created' \in Nat /\ created <= created'
      BY <1>1 DEF OInv, RowsType
    <2>2. \A l \in lines' : (\E k \in lines : k.id = l.id /\ k.order = l.order) /\ l \in lines
      BY <1>1
    <2>3. \A h \in Receipts : receipt[h] # NoReceipt =>
            /\ receipt'[h] # NoReceipt
            /\ receipt'[h].order = receipt[h].order /\ receipt'[h].line = receipt[h].line
            /\ receipt'[h].qty = receipt[h].qty
      BY <1>2, <1>3 DEF NoReceipt
    <2>4. \A o \in Orders : orderStatus[o] # "NONE" => orderStatus'[o] # "NONE"
      BY <1>1
    <2> QED
      BY <1>1, <1>4, <2>1, <2>2, <2>3, <2>4, TasksStayAlone
  <1> QED
    BY <1>4, <1>5 DEF QInv

LEMMA TransitionCounts ==
  ASSUME OInv, QInv, OInv', NEW o \in Orders, NEW expected, NEW next \in OrderStatus \ {"NONE"},
         Transition(o, expected, next)
  PROVE  QInv'
  <1>1. /\ orderStatus' = [orderStatus EXCEPT ![o] = next]
        /\ UNCHANGED <<total, lines, created, receipt, stocked, task, subject, linesSeen>>
    BY DEF Transition, tasks
  <1>2. \A p \in Orders : orderStatus[p] # "NONE" => orderStatus'[p] # "NONE"
    BY <1>1 DEF OInv, RowsType
  <1>3. /\ RowsCount' /\ LinesKnown'
        /\ ReceivedMatchesReceipts' /\ TotalMatchesLines' /\ WithinOrderWhenSerialized'
    BY <1>1, <1>2, LinesStand
  <1>4. \A q \in Storekeepers : TaskAlone(q)'
    <2>1. ReceiptsAgainstApproved' /\ created' \in Nat /\ created <= created'
      BY <1>1 DEF OInv, RowsType
    <2>2. \A l \in lines' : (\E k \in lines : k.id = l.id /\ k.order = l.order) /\ l \in lines
      BY <1>1
    <2> QED
      BY <1>1, <1>2, <1>3, <2>1, <2>2, TasksStayAlone
  <1> QED
    BY <1>3, <1>4 DEF QInv

LEMMA ConfirmReceiptCounts ==
  ASSUME OInv, QInv, OInv', NEW r \in Storekeepers, ConfirmReceiptCommit(r)
  PROVE  QInv'
  <1> USE ProcurementAssumption
  <1> PICK g : g = subject[r]
    OBVIOUS
  <1> DEFINE n == receipt[g].line
             q == QtyOf(g)
             o == receipt[g].order
  <1>1. /\ task[r] = "confirm" /\ g \in Receipts /\ OrderOf(subject[r]) = o
        /\ receipt[g] # NoReceipt /\ receipt[g] \in ReceiptRow
    BY OrderOfTask DEF ConfirmReceiptCommit, OInv, RowsType
  <1>2. CASE ~StillDraft(g)
    BY <1>1, <1>2, TaskRollsBackCounts DEF ConfirmReceiptCommit
  <1>3. CASE StillDraft(g)
    <2> DEFINE row == [receipt[g] EXCEPT !.status = "CONFIRMED"]
    <2>1. /\ receipt[g].status = "DRAFT"
          /\ receipt' = [receipt EXCEPT ![g].status = "CONFIRMED"]
          /\ lines' = BookedLines(lines, n, q)
          /\ stocked' = stocked + q
          /\ FinishOrder(r)
          /\ UNCHANGED <<orderStatus, total, created>>
      BY <1>3 DEF ConfirmReceiptCommit, StillDraft, BookedLines, Booked
    <2>2. /\ row.status = "CONFIRMED" /\ row.order = o /\ row.line = n
          /\ row.qty = receipt[g].qty
      BY <1>1 DEF ReceiptRow
    <2>3. \A h \in Receipts : receipt'[h] = IF h = g THEN row ELSE receipt[h]
      BY <2>1 DEF OInv, RowsType
    <2> HIDE DEF row
    <2>4. /\ q \in Nat /\ q = SumFunction(receipt[g].qty)
          /\ Len(receipt[g].qty) = 1 => q = receipt[g].qty[1]
      BY <1>1, DeliveryIsNat DEF QtyOf, ReceiptRow
    <2>5. PICK c \in lines : c.order = o /\ c.id = n
      BY <1>1 DEF OInv, ReceiptsAgainstApproved, Ids, LinesOf
    <2> HIDE DEF q, n, o
    <2>6. /\ IsFiniteSet(lines) /\ (\A l \in lines : l \in LineRow)
          /\ \A l, k \in lines : l.id = k.id => l = k
      BY DEF QInv, RowsCount, LinesKnown
    <2>7. \A l \in lines :
            /\ Booked(l, n, q) \in LineRow /\ Booked(l, n, q).id = l.id
            /\ Booked(l, n, q).order = l.order /\ Booked(l, n, q).qty = l.qty
            /\ Booked(l, n, q).received = l.received + IF l.id = n THEN q ELSE 0
            /\ l.id # n => Booked(l, n, q) = l
      BY <2>4, <2>6, BookedIs
    <2>8. \A k \in lines' : \E l \in lines : k = Booked(l, n, q)
      BY <2>1 DEF BookedLines
    <2>9. RowsCount'
      <3>0. IsFiniteSet(BookedLines(lines, n, q))
        BY <2>4, <2>6, ColumnsBooked
      <3>1. IsFiniteSet(lines') /\ \A l \in lines' : l \in LineRow
        BY <2>1, <2>7, <2>8, <3>0
      <3>2. {h \in Receipts : receipt[h] # NoReceipt}' \subseteq {h \in Receipts : receipt[h] # NoReceipt}
        BY <1>1, <2>3 DEF NoReceipt
      <3>3. IsFiniteSet({h \in Receipts : receipt[h] # NoReceipt}')
        BY <3>2, FS_Subset DEF QInv, RowsCount
      <3>4. stocked' \in Nat
        BY <2>1, <2>4 DEF QInv, RowsCount
      <3> QED
        BY <2>1, <3>1, <3>3, <3>4 DEF QInv, RowsCount
    <2>10. LinesKnown'
      BY <2>1, <2>6, <2>7, <2>8 DEF QInv, LinesKnown
    <2>11. \A m : /\ ConfirmedFor(receipt, m) \subseteq ConfirmedFor(receipt', m)
                  /\ m = n => g \in ConfirmedFor(receipt', m)
                  /\ DeliveredBy(receipt', m) = DeliveredBy(receipt, m) + IF m = n THEN q ELSE 0
      <3>1. \A h \in Receipts : receipt[h].qty \in Deliveries \cup {<<>>}
        BY DEF OInv, RowsType, ReceiptRow
      <3>2. ASSUME NEW m PROVE IsFiniteSet(ConfirmedFor(receipt, m))
        <4>1. ConfirmedFor(receipt, m) \subseteq {h \in Receipts : receipt[h] # NoReceipt}
          BY DEF ConfirmedFor, NoReceipt
        <4> QED
          BY <4>1, FS_Subset DEF QInv, RowsCount
      <3>3. /\ receipt[g].status # "CONFIRMED" /\ receipt'[g].status = "CONFIRMED"
            /\ receipt'[g].line = receipt[g].line /\ receipt'[g].qty = receipt[g].qty
            /\ \A h \in Receipts \ {g} : receipt'[h] = receipt[h]
        BY <1>1, <2>1, <2>2, <2>3 DEF n
      <3> SUFFICES ASSUME NEW m
                   PROVE  /\ ConfirmedFor(receipt, m) \subseteq ConfirmedFor(receipt', m)
                          /\ m = n => g \in ConfirmedFor(receipt', m)
                          /\ DeliveredBy(receipt', m) =
                               DeliveredBy(receipt, m) + IF m = n THEN q ELSE 0
        OBVIOUS
      <3>4. IsFiniteSet(ConfirmedFor(receipt, m))
        BY <3>2
      <3>5. /\ ConfirmedFor(receipt, m) \subseteq ConfirmedFor(receipt', m)
            /\ m = receipt[g].line => g \in ConfirmedFor(receipt', m)
            /\ DeliveredBy(receipt', m) =
                 DeliveredBy(receipt, m)
                 + IF m = receipt[g].line THEN SumFunction(receipt[g].qty) ELSE 0
        BY <1>1, <3>1, <3>3, <3>4, DeliveredMore, SMTT(30)
      <3> QED
        BY <2>4, <3>5 DEF n
    <2>12. ReceivedMatchesReceipts'
      <3>1. ASSUME NEW k \in lines' PROVE k.received = DeliveredBy(receipt', k.id)
        <4>1. PICK l \in lines : k = Booked(l, n, q)
          BY <2>8
        <4>2. l.received = DeliveredBy(receipt, l.id)
          BY DeliveredIsReceived
        <4> QED
          BY <2>7, <2>11, <4>1, <4>2
      <3>2. stocked' = ReceivedOf(lines')
        <4>1. ReceivedOf(BookedLines(lines, n, q)) = ReceivedOf(lines) + q
          BY <2>4, <2>5, <2>6, ColumnsBooked
        <4> QED
          BY <2>1, <4>1, DeliveredIsReceived
      <3> QED
        BY <3>1, <3>2 DEF ReceivedMatchesReceipts, Confirmed, QtyOf, DeliveredBy, ConfirmedFor,
                          ReceivedOf
    <2>13. TotalMatchesLines'
      <3>1. ASSUME NEW p \in SerialOrders PROVE total'[p] = OrderedOf(LinesOf(p)')
        <4>1. PICK P : P = LinesOf(p)
          OBVIOUS
        <4>2. LinesOf(p)' = BookedLines(P, n, q)
          <5>1. LinesOf(p)' = {k \in lines' : k.order = p}
            BY DEF LinesOf
          <5>2. \A k : k \in {m \in lines' : m.order = p} <=> k \in BookedLines(P, n, q)
            BY <2>1, <2>7, <4>1 DEF BookedLines, LinesOf
          <5> QED
            BY <5>1, <5>2
        <4>3. P \subseteq lines
          BY <4>1 DEF LinesOf
        <4>4. IsFiniteSet(P) /\ (\A l \in P : l \in LineRow) /\ \A l, k \in P : l.id = k.id => l = k
          BY <2>6, <4>3, FS_Subset
        <4>5. OrderedOf(BookedLines(P, n, q)) = OrderedOf(P)
          BY <2>4, <4>4, ColumnsBooked
        <4> QED
          BY <2>1, <4>1, <4>2, <4>5, DeliveredIsReceived
      <3> QED
        BY <3>1 DEF TotalMatchesLines, OrderedOf
    <2>14. WithinOrderWhenSerialized'
      <3>1. \A h \in Receipts : receipt'[h].qty = receipt[h].qty
        BY <2>2, <2>3
      <3>2. ASSUME NEW k \in lines', k.order \in SerialOrders,
                   \A h \in ConfirmedFor(receipt', k.id) : Len(receipt'[h].qty) = 1
            PROVE  k.received <= k.qty
        <4>1. PICK l \in lines : k = Booked(l, n, q)
          BY <2>8
        <4>2. CASE l.id = n
          <5>1. l = c /\ k.id = n /\ k.order = o
            BY <2>5, <2>6, <2>7, <4>1, <4>2
          <5>2. Len(receipt[g].qty) = 1
            BY <1>1, <2>11, <3>1, <3>2, <5>1
          <5>3. WithinOrder(g)
            BY <1>1, <3>2, <5>1 DEF QInv, TaskAlone
          <5>4. 1 \in DOMAIN receipt[g].qty
            BY <1>1, <5>2 DEF ReceiptRow
          <5>5. l.received + receipt[g].qty[1] <= l.qty
            BY <4>2, <5>3, <5>4 DEF WithinOrder, n
          <5> QED
            BY <2>4, <2>7, <4>1, <4>2, <5>2, <5>5
        <4>3. CASE l.id # n
          <5>1. k = l
            BY <2>7, <4>1, <4>3
          <5>2. ConfirmedFor(receipt, l.id) \subseteq ConfirmedFor(receipt', k.id)
            BY <2>11, <5>1
          <5>3. \A h \in ConfirmedFor(receipt, l.id) : Len(receipt[h].qty) = 1
            BY <3>1, <3>2, <5>2 DEF ConfirmedFor
          <5> QED
            BY <3>2, <5>1, <5>3 DEF QInv, WithinOrderWhenSerialized, Confirmed, ConfirmedFor
        <4> QED
          BY <4>2, <4>3
      <3> QED
        BY <3>2 DEF WithinOrderWhenSerialized, Confirmed, ConfirmedFor
    <2>15. \A q1 \in Storekeepers : TaskAlone(q1)'
      <3>1. ReceiptsAgainstApproved' /\ created' \in Nat /\ created <= created'
        BY <2>1 DEF OInv, RowsType
      <3>2. ASSUME NEW k \in lines'
            PROVE  /\ \E l \in lines : l.id = k.id /\ l.order = k.order
                   /\ k.order # OrderOf(subject[r]) => k \in lines
        <4>1. PICK l \in lines : k = Booked(l, n, q)
          BY <2>8
        <4>2. l.id = n => l = c
          BY <2>5, <2>6
        <4> QED
          BY <1>1, <2>5, <2>7, <4>1, <4>2 DEF o
      <3>3. \A h \in Receipts : receipt[h] # NoReceipt =>
              /\ receipt'[h] # NoReceipt
              /\ receipt'[h].order = receipt[h].order /\ receipt'[h].line = receipt[h].line
              /\ receipt'[h].qty = receipt[h].qty
        BY <2>2, <2>3 DEF NoReceipt, n, o
      <3>4. \A p \in Orders : orderStatus[p] # "NONE" => orderStatus'[p] # "NONE"
        BY <2>1
      <3> QED
        BY <1>1, <2>1, <2>10, <3>1, <3>2, <3>3, <3>4, OthersStayAlone
    <2> QED
      BY <2>9, <2>10, <2>12, <2>13, <2>14, <2>15 DEF QInv
  <1> QED
    BY <1>2, <1>3

\* A request begins, or reads on, about an order that is its own when serialized.
LEMMA TaskBeginsAlone ==
  ASSUME OInv, QInv, OInv', NEW r \in Storekeepers, NEW step, NEW d, NEW ids,
         BeginOrder(r, step, d, ids), UNCHANGED <<orders, receipt, stocked>>,
         ids \subseteq 1..created,
         step \in {"update", "replace"} => orderStatus[d] # "NONE",
         step = "replace" => \A l \in lines : l.id \in ids <=> l.order = d,
         step = "confirm" => receipt[d] # NoReceipt /\ WithinOrder(d),
         OrderOf(d) \in SerialOrders =>
           \A q \in Storekeepers : q # r /\ task[q] # "idle" => OrderOf(subject[q]) # OrderOf(d)
  PROVE  QInv'
  <1>1. \A q \in Storekeepers : /\ task'[q] = IF q = r THEN step ELSE task[q]
                                /\ subject'[q] = IF q = r THEN d ELSE subject[q]
                                /\ linesSeen'[q] = IF q = r THEN ids ELSE linesSeen[q]
    BY DEF BeginOrder, OInv, TasksType
  <1>2. UNCHANGED <<orderStatus, total, lines, created, receipt, stocked>>
    BY DEF orders
  <1>3. /\ RowsCount' /\ LinesKnown'
        /\ ReceivedMatchesReceipts' /\ TotalMatchesLines' /\ WithinOrderWhenSerialized'
    BY <1>2, LinesStand
  <1>4. \A q \in Storekeepers :
          OrderOf(subject[q])' = IF q = r THEN OrderOf(d) ELSE OrderOf(subject[q])
    BY <1>1, <1>2 DEF OrderOf
  <1>5. \A q \in Storekeepers :
          /\ WithinOrder(subject[q])' <=> IF q = r THEN WithinOrder(d) ELSE WithinOrder(subject[q])
          /\ LinesOf(subject[q])' = IF q = r THEN LinesOf(d) ELSE LinesOf(subject[q])
    BY <1>1, <1>2 DEF WithinOrder, LinesOf
  <1>6. ASSUME NEW q \in Storekeepers PROVE TaskAlone(q)'
    <2>1. TaskAlone(q)
      BY DEF QInv
    <2>2. CASE q = r
      <3>1. OrderOf(d) \in SerialOrders =>
              \A p \in Storekeepers :
                task'[p] # "idle" /\ OrderOf(subject[p])' = OrderOf(d) => p = r
        BY <1>1, <1>4
      <3>2. step = "replace" => \A l \in LinesOf(d) : l.id \in ids
        BY DEF LinesOf
      <3>3. /\ task'[r] = step /\ subject'[r] = d /\ linesSeen'[r] = ids
            /\ OrderOf(subject[r])' = OrderOf(d) /\ LinesOf(subject[r])' = LinesOf(d)
            /\ WithinOrder(subject[r])' <=> WithinOrder(d)
        BY <1>1, <1>4, <1>5
      <3>4. TaskAlone(r)'
        BY <1>2, <3>1, <3>2, <3>3 DEF TaskAlone
      <3> QED
        BY <2>2, <3>4
    <2>3. CASE q # r
      <3>1. task[q] # "idle" /\ OrderOf(subject[q]) \in SerialOrders =>
              \A p \in Storekeepers :
                task'[p] # "idle" /\ OrderOf(subject[p])' = OrderOf(subject[q]) => p = q
        BY <1>1, <1>4, <2>1, <2>3 DEF TaskAlone
      <3> QED
        BY <1>1, <1>2, <1>4, <1>5, <2>1, <2>3, <3>1 DEF TaskAlone
    <2> QED
      BY <2>2, <2>3
  <1> QED
    BY <1>3, <1>6 DEF QInv

LEMMA ReadsCount ==
  ASSUME OInv, QInv, OInv', NEW r \in Storekeepers
  PROVE  /\ \A o \in Orders : UpdateRead(r, o) \/ ReceiveRead(r, o) => QInv'
         /\ \A g \in Receipts : ConfirmReceiptRead(r, g) => QInv'
         /\ UpdateDelete(r) => QInv'
  <1>1. \A o \in Orders : /\ o \notin Receipts /\ OrderOf(o) = o
                          /\ Ids(LinesOf(o)) \subseteq 1..created
                          /\ \A l \in lines : l.id \in Ids(LinesOf(o)) <=> l.order = o
    BY ProcurementAssumption DEF OrderOf, OInv, LinesAreNumbered, Ids, LinesOf
  <1>2. ASSUME NEW d, Free(OrderOf(d))
        PROVE  OrderOf(d) \in SerialOrders =>
                 \A q \in Storekeepers : q # r /\ task[q] # "idle" => OrderOf(subject[q]) # OrderOf(d)
    BY <1>2 DEF Free
  <1>3. ASSUME NEW o \in Orders, UpdateRead(r, o) PROVE QInv'
    <2>1. /\ Free(OrderOf(o)) /\ orderStatus[o] # "NONE"
          /\ BeginOrder(r, "update", o, {}) /\ UNCHANGED <<orders, receipt, stocked>>
      BY <1>1, <1>3 DEF UpdateRead
    <2>2. {} \subseteq 1..created
      OBVIOUS
    <2> QED
      BY <1>2, <2>1, <2>2, TaskBeginsAlone
  <1>4. ASSUME NEW o \in Orders, ReceiveRead(r, o) PROVE QInv'
    <2> DEFINE ids == Ids(LinesOf(o))
    <2>1. /\ Free(OrderOf(o))
          /\ BeginOrder(r, "receive", o, ids) /\ UNCHANGED <<orders, receipt, stocked>>
      BY <1>1, <1>4 DEF ReceiveRead
    <2>2. ids \subseteq 1..created
      BY <1>1
    <2> HIDE DEF ids
    <2> QED
      BY <1>2, <2>1, <2>2, TaskBeginsAlone
  <1>5. ASSUME NEW g \in Receipts, ConfirmReceiptRead(r, g) PROVE QInv'
    <2>1. /\ Free(OrderOf(g)) /\ receipt[g] # NoReceipt /\ WithinOrder(g)
          /\ BeginOrder(r, "confirm", g, {}) /\ UNCHANGED <<orders, receipt, stocked>>
      BY <1>5 DEF ConfirmReceiptRead, NoReceipt
    <2>2. {} \subseteq 1..created
      OBVIOUS
    <2> QED
      BY <1>2, <2>1, <2>2, TaskBeginsAlone
  <1>6. ASSUME UpdateDelete(r) PROVE QInv'
    <2> PICK o : o = subject[r]
      OBVIOUS
    <2>1. task[r] = "update" /\ o \in Orders /\ orderStatus[o] # "NONE"
      BY <1>6, OrderOfTask DEF UpdateDelete
    <2> DEFINE ids == Ids(LinesOf(o))
    <2>2. BeginOrder(r, "replace", o, ids) /\ UNCHANGED <<orders, receipt, stocked>>
      BY <1>6 DEF UpdateDelete
    <2>3. ids \subseteq 1..created /\ \A l \in lines : l.id \in ids <=> l.order = o
      BY <1>1, <2>1
    <2>4. OrderOf(o) \in SerialOrders =>
            \A q \in Storekeepers : q # r /\ task[q] # "idle" => OrderOf(subject[q]) # OrderOf(o)
      BY <2>1 DEF QInv, TaskAlone
    <2> HIDE DEF ids
    <2> QED
      BY <2>1, <2>2, <2>3, <2>4, TaskBeginsAlone
  <1> QED
    BY <1>3, <1>4, <1>5, <1>6

LEMMA QNext == OInv /\ QInv /\ [ProcurementNext]_procurementVars => QInv'
  <1> SUFFICES ASSUME OInv, QInv, [ProcurementNext]_procurementVars PROVE QInv'
    OBVIOUS
  <1>0. OInv'
    BY OStepInv
  <1>1. ASSUME NEW o \in Orders, Submit(o) \/ Approve(o) \/ Reject(o) \/ Cancel(o)
        PROVE  QInv'
    <2>1. {"SUBMITTED", "APPROVED", "REJECTED", "CANCELLED"} \subseteq OrderStatus \ {"NONE"}
      BY DEF OrderStatus
    <2> QED
      BY <1>0, <1>1, <2>1, TransitionCounts DEF Submit, Approve, Reject, Cancel
  <1>2. ASSUME NEW r \in Storekeepers, Procuring(r) PROVE QInv'
    <2>1. CASE \/ \E o \in Orders : UpdateRead(r, o) \/ ReceiveRead(r, o)
               \/ \E g \in Receipts : ConfirmReceiptRead(r, g)
               \/ UpdateDelete(r)
      BY <1>0, <2>1, ReadsCount
    <2>2. CASE ConfirmReceiptCommit(r)
      BY <1>0, <2>2, ConfirmReceiptCounts
    <2>3. CASE \E q \in Quantities : UpdateCommit(r, q)
      BY <1>0, <2>3, UpdateCounts
    <2>4. CASE \E g \in Receipts, l \in linesSeen[r], d \in Deliveries : ReceiveCommit(r, g, l, d)
      BY <1>0, <2>4, ReceiveCounts
    <2> QED
      BY <1>2, <2>1, <2>2, <2>3, <2>4 DEF Procuring
  <1>3. CASE UNCHANGED procurementVars
    <2>1. UNCHANGED <<orderStatus, total, lines, created, receipt, stocked, task, subject, linesSeen>>
      BY <1>3 DEF procurementVars, orders, tasks
    <2>2. /\ RowsCount' /\ LinesKnown'
          /\ ReceivedMatchesReceipts' /\ TotalMatchesLines' /\ WithinOrderWhenSerialized'
      BY <2>1, LinesStand
    <2>3. \A r \in Storekeepers : TaskAlone(r)'
      BY <2>1 DEF QInv, TaskAlone, OrderOf, LinesOf, WithinOrder
    <2> QED
      BY <2>2, <2>3 DEF QInv
  <1> QED
    BY <1>0, <1>1, <1>2, <1>3, CreateCounts, CancelReceiptCounts DEF ProcurementNext

LEMMA ProcurementCounts == ProcurementSpec => [](OInv /\ QInv)
  <1>1. ProcurementInit => OInv /\ QInv
    BY OInitInv, QInit
  <1>2. OInv /\ QInv /\ [ProcurementNext]_procurementVars => OInv' /\ QInv'
    BY OStepInv, QNext
  <1> QED
    BY <1>1, <1>2, PTL DEF ProcurementSpec

\* Every column of the orders, the receipts and the requests holds a value of its
\* type; in particular no total and no received quantity is ever negative.
THEOREM ProcurementTypes == ProcurementSpec => []ProcurementTypeOK
  <1>1. OInv /\ QInv => ProcurementTypeOK
    <2> SUFFICES ASSUME OInv, QInv PROVE ProcurementTypeOK
      OBVIOUS
    <2>1. \A l \in lines : /\ l.id \in 1..created /\ l.order \in Orders
                           /\ l.qty \in Quantities /\ l.received \in Nat
      BY DEF QInv, RowsCount, LineRow, OInv, LinesAreNumbered
    <2>2. \A g \in Receipts : /\ receipt[g].status \in {"NONE", "DRAFT", "CONFIRMED", "CANCELLED"}
                              /\ receipt[g].order \in Orders \cup {NoOrder}
                              /\ receipt[g].qty \in Deliveries \cup {<<>>}
      BY DEF OInv, RowsType, ReceiptRow
    <2>3. \A r \in Storekeepers : linesSeen[r] \subseteq 1..created
      BY DEF QInv, TaskAlone
    <2> QED
      BY <2>1, <2>2, <2>3 DEF ProcurementTypeOK, QInv, RowsCount, OInv, RowsType, TasksType
  <1> QED
    BY <1>1, ProcurementCounts, PTL

\* However the confirmations of receipts race (confirmReceipt reads the receipt and
\* updates it later), each one is counted once: receivedQty of a line is what its
\* confirmed receipts deliver, and the stock is what all lines received.
THEOREM ProcurementReceivedMatches == ProcurementSpec => []ReceivedMatchesReceipts
  <1>1. QInv => ReceivedMatchesReceipts
    BY DEF QInv
  <1> QED
    BY <1>1, ProcurementCounts, PTL

\* The total of an order that is not edited twice at once is that of its lines,
\* whatever receipts are booked against them while it is edited.
THEOREM ProcurementTotals == ProcurementSpec => []TotalMatchesLines
  <1>1. QInv => TotalMatchesLines
    BY DEF QInv
  <1> QED
    BY <1>1, ProcurementCounts, PTL

\* confirmReceipt never books more on a line than was ordered, when the requests
\* about its order do not overlap and no receipt names the line twice.
THEOREM ProcurementWithinOrder == ProcurementSpec => []WithinOrderWhenSerialized
  <1>1. QInv => WithinOrderWhenSerialized
    BY DEF QInv
  <1> QED
    BY <1>1, ProcurementCounts, PTL
=============================================================================
