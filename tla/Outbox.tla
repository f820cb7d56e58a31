------------------------------- MODULE Outbox -------------------------------
(***************************************************************************)
(* The transactional outbox: the outbox_events table and the polls of      *)
(* OutboxWorker that reap, claim and dispatch its rows.                    *)
(*                                                                         *)
(* A "worker" is one execution of runOnce().  Several run at once: each    *)
(* API instance polls, and within an instance setInterval starts a poll    *)
(* whether or not the previous one has finished.  One action is one        *)
(* database call, or the start or the end of one handler call, so that     *)
(* two polls interleave between any two of them.                           *)
(*                                                                         *)
(* Time is abstracted to one bit per row.  elapsed[e] says, of a PENDING   *)
(* row, that nextAttemptAt has passed, and of a PROCESSING row, that       *)
(* updatedAt is older than staleProcessingMs.                              *)
(***************************************************************************)
EXTENDS Naturals, FiniteSets

CONSTANTS
    Events,        \* row identities
    Workers,       \* concurrent executions of runOnce()
    AggregateOf,   \* row -> (organizationId, aggregateType, aggregateId, eventType)
    Slow,          \* rows whose handling may outlast staleProcessingMs
    SlowQueries,   \* TRUE when a single database call may outlast it as well
    MaxAttempts,   \* OutboxEvent.maxAttempts
    BatchSize,     \* outbox.batchSize
    MaxAborts,     \* bound on crashes and database errors
    None           \* no current row

ASSUME OutboxAssumption ==
    /\ MaxAttempts \in Nat \ {0}
    /\ BatchSize \in Nat \ {0}
    /\ MaxAborts \in Nat
    /\ Slow \subseteq Events
    /\ SlowQueries \in BOOLEAN
    /\ None \notin Events

VARIABLES
    status,      \* OutboxEvent.status, or "NONE" before the row exists
    attempts,    \* OutboxEvent.attempts
    elapsed,     \* the row's timer has run out (see above)
    pc,          \* where each worker is in runOnce()
    batch,       \* the rows a worker holds from its last findMany
    snap,        \* the attempts column of those rows as it was read
    cur,         \* the row a worker is handling
    delivered,   \* history: rows whose handler returned normally
    strikes,     \* history: failures recorded per row, up to MaxAttempts
    aborts       \* crashes and database errors so far

rows    == <<status, attempts, elapsed>>
workers == <<pc, batch, snap, cur>>
history == <<delivered, strikes>>
vars    == <<rows, workers, history, aborts>>

Status  == {"NONE", "PENDING", "PROCESSING", "DONE", "FAILED"}
Pc      == {"idle", "reaping", "polling", "claiming", "rereading",
            "working", "calling", "succeeded", "failing"}
InFlight == {"PENDING", "PROCESSING"}

-----------------------------------------------------------------------------
(* Reading and writing the table                                           *)

\* A page of at most BatchSize rows of S, in whatever order the index gives.
Page(S) == {T \in SUBSET S : \/ T = S /\ Cardinality(S) <= BatchSize
                             \/ Cardinality(T) = BatchSize}

\* The partial unique index on rows in flight would reject row e.
IndexConflict(e) ==
    \E f \in Events \ {e} : /\ AggregateOf[f] = AggregateOf[e]
                            /\ status[f] \in InFlight

\* Mutant: nothing is ever found to reap.
NoRows    == {}

\* What the reaper and the claim look for.
StaleRows == {e \in Events : status[e] = "PROCESSING" /\ elapsed[e]}
DueRows   == {e \in Events : status[e] = "PENDING" /\ elapsed[e]}

\* The attempts column of the rows of S (0 for rows that are not read).
AttemptsOf(S) == [e \in Events |-> IF e \in S THEN attempts[e] ELSE 0]

\* Mutant: an update by id alone.
Held(w, s)    == batch[w]

\* The rows a worker holds that a statement with status s in its where clause
\* still finds.
StillIn(w, s) == {e \in batch[w] : status[e] = s}

\* Mutant: one attempt too few.
ExhaustedEarly(n) == n + 1 >= MaxAttempts

\* A row with n recorded failures gets no further attempt.
Exhausted(n)      == n >= MaxAttempts

Goto(w, l) == pc' = [pc EXCEPT ![w] = l]
Hold(w, S) == batch' = [batch EXCEPT ![w] = S]

\* The poll is over: the worker forgets every row it held.
EndPoll(w) ==
    /\ Goto(w, "idle")
    /\ Hold(w, {})
    /\ snap' = [snap EXCEPT ![w] = [e \in Events |-> 0]]
    /\ cur' = [cur EXCEPT ![w] = None]

\* The next row of the batch, or the end of the poll when none is left.
NextRow(w) ==
    IF batch[w] = {cur[w]}
    THEN EndPoll(w)
    ELSE /\ Goto(w, "working")
         /\ Hold(w, batch[w] \ {cur[w]})
         /\ cur' = [cur EXCEPT ![w] = None]
         /\ snap' = [snap EXCEPT ![w][cur[w]] = 0]

-----------------------------------------------------------------------------
(* Producers                                                               *)

\* OutboxService.enqueue inside the caller's transaction.  When the index
\* rejects the row the whole transaction rolls back: no step.
Enqueue(e) ==
    /\ status[e] = "NONE"
    /\ ~IndexConflict(e)
    /\ status' = [status EXCEPT ![e] = "PENDING"]
    /\ attempts' = [attempts EXCEPT ![e] = 0]
    /\ elapsed' = [elapsed EXCEPT ![e] = TRUE]
    /\ UNCHANGED <<workers, history, aborts>>

-----------------------------------------------------------------------------
(* reapStaleProcessing                                                     *)

StartPoll(w) ==
    /\ pc[w] = "idle"
    /\ \E S \in Page(StaleRows) :
         /\ Goto(w, IF S = {} THEN "polling" ELSE "reaping")
         /\ Hold(w, S)
         /\ snap' = [snap EXCEPT ![w] = AttemptsOf(S)]
    /\ UNCHANGED <<rows, cur, history, aborts>>

\* The where clause of both updateMany calls tests the status again, but not
\* the age of the row.
ReapStale(w) ==
    LET reaped    == StillIn(w, "PROCESSING")
        exhausted == {e \in reaped : Exhausted(snap[w][e])}
    IN  /\ pc[w] = "reaping"
        /\ status' = [e \in Events |-> IF e \in exhausted THEN "FAILED"
                                       ELSE IF e \in reaped THEN "PENDING"
                                       ELSE status[e]]
        /\ elapsed' = [e \in Events |-> IF e \in reaped THEN e \notin exhausted
                                        ELSE elapsed[e]]
        /\ Goto(w, "polling")
        /\ Hold(w, {})
        /\ snap' = [snap EXCEPT ![w] = AttemptsOf({})]
        /\ UNCHANGED <<attempts, cur, history, aborts>>

-----------------------------------------------------------------------------
(* claimDueEvents                                                          *)

ReadDue(w) ==
    /\ pc[w] = "polling"
    /\ \E S \in Page(DueRows) :
         /\ Goto(w, IF S = {} THEN "idle" ELSE "claiming")
         /\ Hold(w, S)
         /\ snap' = [snap EXCEPT ![w] = AttemptsOf(S)]
    /\ UNCHANGED <<rows, cur, history, aborts>>

Claim(w) ==
    LET claimed == StillIn(w, "PENDING")
    IN  /\ pc[w] = "claiming"
        /\ status' = [e \in Events |-> IF e \in claimed THEN "PROCESSING"
                                       ELSE status[e]]
        /\ elapsed' = [e \in Events |-> IF e \in claimed THEN FALSE ELSE elapsed[e]]
        /\ IF claimed = {}
           THEN EndPoll(w)
           ELSE Goto(w, "rereading") /\ UNCHANGED <<batch, snap, cur>>
        /\ UNCHANGED <<attempts, history, aborts>>

\* The re-read keeps every candidate that is PROCESSING, whoever claimed it.
Reread(w) ==
    LET kept == StillIn(w, "PROCESSING")
    IN  /\ pc[w] = "rereading"
        /\ IF kept = {}
           THEN EndPoll(w)
           ELSE /\ Goto(w, "working")
                /\ Hold(w, kept)
                /\ snap' = [snap EXCEPT ![w] =
                              [e \in Events |-> IF e \in kept THEN snap[w][e] ELSE 0]]
                /\ UNCHANGED cur
        /\ UNCHANGED <<rows, history, aborts>>

-----------------------------------------------------------------------------
(* processRow                                                              *)

Dispatch(w) ==
    /\ pc[w] = "working"
    /\ \E e \in batch[w] : cur' = [cur EXCEPT ![w] = e]
    /\ Goto(w, "calling")
    /\ UNCHANGED <<rows, batch, snap, history, aborts>>

HandlerReturns(w) ==
    /\ pc[w] = "calling"
    /\ delivered' = delivered \cup {cur[w]}
    /\ Goto(w, "succeeded")
    /\ UNCHANGED <<rows, batch, snap, cur, strikes, aborts>>

\* Mutant: the handler gives up without an error.
HandlerSwallows(w) ==
    /\ pc[w] = "calling"
    /\ Goto(w, "succeeded")
    /\ UNCHANGED <<rows, batch, snap, cur, history, aborts>>

\* The handler throws, or no handler is registered for the event type.
HandlerThrows(w) ==
    /\ pc[w] = "calling"
    /\ Goto(w, "failing")
    /\ UNCHANGED <<rows, batch, snap, cur, history, aborts>>

\* Mutant: the whole batch is finalized after its first row.
FinalizeBatch(w) ==
    /\ pc[w] = "succeeded"
    /\ status' = [e \in Events |-> IF e \in batch[w] THEN "DONE" ELSE status[e]]
    /\ elapsed' = [e \in Events |-> elapsed[e] /\ e \notin batch[w]]
    /\ EndPoll(w)
    /\ UNCHANGED <<attempts, history, aborts>>

\* The update that finalizes the row is by id alone.
Finalize(w) ==
    /\ pc[w] = "succeeded"
    /\ status' = [status EXCEPT ![cur[w]] = "DONE"]
    /\ elapsed' = [elapsed EXCEPT ![cur[w]] = FALSE]
    /\ NextRow(w)
    /\ UNCHANGED <<attempts, history, aborts>>

\* The same update fails: the catch block takes a handled event for a failure.
FinalizeFails(w) ==
    /\ pc[w] = "succeeded"
    /\ aborts < MaxAborts
    /\ aborts' = aborts + 1
    /\ Goto(w, "failing")
    /\ UNCHANGED <<rows, batch, snap, cur, history>>

\* The catch block: attempts from the snapshot, update by id alone.  A row
\* rewritten to PENDING can meet the unique index; the error then leaves
\* runOnce() and drops the rest of the batch.
RecordFailure(w) ==
    LET e      == cur[w]
        n      == snap[w][e] + 1
        failed == Exhausted(n)
    IN  /\ pc[w] = "failing"
        /\ IF ~failed /\ IndexConflict(e)
           THEN EndPoll(w) /\ UNCHANGED <<rows, strikes>>
           ELSE /\ status' = [status EXCEPT ![e] = IF failed THEN "FAILED" ELSE "PENDING"]
                /\ attempts' = [attempts EXCEPT ![e] = n]
                /\ elapsed' = [elapsed EXCEPT ![e] = FALSE]
                /\ strikes' = [strikes EXCEPT ![e] = IF @ < MaxAttempts THEN @ + 1 ELSE @]
                /\ NextRow(w)
        /\ UNCHANGED <<delivered, aborts>>

-----------------------------------------------------------------------------
(* The environment                                                         *)

\* The process dies, or a query outside the try block of processRow fails.
Abort(w) ==
    /\ pc[w] # "idle"
    /\ aborts < MaxAborts
    /\ aborts' = aborts + 1
    /\ EndPoll(w)
    /\ UNCHANGED <<rows, history>>

\* A worker that claimed e is in the middle of a query, or is handling its batch.
Querying(e) == \E w \in Workers : e \in batch[w] /\ pc[w] = "rereading"
Handling(e) == \E w \in Workers :
                 e \in batch[w] /\ pc[w] \in {"working", "calling", "succeeded", "failing"}

\* A retry delay passes, or a claimed row grows older than staleProcessingMs.
TimeElapses(e) ==
    /\ status[e] \in InFlight
    /\ ~elapsed[e]
    /\ status[e] = "PROCESSING" => /\ Querying(e) => SlowQueries
                                   /\ Handling(e) => e \in Slow
    /\ elapsed' = [elapsed EXCEPT ![e] = TRUE]
    /\ UNCHANGED <<status, attempts, workers, history, aborts>>

-----------------------------------------------------------------------------
Init ==
    /\ status = [e \in Events |-> "NONE"]
    /\ attempts = [e \in Events |-> 0]
    /\ elapsed = [e \in Events |-> FALSE]
    /\ pc = [w \in Workers |-> "idle"]
    /\ batch = [w \in Workers |-> {}]
    /\ snap = [w \in Workers |-> [e \in Events |-> 0]]
    /\ cur = [w \in Workers |-> None]
    /\ delivered = {}
    /\ strikes = [e \in Events |-> 0]
    /\ aborts = 0

\* The statements of one poll, in program order.
Poll(w) ==
    \/ StartPoll(w) \/ ReapStale(w) \/ ReadDue(w) \/ Claim(w) \/ Reread(w)
    \/ Dispatch(w) \/ HandlerReturns(w) \/ HandlerThrows(w)
    \/ Finalize(w) \/ RecordFailure(w)

Next ==
    \/ \E e \in Events : Enqueue(e) \/ TimeElapses(e)
    \/ \E w \in Workers : Poll(w) \/ FinalizeFails(w) \/ Abort(w)

Spec == Init /\ [][Next]_vars

\* setInterval keeps starting polls, a poll in progress takes its next step
\* (every handler has a time limit), and time passes.  Nothing is assumed of
\* producers, of crashes or of what a handler returns.
Fairness ==
    /\ \A w \in Workers : WF_vars(Poll(w))
    /\ \A e \in Events : WF_vars(TimeElapses(e))

FairSpec == Spec /\ Fairness

-----------------------------------------------------------------------------
TypeOK ==
    /\ status \in [Events -> Status]
    /\ attempts \in [Events -> 0..MaxAttempts]
    /\ elapsed \in [Events -> BOOLEAN]
    /\ pc \in [Workers -> Pc]
    /\ batch \in [Workers -> SUBSET Events]
    /\ snap \in [Workers -> [Events -> 0..MaxAttempts]]
    /\ cur \in [Workers -> Events \cup {None}]
    /\ delivered \subseteq Events
    /\ strikes \in [Events -> 0..MaxAttempts]
    /\ aborts \in 0..MaxAborts

\* A row that can still be claimed or reaped has attempts left, and a row that
\* was given up has none, although attempts is written from snapshots that may
\* be stale (processRow, reapStaleProcessing).  In particular the reaper never
\* finds an exhausted row.
AttemptsBudget ==
    \A e \in Events :
      /\ status[e] \in InFlight => attempts[e] < MaxAttempts
      /\ status[e] = "FAILED" => attempts[e] = MaxAttempts

\* No event is given up before MaxAttempts failures of it were recorded: two
\* workers that fail on the same snapshot lose an increment, never gain one.
NoEarlyGiveUp ==
    \A e \in Events : status[e] = "FAILED" => strikes[e] = MaxAttempts

\* A DONE row was handled to completion by somebody, even when other workers
\* crashed on it, failed on it or had it reaped from under them.
DoneWasDelivered ==
    \A e \in Events : status[e] = "DONE" => e \in delivered

\* Two rows of one aggregate and event type are never in flight together, in
\* particular not after a late failure puts a finished row back to PENDING.
InFlightUnique ==
    \A e, f \in Events : /\ e # f
                         /\ AggregateOf[e] = AggregateOf[f]
                         /\ status[e] \in InFlight
                         => status[f] \notin InFlight

\* A terminal row is rewritten only by a worker that was handling that row:
\* a claim or a reap working from an old read leaves it alone.
TerminalRowsOnlyLeftByHandler ==
    [][\A e \in Events :
         /\ status[e] \in {"DONE", "FAILED"}
         /\ status'[e] # status[e]
         => \E w \in Workers : pc[w] \in {"succeeded", "failing"} /\ cur[w] = e]_vars

\* The outbox implements the promise of Delivery.tla, liveness included.
D == INSTANCE Delivery WITH accepted <- {e \in Events : status[e] # "NONE"}

DeliverySpec == D!DSpec

\* Every row in flight is eventually DONE or FAILED, whatever crashes (the
\* reaper finds it) and whatever drops it from a batch.
EventuallySettled ==
    \A e \in Events : status[e] \in InFlight ~> status[e] \in {"DONE", "FAILED"}

-----------------------------------------------------------------------------
(* What a comment of the repository says and the code does not do.         *)

\* "concurrent workers (multiple API instances) never process the same row
\* twice" (OutboxWorker's class comment).
ExclusiveDispatch ==
    \A v, w \in Workers : /\ v # w
                          /\ pc[v] = "calling" /\ pc[w] = "calling"
                          => cur[v] # cur[w]
=============================================================================
