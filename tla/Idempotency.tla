---------------------------- MODULE Idempotency ----------------------------
(***************************************************************************)
(* IdempotencyInterceptor: the claim row of an Idempotency-Key, from the   *)
(* moment a write request arrives until it is answered.                    *)
(*                                                                         *)
(* An attempt is one HTTP request that carries a key; a retry, or the      *)
(* second half of a double-click, is another attempt with the same key.    *)
(* The handler behind the interceptor commits its effect in a transaction  *)
(* of its own, before the response is stored in the claim row.             *)
(***************************************************************************)
EXTENDS Naturals, FiniteSets

CONSTANTS
    Attempts,    \* HTTP requests, each handled once
    Keys,        \* Idempotency-Key values (of one organization)
    Targets,     \* values of the :id parameter of the route
    Bodies,      \* request bodies
    Calm,        \* keys whose attempts do not overlap, expire or meet a fault
    MaxFaults,   \* bound on process crashes and failed updates
    None

ASSUME IdempotencyAssumption ==
    /\ Calm \subseteq Keys
    /\ MaxFaults \in Nat
    /\ Attempts \cap {None, "failed", "mismatch"} = {}

VARIABLES
    pc,          \* where each attempt is
    req,         \* what it asks for, None before it arrives
    claim,       \* the row it executes under (None: unprotected)
    answer,      \* the attempt whose response it got, or the error it got
    rows,        \* the idempotency_keys table: key -> row or NoRow
    committed,   \* history: attempts whose effect is in the database
    faults       \* crashes and failed updates so far

vars == <<pc, req, claim, answer, rows, committed, faults>>

Pc       == {"new", "claiming", "lookup", "handling", "completing", "aborting",
             "answered", "dead"}
Running  == {"claiming", "lookup", "handling", "completing", "aborting"}
Errors   == {"failed", "mismatch"}
Request  == [key : Keys, target : Targets, body : Bodies]

\* A row is named after the attempt that created it.
NoRow    == [id |-> None, hash |-> None, response |-> None, expired |-> FALSE]

\* Mutant: the body is not hashed.
HashWithoutBody(q) == q.target
\* requestHash covers the method, the route pattern and the body: the pattern
\* has ":id" where the request had a value.
Hash(q)            == q.body

Disturbed(p) == req[p].key \notin Calm

RowOf(p) == rows[req[p].key]
SetRow(p, row) == rows' = [rows EXCEPT ![req[p].key] = row]

Goto(p, l) == pc' = [pc EXCEPT ![p] = l]
Answer(p, a) == Goto(p, "answered") /\ answer' = [answer EXCEPT ![p] = a]

-----------------------------------------------------------------------------
Arrive(p) ==
    /\ pc[p] = "new"
    /\ \E q \in Request :
         /\ q.key \in Calm => \A o \in Attempts : pc[o] \in Running => req[o].key # q.key
         /\ req' = [req EXCEPT ![p] = q]
    /\ Goto(p, "claiming")
    /\ UNCHANGED <<claim, answer, rows, committed, faults>>

\* claim(): the insert succeeds, or meets the unique (organizationId, key).
Claim(p) ==
    /\ pc[p] = "claiming"
    /\ IF RowOf(p) = NoRow
       THEN /\ SetRow(p, [id |-> p, hash |-> Hash(req[p]), response |-> None,
                          expired |-> FALSE])
            /\ claim' = [claim EXCEPT ![p] = p]
            /\ Goto(p, "handling")
       ELSE Goto(p, "lookup") /\ UNCHANGED <<rows, claim>>
    /\ UNCHANGED <<req, answer, committed, faults>>

\* claim(), after a conflict: a row without a response is taken over.
Lookup(p) ==
    LET row == RowOf(p)
    IN  /\ pc[p] = "lookup"
        /\ IF row = NoRow \/ row.expired
           THEN Goto(p, "handling") /\ UNCHANGED <<claim, answer>>
           ELSE IF row.hash # Hash(req[p])
           THEN Answer(p, "mismatch") /\ UNCHANGED claim
           ELSE IF row.response # None
           THEN Answer(p, row.response) /\ UNCHANGED claim
           ELSE Goto(p, "handling") /\ claim' = [claim EXCEPT ![p] = row.id]
                /\ UNCHANGED answer
        /\ UNCHANGED <<req, rows, committed, faults>>

HandlerCommits(p) ==
    /\ pc[p] = "handling"
    /\ committed' = committed \cup {p}
    /\ IF claim[p] = None
       THEN Answer(p, p)
       ELSE Goto(p, "completing") /\ UNCHANGED answer
    /\ UNCHANGED <<req, claim, rows, faults>>

HandlerThrows(p) ==
    /\ pc[p] = "handling"
    /\ IF claim[p] = None
       THEN Answer(p, "failed")
       ELSE Goto(p, "aborting") /\ UNCHANGED answer
    /\ UNCHANGED <<req, claim, rows, committed, faults>>

\* Mutant: the response is sent and not stored.
CompleteUnstored(p) ==
    /\ pc[p] = "completing"
    /\ Answer(p, p)
    /\ UNCHANGED <<req, claim, rows, committed, faults>>

\* complete(): the update by id fails when the row is gone, and the error is
\* handled like one of the handler.
Complete(p) ==
    /\ pc[p] = "completing"
    /\ IF RowOf(p).id = claim[p]
       THEN SetRow(p, [RowOf(p) EXCEPT !.response = p]) /\ Answer(p, p)
       ELSE Goto(p, "aborting") /\ UNCHANGED <<rows, answer>>
    /\ UNCHANGED <<req, claim, committed, faults>>

\* Mutant: the row of a failed request stays.
AbortKeepsClaim(p) ==
    /\ pc[p] = "aborting"
    /\ Answer(p, "failed")
    /\ UNCHANGED <<req, claim, rows, committed, faults>>

\* abort(): the row is deleted by id, whoever created it and whatever it holds.
AbortClaim(p) ==
    /\ pc[p] = "aborting"
    /\ IF RowOf(p).id = claim[p] THEN SetRow(p, NoRow) ELSE UNCHANGED rows
    /\ Answer(p, "failed")
    /\ UNCHANGED <<req, claim, committed, faults>>

-----------------------------------------------------------------------------
(* Faults and time                                                         *)

\* The insert of claim() fails without a conflict: the request goes ahead
\* unprotected.
ClaimFails(p) ==
    /\ pc[p] = "claiming"
    /\ faults < MaxFaults /\ Disturbed(p)
    /\ faults' = faults + 1
    /\ Goto(p, "handling")
    /\ UNCHANGED <<req, claim, answer, rows, committed>>

\* The process dies, or the query after a conflict fails: the client gets no
\* answer that says what happened, and the row stays as it is.
Crash(p) ==
    /\ pc[p] \in Running
    /\ faults < MaxFaults /\ Disturbed(p)
    /\ faults' = faults + 1
    /\ Goto(p, "dead")
    /\ UNCHANGED <<req, claim, answer, rows, committed>>

\* The update in complete() fails for another reason.
CompleteFails(p) ==
    /\ pc[p] = "completing"
    /\ faults < MaxFaults /\ Disturbed(p)
    /\ faults' = faults + 1
    /\ Goto(p, "aborting")
    /\ UNCHANGED <<req, claim, answer, rows, committed>>

\* expiresAt passes.  Nothing ever removes an expired row.
Expire(k) ==
    /\ k \notin Calm
    /\ rows[k] # NoRow /\ ~rows[k].expired
    /\ rows' = [rows EXCEPT ![k].expired = TRUE]
    /\ UNCHANGED <<pc, req, claim, answer, committed, faults>>

-----------------------------------------------------------------------------
Init ==
    /\ pc = [p \in Attempts |-> "new"]
    /\ req = [p \in Attempts |-> None]
    /\ claim = [p \in Attempts |-> None]
    /\ answer = [p \in Attempts |-> None]
    /\ rows = [k \in Keys |-> NoRow]
    /\ committed = {}
    /\ faults = 0

Step(p) ==
    \/ Arrive(p) \/ Claim(p) \/ Lookup(p) \/ HandlerCommits(p) \/ HandlerThrows(p)
    \/ Complete(p) \/ AbortClaim(p) \/ Crash(p) \/ CompleteFails(p)
    \/ ClaimFails(p)

Next == (\E p \in Attempts : Step(p)) \/ (\E k \in Keys : Expire(k))

Spec == Init /\ [][Next]_vars

-----------------------------------------------------------------------------
TypeOK ==
    /\ pc \in [Attempts -> Pc]
    /\ req \in [Attempts -> Request \cup {None}]
    /\ claim \in [Attempts -> Attempts \cup {None}]
    /\ answer \in [Attempts -> Attempts \cup Errors \cup {None}]
    /\ rows \in [Keys -> {NoRow} \cup [id : Attempts, hash : Bodies,
                                       response : Attempts \cup {None}, expired : BOOLEAN]]
    /\ committed \subseteq Attempts
    /\ faults \in 0..MaxFaults

\* An answer, replayed or not, is the response of an attempt with the same key
\* and body whose effect was committed: never of one that failed, even when
\* several attempts executed under one row and some of them deleted it.
ReplayFaithful ==
    \A p \in Attempts : answer[p] \in Attempts =>
        /\ answer[p] \in committed
        /\ req[answer[p]].key = req[p].key
        /\ req[answer[p]].body = req[p].body

\* A row without a response belongs to an attempt that is still going to fill
\* or delete it, unless a process died: no key stays burnt after a failure.
NoOrphanClaim ==
    \A k \in Keys : /\ rows[k] # NoRow
                    /\ rows[k].response = None
                    => \E p \in Attempts : /\ claim[p] = rows[k].id
                                           /\ pc[p] \in Running \cup {"dead"}

\* Of the attempts that use a calm key one after the other, failed ones among
\* them, at most one takes effect.
OnceWhenCalm ==
    \A p, q \in committed : req[p].key = req[q].key /\ req[p].key \in Calm => p = q

\* "concurrent duplicates cannot double-book" (the class comment): no request
\* takes effect twice, however often it is sent.
AtMostOnce ==
    \A p, q \in committed : req[p] = req[q] => p = q
=============================================================================
