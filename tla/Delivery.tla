------------------------------ MODULE Delivery ------------------------------
(***************************************************************************)
(* What the transactional outbox promises to the code that enqueues an     *)
(* event, with no rows, claims, batches or timers: an accepted event is    *)
(* handled to completion at least once, or its handling has failed         *)
(* MaxAttempts times.  Handling an event again after it was handled, and   *)
(* handling it after its attempts were used up, are both allowed: the      *)
(* promise is at-least-once and nothing more.                              *)
(*                                                                         *)
(* Outbox.tla implements this specification (Outbox!DeliverySpec).         *)
(***************************************************************************)
EXTENDS Naturals

CONSTANTS
    Events,       \* outbox events that may be enqueued
    MaxAttempts   \* OutboxEvent.maxAttempts

VARIABLES
    accepted,     \* events whose enqueue committed
    delivered,    \* events whose handler returned normally at least once
    strikes       \* failures recorded for each event, counted up to MaxAttempts

dvars == <<accepted, delivered, strikes>>

DInit ==
    /\ accepted = {}
    /\ delivered = {}
    /\ strikes = [e \in Events |-> 0]

Accept(e) ==
    /\ e \notin accepted
    /\ accepted' = accepted \cup {e}
    /\ UNCHANGED <<delivered, strikes>>

Deliver(e) ==
    /\ e \in accepted
    /\ delivered' = delivered \cup {e}
    /\ UNCHANGED <<accepted, strikes>>

Strike(e) ==
    /\ e \in accepted
    /\ strikes[e] < MaxAttempts
    /\ strikes' = [strikes EXCEPT ![e] = @ + 1]
    /\ UNCHANGED <<accepted, delivered>>

DNext == \E e \in Events : Accept(e) \/ Deliver(e) \/ Strike(e)

\* A step that brings an unsettled event closer to being settled.
Settle(e) ==
    /\ e \notin delivered
    /\ strikes[e] < MaxAttempts
    /\ Deliver(e) \/ Strike(e)

DSafety == DInit /\ [][DNext]_dvars

DSpec == DSafety /\ \A e \in Events : WF_dvars(Settle(e))
=============================================================================
