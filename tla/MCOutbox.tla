------------------------------ MODULE MCOutbox ------------------------------
(* Instances of Outbox for TLC.                                            *)
EXTENDS Outbox, TLC

CONSTANTS e1, e2

\* Every row is about the same aggregate and event type.
SameAggregate == [e \in Events |-> e1]
\* Each row has an aggregate of its own.
OwnAggregate  == [e \in Events |-> e]

WorkerSymmetry == Permutations(Workers)
=============================================================================
