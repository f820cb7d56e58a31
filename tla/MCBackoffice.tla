---------------------------- MODULE MCBackoffice ----------------------------
(* The components of the back office for TLC: one specification in which   *)
(* the scene, chosen at the start, says which of them moves.  They have no *)
(* row in common, so interleaving them would add no behaviour of interest; *)
(* the scenes only share the names of their two concurrent requests.       *)
EXTENDS Idempotency, Purchases, Procurement, Quotations, Sessions, TLC

CONSTANTS Scenes, i1, i2, x1, x2, u1, t1, t2, w1, w2

VARIABLE scene

\* Every purchase is for one unit, total 2 of which 1 is tax.
ItemEach == [i \in Purchases |-> IF i = i1 THEN x1 ELSE x2]
OneUnit  == [i \in Purchases |-> 1]
TotalTwo == [i \in Purchases |-> 2]
TaxOne   == [i \in Purchases |-> 1]
UpDown   == {1, -1}

\* A receipt lists the order line once, or twice.
Split    == {<<1>>, <<1, 1>>}

\* One member, the tab t1 in the calm browser w1 and the tab t2 in w2.
OneMember == [b \in Browsers |-> u1]
OneTab    == [t \in Tabs |-> IF t = t1 THEN w1 ELSE w2]

\* The scenes "calm" and "browser" open one of the tabs, and allow a third
\* token, or any token in the second, only to a member in this state.
PlainMember == [NoMember EXCEPT !.status = "ACTIVE"]

AllVars == <<vars, purchaseVars, procurementVars, quoteVars, sessionVars>>

BackofficeInit ==
    /\ scene \in Scenes
    /\ Init /\ PurchasesInit /\ ProcurementInit /\ QuotesInit /\ SessionsInit

BackofficeNext ==
    \/ /\ scene = "requests" /\ Next
       /\ UNCHANGED <<purchaseVars, procurementVars, quoteVars, sessionVars>>
    \/ /\ scene = "purchases" /\ PurchasesNext
       /\ UNCHANGED <<vars, procurementVars, quoteVars, sessionVars>>
    \/ /\ scene = "procurement" /\ ProcurementNext
       /\ UNCHANGED <<vars, purchaseVars, quoteVars, sessionVars>>
    \/ /\ scene = "quotations" /\ QuotesNext
       /\ UNCHANGED <<vars, purchaseVars, procurementVars, sessionVars>>
    \/ /\ scene = "calm" /\ SessionsNext /\ ~tab'[t2].open
       /\ Cardinality(Issued') <= 2 \/ member'[u1] = PlainMember
       /\ UNCHANGED <<vars, purchaseVars, procurementVars, quoteVars>>
    \/ /\ scene = "browser" /\ SessionsNext /\ ~tab'[t1].open
       /\ Cardinality(Issued') <= 2 /\ member'[u1] \in {NoMember, PlainMember}
       /\ UNCHANGED <<vars, purchaseVars, procurementVars, quoteVars>>

BackofficeSpec == BackofficeInit /\ [][UNCHANGED scene /\ BackofficeNext]_<<scene, AllVars>>

TypesOK ==
    /\ TypeOK /\ PurchasesTypeOK /\ ProcurementTypeOK /\ QuotesTypeOK
    /\ SessionsTypeOK

Symmetry == Permutations(Attempts) \cup Permutations(Requests)
=============================================================================
