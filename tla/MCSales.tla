------------------------------ MODULE MCSales ------------------------------
(* Instances of Sales for TLC: one item and one customer; every invoice is *)
(* for one unit, total 2 of which 1 is tax.                                *)
EXTENDS Sales, TLC

CONSTANTS item, customer, Limit, OnHand

OneItem     == [i \in Invoices |-> item]
OneCustomer == [i \in Invoices |-> customer]
OneUnit     == [i \in Invoices |-> 1]
TotalTwo    == [i \in Invoices |-> 2]
TaxOne      == [i \in Invoices |-> 1]
LimitOf     == [c \in Parties |-> Limit]
StockOf     == [x \in Items |-> OnHand]

RequestSymmetry == Permutations(Requests)
=============================================================================
