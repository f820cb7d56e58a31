--------------------------- MODULE MCCreditNotes ---------------------------
(* Instances of CreditNotes for TLC: one item and one customer; an invoice *)
(* is for one unit and total 3; the first note credits 2 of it and the     *)
(* third refers to no invoice.                                             *)
EXTENDS CreditNotes, TLC

CONSTANTS item, customer, i1, n3

OneItem     == [i \in Invoices |-> item]
OneCustomer == [i \in Invoices |-> customer]
OneUnit     == [i \in Invoices |-> 1]
TotalThree  == [i \in Invoices |-> 3]
TaxOne      == [i \in Invoices |-> 1]
Unlimited   == [c \in Parties |-> NoLimit]
FiveInStock == [x \in Items |-> 5]

ReferTo      == [n \in Notes |-> IF n = n3 THEN None ELSE i1]
NoteOfItem   == [n \in Notes |-> item]
NoteOneUnit  == [n \in Notes |-> 1]
NoteTotalTwo == [n \in Notes |-> 2]
NoteTaxOne   == [n \in Notes |-> 1]

NoteSymmetry == Permutations(Requests)
=============================================================================
