---------------------------- MODULE MCCompliance ----------------------------
(* What is reported to KRA, what supports it, and the books, for TLC: one   *)
(* specification in which the scene, chosen at the start, says which        *)
(* component moves.  They have no row in common; the scenes share the names *)
(* of their workers.                                                        *)
EXTENDS Etims, SupplierReceipts, BulkImport, TurnoverTax, Journals, Banking, TLC

CONSTANTS Scenes, i1, b1, c1, cash, bank1, bank2

VARIABLE scene

OfTheInvoice == [n \in Notes |-> i1]

\* The second bill is paid by the receipt alone; the first is not bridged by
\* the receipt and the small credit note.
TotalEach    == [x \in Bills |-> IF x = b1 THEN 5 ELSE 2]
ReceiptTwo   == [x \in Slips |-> 2]
ReturnEach   == [x \in Returns |-> IF x = c1 THEN 2 ELSE 4]
GrossFour    == [x \in Payouts |-> 4]
WithheldTwo  == [x \in Payouts |-> 2]

\* Every row lists the same receipt number.
SameNumber   == [r \in Rows |-> CHOOSE n \in Numbers : TRUE]

TypeEach == [a \in Accounts |-> IF a = cash THEN "ASSET" ELSE "INCOME"]
UpDown   == {1, -1}

\* The part of the month from the second day on.
SecondPart == {<<1, 2>>}

AllVars == <<vars, supplierVars, bulkVars, turnoverVars, journalVars, bankVars>>

ComplianceInit ==
    /\ scene \in Scenes
    /\ Init /\ SupplierInit /\ BulkInit /\ TurnoverInit /\ JournalsInit /\ BankInit

\* Next to a report, entries and accounts are written by one request at a time.
OneRequest == Cardinality({k \in Bookkeepers : keeping[k] # NotKeeping}) <= 1

ComplianceNext ==
    \/ /\ scene = "submission" /\ Next
       /\ UNCHANGED <<supplierVars, bulkVars, turnoverVars, journalVars, bankVars>>
    \/ /\ scene = "receipts" /\ SupplierNext
       /\ UNCHANGED <<vars, bulkVars, turnoverVars, journalVars, bankVars>>
    \/ /\ scene = "import" /\ BulkNext
       /\ UNCHANGED <<vars, supplierVars, turnoverVars, journalVars, bankVars>>
    \/ /\ scene = "turnover" /\ TurnoverNext
       /\ UNCHANGED <<vars, supplierVars, bulkVars, journalVars, bankVars>>
    \/ /\ scene = "journals" /\ JournalsNext /\ report' = report
       /\ UNCHANGED <<vars, supplierVars, bulkVars, turnoverVars, bankVars>>
    \/ /\ scene = "reports" /\ JournalsNext /\ OneRequest'
       /\ UNCHANGED <<vars, supplierVars, bulkVars, turnoverVars, bankVars>>
    \/ /\ scene = "banking" /\ BankNext
       /\ UNCHANGED <<vars, supplierVars, bulkVars, turnoverVars, journalVars>>

ComplianceSpec == ComplianceInit /\ [][UNCHANGED scene /\ ComplianceNext]_<<scene, AllVars>>

\* Every row is one that its table allows: the account codes of banks and
\* their unique index (createAccount, updateAccount) included.
TypesOK ==
    /\ TypeOK /\ SupplierTypeOK /\ BulkTypeOK /\ TurnoverTypeOK
    /\ JournalsTypeOK /\ BankTypeOK

Symmetry == Permutations(Handlers)
=============================================================================
