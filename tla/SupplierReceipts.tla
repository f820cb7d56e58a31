-------------------------- MODULE SupplierReceipts --------------------------
(***************************************************************************)
(* What supports an expense: receipts and credit notes of a supplier       *)
(* (SupplierEtimsService), the compliance flags of its purchases           *)
(* (ExpenseComplianceService) and the tax withheld from its payments       *)
(* (WithholdingTaxService), of one supplier and one day.                   *)
(*                                                                         *)
(* A purchase, a credit note and a payment never change their amounts, and *)
(* a receipt only when its scan is read, so what a request reads of them   *)
(* stays true; what it reads of links does not.  Requests that read links  *)
(* are a read and a commit.                                                *)
(***************************************************************************)
EXTENDS Integers, FiniteSets, FiniteSetsExt

CONSTANTS
    Bills, BillTotal,       \* purchases and their totals
    Slips, SlipAmount,      \* supplier eTIMS receipts and what is printed on them
    Returns, ReturnAmount,  \* supplier credit notes and their totals
    Payouts, Gross,         \* supplier payments and their amounts
    Withheld,               \* payment -> tax withheld from it
    Officers,               \* requests in progress at the same time
    Calm,                   \* payments and credit notes about which no two requests overlap
    MaxCopies,              \* bound on deductions of one payment
    Nothing

ASSUME SupplierAssumption ==
    /\ BillTotal \in [Bills -> Nat] /\ SlipAmount \in [Slips -> Nat \ {0}]
    /\ ReturnAmount \in [Returns -> Nat]
    /\ Gross \in [Payouts -> Nat \ {0}] /\ Withheld \in [Payouts -> Nat]
    /\ \A p \in Payouts : Withheld[p] <= Gross[p]
    /\ Calm \subseteq Payouts \cup Returns /\ MaxCopies \in Nat
    /\ Nothing \notin Bills \cup Slips \cup Returns \cup Payouts

VARIABLES
    bill,        \* PurchaseInvoice rows with their open flags
    slip,        \* SupplierEtimsInvoice rows: verification, matched purchase, amount
    credit,      \* SupplierEtimsCreditNote rows: status, links, offset
    withholding, \* WithholdingTaxDeduction rows: payment, copy, certificate number
    office       \* each request: where it is, and what it is about

supplierVars == <<bill, slip, credit, withholding, office>>

NoBill    == [recorded |-> FALSE, unmatched |-> FALSE, mismatch |-> FALSE]
NoSlip    == [status |-> "NONE", bill |-> Nothing, amount |-> 0]
NoCredit  == [status |-> "NONE", slip |-> Nothing, bill |-> Nothing,
              payout |-> Nothing, copy |-> 0, offset |-> 0]
NoTask    == [step |-> "idle", credit |-> Nothing, slip |-> Nothing,
              bill |-> Nothing, payout |-> Nothing, copy |-> 0, number |-> 0]

Captured(s)   == slip[s].status # "NONE"
Deductions(p) == {d \in withholding : d.payout = p}
Offsets(p)    == {c \in Returns : credit[c].payout = p}
Least(m, n)   == IF m <= n THEN m ELSE n

Assign(f, task) ==
    /\ office[f] = NoTask
    /\ \A g \in Officers : {task.credit, task.payout} \cap Calm
                           \cap {office[g].credit, office[g].payout} = {}
    /\ office' = [office EXCEPT ![f] = task]
    /\ UNCHANGED <<bill, slip, credit, withholding>>

Done(f) == office' = [office EXCEPT ![f] = NoTask]

-----------------------------------------------------------------------------
(* Purchases, receipts and their match                                     *)

\* Mutant: a purchase is compared with receipts of any amount.
AnyReceipt(b) ==
    \E s \in Slips : slip[s].status \in {"UNVERIFIED", "VERIFIED_VIA_KRA_QR"}
\* flagForUnmatchedSupplierInvoice looks for a receipt of the same amount.
HasReceipt(b) ==
    \E s \in Slips : /\ slip[s].status \in {"UNVERIFIED", "VERIFIED_VIA_KRA_QR"}
                     /\ slip[s].amount = BillTotal[b]

\* PurchasingService.createDraft: the purchase and its flag in one transaction.
RecordBill(b) ==
    /\ ~bill[b].recorded
    /\ bill' = [bill EXCEPT ![b] = [recorded |-> TRUE, unmatched |-> ~HasReceipt(b),
                                    mismatch |-> FALSE]]
    /\ UNCHANGED <<slip, credit, withholding, office>>

\* create (BulkImport.tla has the captures in detail).
CaptureSlip(s) ==
    /\ slip[s] = NoSlip
    /\ slip' = [slip EXCEPT ![s].status = "UNVERIFIED", ![s].amount = SlipAmount[s]]
    /\ UNCHANGED <<bill, credit, withholding, office>>

\* scan: a row without an amount, and an ETIMS_SUPPLIER_OCR event.
ScanSlip(s) ==
    /\ slip[s] = NoSlip
    /\ slip' = [slip EXCEPT ![s].status = "UNVERIFIED"]
    /\ UNCHANGED <<bill, credit, withholding, office>>

\* The event: the amount is filled in, whatever the row was matched to before.
ReadScan(s) ==
    /\ Captured(s) /\ slip[s].amount = 0
    /\ slip' = [slip EXCEPT ![s].amount = SlipAmount[s]]
    /\ UNCHANGED <<bill, credit, withholding, office>>

\* The ETIMS_SUPPLIER_VERIFY event: whatever the provider answers, again and again.
VerifySlip(s) ==
    /\ Captured(s)
    /\ \E v \in {"VERIFIED_VIA_KRA_QR", "VERIFICATION_FAILED"} : slip' = [slip EXCEPT ![s].status = v]
    /\ UNCHANGED <<bill, credit, withholding, office>>

\* match: every open flag of the purchase is resolved, and one is opened when
\* the amounts differ.  A receipt may be matched again, to another purchase.
Match(s, b) ==
    /\ Captured(s) /\ bill[b].recorded
    /\ slip' = [slip EXCEPT ![s].bill = b]
    /\ bill' = [bill EXCEPT ![b].unmatched = FALSE,
                            ![b].mismatch = slip[s].amount # BillTotal[b]]
    /\ UNCHANGED <<credit, withholding, office>>

-----------------------------------------------------------------------------
(* Supplier credit notes                                                   *)

CaptureReturn(c) ==
    /\ credit[c].status = "NONE"
    /\ credit' = [credit EXCEPT ![c].status = "UNMATCHED"]
    /\ UNCHANGED <<bill, slip, withholding, office>>

\* Mutant: a deduction that another note offsets can be offset again.
Deducted(p, n)   == \E d \in Deductions(p) : d.copy = n
\* "already offset by another credit note"
OffsetFree(p, n) == Deducted(p, n) /\ ~\E c \in Offsets(p) : credit[c].copy = n

\* matchCreditNote: every check comes before the transaction.
ReturnRead(f, c, s, b, p, n) ==
    /\ credit[c].status = "UNMATCHED"
    /\ s # Nothing => Captured(s)
    /\ b # Nothing => bill[b].recorded
    /\ IF p = Nothing THEN n = 0 ELSE OffsetFree(p, n)
    /\ Assign(f, [NoTask EXCEPT !.step = "return", !.credit = c, !.slip = s, !.payout = p,
                    !.copy = n,
                    !.bill = IF b = Nothing /\ s # Nothing THEN slip[s].bill ELSE b])

\* The receipt and the credit note together reach the total of the purchase.
Bridges(s, c, b) == slip[s].amount + ReturnAmount[c] >= BillTotal[b]

\* The share of the tax that the credit note takes back, capped at all of it.
Offset(c, p) == (Withheld[p] * Least(ReturnAmount[c], Gross[p])) \div Gross[p]

\* The note is updated by id alone; links are written and an offset is kept
\* unless there is a new one.
ReturnCommit(f) ==
    LET t == office[f]
        c == t.credit
    IN  /\ t.step = "return"
        /\ credit' = [credit EXCEPT ![c] =
                        [status |-> "MATCHED", slip |-> t.slip, bill |-> t.bill,
                         payout |-> IF t.payout = Nothing THEN @.payout ELSE t.payout,
                         copy   |-> IF t.payout = Nothing THEN @.copy ELSE t.copy,
                         offset |-> IF t.payout = Nothing THEN @.offset
                                    ELSE Offset(c, t.payout)]]
        /\ bill' = IF t.slip # Nothing /\ t.bill # Nothing
                   THEN [bill EXCEPT ![t.bill].mismatch =
                           @ /\ ~Bridges(t.slip, c, t.bill)]
                   ELSE bill
        /\ Done(f)
        /\ UNCHANGED <<slip, withholding>>

-----------------------------------------------------------------------------
(* Withholding tax                                                         *)

\* record: an existing deduction is the answer; else one is inserted later.
RecordRead(f, p) ==
    /\ Deductions(p) = {}
    /\ Assign(f, [NoTask EXCEPT !.step = "record", !.payout = p])

RecordDeduction(f) ==
    LET p    == office[f].payout
        copy == Cardinality(Deductions(p)) + 1
    IN  /\ office[f].step = "record"
        /\ copy <= MaxCopies
        /\ withholding' = withholding \cup {[payout |-> p, copy |-> copy, number |-> 0]}
        /\ Done(f)
        /\ UNCHANGED <<bill, slip, credit>>

\* certificate: the next number is counted from the deductions ...
CertificateRead(f, d) ==
    /\ d \in withholding /\ d.number = 0
    /\ Assign(f, [NoTask EXCEPT !.step = "certify", !.payout = d.payout,
                                !.number = Cardinality(withholding) + 1])

\* ... and written by id alone.
IssueCertificate(f, d) ==
    /\ office[f].step = "certify" /\ d \in Deductions(office[f].payout)
    /\ withholding' = (withholding \ {d}) \cup {[d EXCEPT !.number = office[f].number]}
    /\ Done(f)
    /\ UNCHANGED <<bill, slip, credit>>

Matched(notes) == {c \in notes : credit[c].status = "MATCHED"}

\* remittanceSummary: what is due of a payment, net of offsets.
Remittable(p) ==
    Withheld[p] * Cardinality(Deductions(p))
    - SumFunction([c \in Matched(Offsets(p)) |-> credit[c].offset])

\* exposureSummary: the unmatched purchases, net of the matched credit notes.
CreditedTo(b) == SumFunctionOnSet(ReturnAmount, Matched({c \in Returns : credit[c].bill = b}))
Exposure(b) == IF bill[b].unmatched /\ BillTotal[b] > CreditedTo(b)
               THEN BillTotal[b] - CreditedTo(b) ELSE 0

-----------------------------------------------------------------------------
SupplierInit ==
    /\ bill = [b \in Bills |-> NoBill]
    /\ slip = [s \in Slips |-> NoSlip]
    /\ credit = [c \in Returns |-> NoCredit]
    /\ withholding = {}
    /\ office = [f \in Officers |-> NoTask]

InOffice(f) ==
    \/ \E c \in Returns, s \in Slips \cup {Nothing}, b \in Bills \cup {Nothing},
          p \in Payouts \cup {Nothing}, n \in 0..MaxCopies : ReturnRead(f, c, s, b, p, n)
    \/ \E p \in Payouts : RecordRead(f, p)
    \/ \E d \in withholding : CertificateRead(f, d) \/ IssueCertificate(f, d)
    \/ ReturnCommit(f) \/ RecordDeduction(f)

SupplierNext ==
    \/ \E b \in Bills : RecordBill(b)
    \/ \E s \in Slips : CaptureSlip(s) \/ ScanSlip(s) \/ ReadScan(s) \/ VerifySlip(s)
    \/ \E s \in Slips, b \in Bills : Match(s, b)
    \/ \E c \in Returns : CaptureReturn(c)
    \/ \E f \in Officers : InOffice(f)

SupplierSpec == SupplierInit /\ [][SupplierNext]_supplierVars

-----------------------------------------------------------------------------
SupplierTypeOK ==
    /\ bill \in [Bills -> [recorded : BOOLEAN, unmatched : BOOLEAN, mismatch : BOOLEAN]]
    /\ slip \in [Slips -> [status : {"NONE", "UNVERIFIED", "VERIFIED_VIA_KRA_QR", "VERIFICATION_FAILED"},
                           bill : Bills \cup {Nothing}, amount : Nat]]
    /\ credit \in [Returns -> [status : {"NONE", "UNMATCHED", "MATCHED"},
                               slip : Slips \cup {Nothing}, bill : Bills \cup {Nothing},
                               payout : Payouts \cup {Nothing}, copy : 0..MaxCopies,
                               offset : Nat]]
    /\ withholding \subseteq [payout : Payouts, copy : 1..MaxCopies, number : Nat]
    /\ office \in [Officers -> [step : {"idle", "return", "record", "certify"},
                                credit : Returns \cup {Nothing}, slip : Slips \cup {Nothing},
                                bill : Bills \cup {Nothing}, payout : Payouts \cup {Nothing},
                                copy : 0..MaxCopies, number : Nat]]

\* A receipt of the whole total, or one that credit notes bridge to it.
Supported(b) ==
    \/ \E s \in Slips : Captured(s) /\ slip[s].amount = BillTotal[b]
    \/ \E c \in Returns : /\ credit[c].status = "MATCHED" /\ credit[c].bill = b
                          /\ credit[c].slip # Nothing /\ Bridges(credit[c].slip, c, b)

\* "Created automatically for purchases that have no matched supplier eTIMS
\* invoice, so owners can see at-risk spend" (ExpenseComplianceFlag): in
\* whatever order receipts, matches and credit notes come, a purchase that is
\* neither exposed (exposureSummary) nor flagged for its amount is supported by
\* what was captured, or credited in full, unless one credit note is matched
\* twice at once.  (One receipt may support several purchases.)
UnflaggedIsSupported ==
    Returns \subseteq Calm =>
    \A b \in Bills :
      bill[b].recorded /\ Exposure(b) = 0 /\ ~bill[b].mismatch =>
        Supported(b) \/ CreditedTo(b) >= BillTotal[b]

\* "remittable, net of supplier credit-note offsets" (remittanceSummary): the
\* offsets of a payment never exceed what was withheld from it, when requests
\* about it do not overlap.  (Two that overlap offset it twice.)
RemittableNotNegative == \A p \in Calm \cap Payouts : Remittable(p) >= 0
=============================================================================
