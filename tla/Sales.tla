------------------------------- MODULE Sales -------------------------------
(***************************************************************************)
(* Sale invoices of one organization (SalesService) with everything an     *)
(* invoice operation changes in the same database transaction: the stock   *)
(* of its item, the payments, the ledger and the outbox.                   *)
(*                                                                         *)
(* Requests run concurrently.  PostgreSQL runs each in a READ COMMITTED    *)
(* transaction: every read sees what is committed at that moment, and the  *)
(* first write to a row locks it until the transaction ends.  A request is *)
(* therefore a few read steps, each with its own snapshot kept in          *)
(* seen[r], and one commit step in which the where clauses of its updates  *)
(* are evaluated against the current rows and everything is written, or    *)
(* nothing when a check fails and the transaction rolls back.              *)
(*                                                                         *)
(* An invoice has one line of an item that tracks its stock.  Amounts are  *)
(* small integers.                                                         *)
(***************************************************************************)
EXTENDS Ledger

CONSTANTS
    Invoices, Items, Parties,
    Requests,      \* HTTP requests in progress at the same time
    Ops,           \* the operations requests ask for in this instance
    Serialized,    \* invoices about which no two requests overlap
    ItemOf,        \* invoice -> item of its line
    Qty,           \* invoice -> quantity of its line
    PartyOf,       \* invoice -> customer
    Total, Tax,    \* invoice -> total and taxTotal
    CreditLimit,   \* customer -> Party.creditLimit, or NoLimit
    NoLimit,
    Amounts,       \* amounts a payment may have
    Prices,        \* values Item.buyPrice takes
    InitStock,     \* item -> stock on hand in the initial state
    MaxPayments,   \* bound on recorded payments
    None

ASSUME SalesAssumption ==
    /\ ItemOf \in [Invoices -> Items]
    /\ PartyOf \in [Invoices -> Parties]
    /\ Qty \in [Invoices -> Nat \ {0}]
    /\ Total \in [Invoices -> Nat]
    /\ Tax \in [Invoices -> Nat]
    /\ Amounts \subseteq Nat \ {0}
    /\ Prices \subseteq Nat /\ Prices # {}
    /\ InitStock \in [Items -> Nat]
    /\ MaxPayments \in Nat
    /\ Serialized \subseteq Invoices
    /\ IsFiniteSet(Invoices) /\ None \notin Invoices
    /\ \A i \in Invoices : i \notin Nat  \* no payment has the id of an invoice

VARIABLES
    status,     \* SaleInvoice.status, or "NONE" before the draft is created
    paid,       \* SaleInvoice.amountPaid
    payments,   \* Payment rows
    stock,      \* Item.stockOnHand
    price,      \* Item.buyPrice
    out, back,  \* SALE_OUT and VOID stock movements, counted per invoice
    journal,    \* journal entries
    queued,     \* outbox rows in flight: <<event type, invoice>>
    submitted,  \* invoices whose etimsSubmittedAt is set
    op,         \* where each request is
    inv,        \* the invoice it is about
    seen,       \* what it read: the invoice's status and amountPaid, the unit cost
    amt         \* the amount it pays

docs     == <<status, paid, payments>>
goods    == <<stock, price, out, back>>
requests == <<op, inv, seen, amt>>
kra      == <<queued, submitted>>
vars     == <<docs, goods, journal, kra, requests>>

Status   == {"NONE", "DRAFT", "CONFIRMED", "PARTIALLY_PAID", "PAID", "VOID"}
Released == {"CONFIRMED", "PARTIALLY_PAID", "PAID"}
Steps    == {"idle", "confirm", "confirmStocked", "void", "pay"}
Submit     == "ETIMS_INVOICE_SUBMIT"
CreditNote == "ETIMS_CREDIT_NOTE_SUBMIT"

NoView == [status |-> "NONE", paid |-> 0, cost |-> 0]
View(i) == [status |-> status[i], paid |-> paid[i], cost |-> 0]

\* Mutant: the payments are not selected by invoice.
AllPayments(i) == payments
PaymentsOf(i)  == {p \in payments : p.invoice = i}

-----------------------------------------------------------------------------
(* Requests                                                                *)

\* Requests about a serialized invoice are made one after the other, as the
\* web client does by disabling its buttons while one is in flight.
Begin(r, step, i, a) ==
    /\ i \in Serialized => \A q \in Requests : inv[q] # i
    /\ op' = [op EXCEPT ![r] = step]
    /\ inv' = [inv EXCEPT ![r] = i]
    /\ seen' = [seen EXCEPT ![r] = View(i)]
    /\ amt' = [amt EXCEPT ![r] = a]

\* The response is sent, or the transaction rolled back.
Finish(r) ==
    /\ op' = [op EXCEPT ![r] = "idle"]
    /\ inv' = [inv EXCEPT ![r] = None]
    /\ seen' = [seen EXCEPT ![r] = NoView]
    /\ amt' = [amt EXCEPT ![r] = 0]

Rollback(r) == Finish(r) /\ UNCHANGED <<docs, goods, journal, kra>>

-----------------------------------------------------------------------------
(* createDraft                                                             *)

CreateDraft(i) ==
    /\ status[i] = "NONE"
    /\ status' = [status EXCEPT ![i] = "DRAFT"]
    /\ UNCHANGED <<paid, payments, goods, journal, kra, requests>>

-----------------------------------------------------------------------------
(* confirmInvoice                                                          *)

Outstanding(c) ==
    LET open == {i \in Invoices : PartyOf[i] = c /\ status[i] \in Released}
    IN  SumFunction([i \in open |-> Total[i] - paid[i]])

\* What the customer owes, with this invoice, is within the credit limit.
WithinLimit(i) ==
    LET c == PartyOf[i]
    IN  CreditLimit[c] # NoLimit => Outstanding(c) + Total[i] <= CreditLimit[c]

ConfirmRead(r, i) ==
    /\ op[r] = "idle" /\ "confirm" \in Ops
    /\ status[i] = "DRAFT"
    /\ WithinLimit(i)
    /\ Begin(r, "confirm", i, 0)
    /\ UNCHANGED <<docs, goods, journal, kra>>

InStock(i) == stock[ItemOf[i]] >= Qty[i]

ConfirmReadItem(r) ==
    /\ op[r] = "confirm"
    /\ IF ~InStock(inv[r])
       THEN Finish(r)
       ELSE /\ op' = [op EXCEPT ![r] = "confirmStocked"]
            /\ seen' = [seen EXCEPT ![r].cost = price[ItemOf[inv[r]]]]
            /\ UNCHANGED <<inv, amt>>
    /\ UNCHANGED <<docs, goods, journal, kra>>

\* An entry for the cost of goods, unless they cost nothing.
PostCost(j, type, i, cost) == IF cost > 0 THEN Post(j, type, i, cost) ELSE j

\* Mutant: no compare-and-set on DRAFT.
ConfirmUnguarded(i) == <<Submit, i>> \notin queued /\ Postable(Total[i], Tax[i])

\* The compare-and-set on DRAFT, the unique index of the outbox and the
\* ledger's checks can each roll the transaction back, decrement included.
ConfirmAccepted(i) ==
    /\ status[i] = "DRAFT"
    /\ <<Submit, i>> \notin queued
    /\ Postable(Total[i], Tax[i])

ConfirmCommit(r) ==
    LET i    == inv[r]
        sale == Post(journal, "SALE_INVOICE", i, Total[i])
    IN  /\ op[r] = "confirmStocked"
        /\ IF ~ConfirmAccepted(i)
           THEN Rollback(r)
           ELSE /\ status' = [status EXCEPT ![i] = "CONFIRMED"]
                /\ stock' = [stock EXCEPT ![ItemOf[i]] = @ - Qty[i]]
                /\ out' = [out EXCEPT ![i] = @ + 1]
                /\ queued' = queued \cup {<<Submit, i>>}
                /\ journal' = PostCost(sale, "SALE_COGS", i, Qty[i] * seen[r].cost)
                /\ Finish(r)
                /\ UNCHANGED <<paid, payments, price, back, submitted>>

-----------------------------------------------------------------------------
(* voidInvoice                                                             *)

\* Mutant: any invoice can be voided, a void one too.
VoidableAgain(i) == status[i] # "NONE"
Voidable(i)      == status[i] \in {"DRAFT"} \cup Released

VoidRead(r, i) ==
    /\ op[r] = "idle" /\ "void" \in Ops
    /\ Voidable(i)
    /\ Begin(r, "void", i, 0)
    /\ UNCHANGED <<docs, goods, journal, kra>>

\* Mutant: an invoice with payments is voided like a draft.
ReleasedUnpaid(r) == seen[r].status = "CONFIRMED"
\* What is undone depends on the status read at the start.
WasReleased(r)    == seen[r].status # "DRAFT"

\* The reversal of the cost is at the price of the day of the void.
PostVoid(j, i, cost) ==
    PostCost(Post(j, "SALE_VOID", i, Total[i]), "SALE_COGS_REVERSAL", i, cost)

\* Mutant: payments are not unwound.
KeepPayments(j, i) == j
\* One SALE_PAYMENT_REVERSAL for every payment of i that has none yet.
ReversePayments(j, i) ==
    j \cup UNION {Post(j, "SALE_PAYMENT_REVERSAL", p.id, p.amount) : p \in PaymentsOf(i)}

\* The invoice is updated by id alone.  Payments are read after the invoice row is locked.
VoidCommit(r) ==
    LET i    == inv[r]
        cost == Qty[i] * price[ItemOf[i]]
    IN  /\ op[r] = "void"
        /\ IF ~WasReleased(r)
           THEN /\ status' = [status EXCEPT ![i] = "VOID"]
                /\ Finish(r)
                /\ UNCHANGED <<paid, payments, goods, journal, kra>>
           ELSE IF <<CreditNote, i>> \in queued
           THEN Rollback(r)
           ELSE /\ status' = [status EXCEPT ![i] = "VOID"]
                /\ stock' = [stock EXCEPT ![ItemOf[i]] = @ + Qty[i]]
                /\ back' = [back EXCEPT ![i] = @ + 1]
                /\ queued' = queued \cup {<<CreditNote, i>>}
                /\ journal' = ReversePayments(PostVoid(journal, i, cost), i)
                /\ Finish(r)
                /\ UNCHANGED <<paid, payments, price, out, submitted>>

-----------------------------------------------------------------------------
(* recordPayment                                                           *)

PayRead(r, i, a) ==
    /\ op[r] = "idle" /\ "pay" \in Ops
    /\ status[i] \in {"CONFIRMED", "PARTIALLY_PAID"}
    /\ Begin(r, "pay", i, a)
    /\ UNCHANGED <<docs, goods, journal, kra>>

StatusAfter(i, newPaid) == IF newPaid >= Total[i] THEN "PAID" ELSE "PARTIALLY_PAID"

\* The compare-and-set is on amountPaid alone, not on the status.
SamePaid(r) == paid[inv[r]] = seen[r].paid

PayCommit(r) ==
    LET i       == inv[r]
        newPaid == seen[r].paid + amt[r]
        payment == [id |-> Cardinality(payments) + 1, invoice |-> i, amount |-> amt[r]]
    IN  /\ op[r] = "pay"
        /\ IF ~SamePaid(r)
           THEN Rollback(r)
           ELSE /\ Cardinality(payments) < MaxPayments
                /\ payments' = payments \cup {payment}
                /\ paid' = [paid EXCEPT ![i] = newPaid]
                /\ status' = [status EXCEPT ![i] = StatusAfter(i, newPaid)]
                /\ journal' = Post(journal, "SALE_PAYMENT", payment.id, amt[r])
                /\ Finish(r)
                /\ UNCHANGED <<goods, kra>>

-----------------------------------------------------------------------------
(* Other components                                                        *)

\* EtimsController.triggerSubmit: queue the invoice for KRA by hand.
TriggerSubmit(i) ==
    /\ "trigger" \in Ops
    /\ status[i] \notin {"NONE", "VOID"}
    /\ i \notin submitted
    /\ <<Submit, i>> \notin queued
    /\ queued' = queued \cup {<<Submit, i>>}
    /\ UNCHANGED <<docs, goods, journal, submitted, requests>>

\* The outbox worker finishes with an event, successfully or not; an invoice
\* that KRA accepted has its receipt recorded (Etims.tla has the details).
EventSettles(q) ==
    /\ q \in queued
    /\ queued' = queued \ {q}
    /\ submitted' \in {submitted, submitted \cup {i \in Invoices : q = <<Submit, i>>}}
    /\ UNCHANGED <<docs, goods, journal, requests>>

\* InventoryService.update changes the cost of an item.
ChangePrice(x, c) ==
    /\ c # price[x]
    /\ price' = [price EXCEPT ![x] = c]
    /\ UNCHANGED <<docs, stock, out, back, journal, kra, requests>>

-----------------------------------------------------------------------------
Init ==
    /\ status = [i \in Invoices |-> "NONE"]
    /\ paid = [i \in Invoices |-> 0]
    /\ payments = {}
    /\ stock = InitStock
    /\ price \in [Items -> Prices]
    /\ out = [i \in Invoices |-> 0]
    /\ back = [i \in Invoices |-> 0]
    /\ journal = {}
    /\ queued = {}
    /\ submitted = {}
    /\ op = [r \in Requests |-> "idle"]
    /\ inv = [r \in Requests |-> None]
    /\ seen = [r \in Requests |-> NoView]
    /\ amt = [r \in Requests |-> 0]

Request(r) ==
    \/ \E i \in Invoices : ConfirmRead(r, i) \/ VoidRead(r, i)
    \/ \E i \in Invoices, a \in Amounts : PayRead(r, i, a)
    \/ ConfirmReadItem(r) \/ ConfirmCommit(r) \/ VoidCommit(r) \/ PayCommit(r)

Environment ==
    \/ \E i \in Invoices : CreateDraft(i) \/ TriggerSubmit(i)
    \/ \E q \in queued : EventSettles(q)
    \/ \E x \in Items, c \in Prices : ChangePrice(x, c)

Next == Environment \/ \E r \in Requests : Request(r)

Spec == Init /\ [][Next]_vars

-----------------------------------------------------------------------------
TypeOK ==
    /\ status \in [Invoices -> Status]
    /\ paid \in [Invoices -> Nat]
    /\ \A p \in payments : p.id \in Nat /\ p.invoice \in Invoices /\ p.amount \in Nat \ {0}
    /\ stock \in [Items -> Int]
    /\ price \in [Items -> Prices]
    /\ out \in [Invoices -> Nat]
    /\ back \in [Invoices -> Nat]
    /\ \A e \in journal : e.type \in SourceType /\ e.amount \in Nat \ {0} /\ e.copy \in Nat
    /\ queued \subseteq {Submit, CreditNote} \X Invoices
    /\ submitted \subseteq Invoices
    /\ op \in [Requests -> Steps]
    /\ inv \in [Requests -> Invoices \cup {None}]
    /\ seen \in [Requests -> [status : Status, paid : Nat, cost : Nat]]
    /\ amt \in [Requests -> Nat]

\* However many confirms and voids race, the goods of an invoice leave stock
\* at most once, and exactly when its sale is in the ledger.
GoodsLeaveOnce ==
    \A i \in Invoices : out[i] = (IF Posted(journal, "SALE_INVOICE", i) THEN 1 ELSE 0)

\* The status of a live invoice says how much of it is paid.
StatusMatchesPaid ==
    \A i \in Invoices :
      /\ status[i] \in {"NONE", "DRAFT", "CONFIRMED"} => paid[i] = 0
      /\ status[i] = "PARTIALLY_PAID" => paid[i] \in 1..(Total[i] - 1)
      /\ status[i] = "PAID" => paid[i] >= Total[i]

\* Everything the ledger holds is founded on an earlier step of the same
\* document: no payment of an invoice that was never posted, no reversal of
\* something that was not, no payment reversal without the void, and the
\* reversal of a payment has the amount of the payment.
LedgerIsFounded ==
    /\ \A i \in Invoices :
         Posted(journal, "SALE_VOID", i) => Posted(journal, "SALE_INVOICE", i)
    /\ \A p \in payments :
         /\ Posted(journal, "SALE_INVOICE", p.invoice)
         /\ Posted(journal, "SALE_PAYMENT", p.id)
         /\ \A e \in EntriesOf(journal, "SALE_PAYMENT_REVERSAL", p.id) :
              e.amount = p.amount /\ Posted(journal, "SALE_VOID", p.invoice)

\* Nothing is posted twice, whatever is retried ("never double-books").
PostedOnce == \A e \in journal : e.copy = 1

\* A confirm or a payment that works from an old read never takes an invoice
\* back: it does not return to DRAFT, a confirm does not reset an invoice that
\* is paid or void, and a paid invoice changes only by being voided.
NoStepBack ==
    [][\A i \in Invoices : status'[i] # status[i] =>
         /\ status'[i] = "DRAFT" => status[i] = "NONE"
         /\ status'[i] = "CONFIRMED" => status[i] = "DRAFT"
         /\ status[i] = "PAID" => status'[i] = "VOID"]_vars

-----------------------------------------------------------------------------
(* Agreement of documents, stock and ledger, as long as requests about the *)
(* same invoice do not overlap.                                            *)

EntriesAbout(i) ==
    {e \in journal : e.source = i} \cup
    {e \in journal : \E p \in PaymentsOf(i) : e.source = p.id}

Due(i) == IF status[i] \in Released THEN Total[i] - paid[i] ELSE 0

\* "the ledger can never drift from the operational data" (LedgerService):
\* the receivable of a serialized invoice is what the invoice says is due,
\* whatever overlapping requests do to the others.
LedgerMatchesInvoices == \A i \in Serialized : Balance("AR", EntriesAbout(i)) = Due(i)

\* Units of the line of an invoice that are out of stock: for an invoice whose
\* requests do not overlap, as its status says; else, as its movements say.
Held(i) == IF i \in Serialized
           THEN IF status[i] \in Released THEN 1 ELSE 0
           ELSE out[i] - back[i]

OnItem(x) == {i \in Invoices : ItemOf[i] = x}

\* Stock on hand is what was there minus the goods of the invoices that hold,
\* whatever overlaps on the other invoices of the same item (confirmInvoice
\* and voidInvoice move stock by decrement and increment, not by assignment).
StockMatchesInvoices ==
    \A x \in Items :
      stock[x] = InitStock[x] - SumFunctionOnSet([i \in Invoices |-> Qty[i] * Held(i)], OnItem(x))

\* "Unwind any payments already received so AR doesn't go negative"
\* (voidInvoice): a reversed invoice leaves no receivable behind.
VoidLeavesNoReceivable ==
    \A i \in Invoices :
      Posted(journal, "SALE_VOID", i) => Balance("AR", EntriesAbout(i)) = 0

\* "Cannot void an invoice in VOID status" (voidInvoice): the goods of a
\* serialized invoice come back at most once, and only after they left.
ReturnedOnce == \A i \in Serialized : back[i] <= out[i]

\* "Enforce the party credit limit" (confirmInvoice): no customer owes more
\* than the limit, however confirms of several invoices overlap.
ExposureWithinLimit ==
    \A c \in Parties : CreditLimit[c] # NoLimit => Outstanding(c) <= CreditLimit[c]
=============================================================================
