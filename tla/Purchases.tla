----------------------------- MODULE Purchases -----------------------------
(***************************************************************************)
(* Purchase invoices (PurchasingService) with the stock of their items,    *)
(* the payments and the ledger, and InventoryService.adjustStock, which    *)
(* writes the stock of an item as a number and not as an increment.        *)
(*                                                                         *)
(* As in Sales.tla a request is a few reads, kept in seen[r], and one      *)
(* commit.  A purchase has one line; amounts are small integers; every     *)
(* item tracks its stock.                                                  *)
(***************************************************************************)
EXTENDS Ledger

CONSTANTS
    Purchases, Items, Requests,
    Serialized,   \* purchases about which no two requests overlap
    Counted,      \* items that are not adjusted while a request moves them
    ItemOf,       \* purchase -> item of its line
    Qty,          \* purchase -> quantity of its line
    Total, Tax,   \* purchase -> total and taxTotal
    Amounts,      \* amounts a payment may have
    Deltas,       \* quantities an adjustment may have
    MaxPayments,  \* bound on recorded payments
    MaxAdjusts,   \* bound on adjustments
    NoPurchase

ASSUME PurchasesAssumption ==
    /\ ItemOf \in [Purchases -> Items]
    /\ Qty \in [Purchases -> Nat \ {0}]
    /\ Total \in [Purchases -> Nat]
    /\ Tax \in [Purchases -> Nat]
    /\ Amounts \subseteq Nat \ {0}
    /\ Deltas \subseteq Int \ {0}
    /\ MaxPayments \in Nat /\ MaxAdjusts \in Nat
    /\ Serialized \subseteq Purchases /\ Counted \subseteq Items
    /\ NoPurchase \notin Purchases \cup Items
    /\ \A i \in Purchases : i \notin Nat  \* no payment has the id of a purchase

VARIABLES
    status,    \* PurchaseInvoice.status, or "NONE" before the draft is created
    paid,      \* PurchaseInvoice.amountPaid
    payments,  \* Payment rows
    stock,     \* Item.stockOnHand
    moved,     \* sum of the StockMovement rows of each item
    arrived,   \* PURCHASE_IN movements of each purchase
    adjusts,   \* adjustments made so far
    journal,   \* journal entries
    op,        \* where each request is
    doc,       \* the purchase, or the item it adjusts
    seen,      \* what it read: status and amountPaid, stock on hand
    amt        \* the amount it pays or the quantity it adjusts by

docs         == <<status, paid, payments>>
goods        == <<stock, moved, arrived, adjusts>>
requests     == <<op, doc, seen, amt>>
purchaseVars == <<docs, goods, journal, requests>>

Status   == {"NONE", "DRAFT", "CONFIRMED", "PARTIALLY_PAID", "PAID", "VOID"}
Released == {"CONFIRMED", "PARTIALLY_PAID", "PAID"}
Steps    == {"idle", "confirm", "void", "voidStocked", "pay", "adjust"}

NoView  == [status |-> "NONE", paid |-> 0, onHand |-> 0]
View(i) == [status |-> status[i], paid |-> paid[i], onHand |-> 0]

PaymentsOf(i) == {p \in payments : p.invoice = i}
Smaller(m, n) == IF m <= n THEN m ELSE n

-----------------------------------------------------------------------------
(* Requests                                                                *)

Moves(r, x) == doc[r] \in {x} \cup {i \in Purchases : ItemOf[i] = x}
Adjusts(x)  == \E r \in Requests : op[r] = "adjust" /\ doc[r] = x

Begin(r, step, d, view, a) ==
    /\ op' = [op EXCEPT ![r] = step]
    /\ doc' = [doc EXCEPT ![r] = d]
    /\ seen' = [seen EXCEPT ![r] = view]
    /\ amt' = [amt EXCEPT ![r] = a]

BeginPurchase(r, step, i, a) ==
    /\ op[r] = "idle"
    /\ i \in Serialized => \A q \in Requests : doc[q] # i
    /\ ItemOf[i] \in Counted => ~Adjusts(ItemOf[i])
    /\ Begin(r, step, i, View(i), a)
    /\ UNCHANGED <<docs, goods, journal>>

\* The response is sent, or the transaction rolled back.
Finish(r)   == Begin(r, "idle", NoPurchase, NoView, 0)
Rollback(r) == Finish(r) /\ UNCHANGED <<docs, goods, journal>>

\* An increment of the stock of x by q, and a movement that records m.
Move(x, q, m) ==
    /\ stock' = [stock EXCEPT ![x] = @ + q]
    /\ moved' = [moved EXCEPT ![x] = @ + m]

-----------------------------------------------------------------------------
(* createDraft, confirmPurchase                                            *)

CreateDraft(i) ==
    /\ status[i] = "NONE"
    /\ status' = [status EXCEPT ![i] = "DRAFT"]
    /\ UNCHANGED <<paid, payments, goods, journal, requests>>

ConfirmRead(r, i) == status[i] = "DRAFT" /\ BeginPurchase(r, "confirm", i, 0)

\* Mutant: the goods are booked in before the status is looked at again.
AnyStatus(i) == Postable(Total[i], Tax[i])
\* The compare-and-set on DRAFT and the ledger's checks.
Confirmable(i) == status[i] = "DRAFT" /\ Postable(Total[i], Tax[i])

ConfirmCommit(r) ==
    LET i == doc[r]
    IN  /\ op[r] = "confirm"
        /\ IF ~Confirmable(i)
           THEN Rollback(r)
           ELSE /\ status' = [status EXCEPT ![i] = "CONFIRMED"]
                /\ Move(ItemOf[i], Qty[i], Qty[i])
                /\ arrived' = [arrived EXCEPT ![i] = @ + 1]
                /\ journal' = Post(journal, "PURCHASE_INVOICE", i, Total[i])
                /\ Finish(r)
                /\ UNCHANGED <<paid, payments, adjusts>>

-----------------------------------------------------------------------------
(* voidPurchase                                                            *)

VoidRead(r, i) ==
    /\ status[i] \in {"DRAFT"} \cup Released
    /\ BeginPurchase(r, "void", i, 0)

WasReleased(r) == seen[r].status \in Released

VoidReadItem(r) ==
    /\ op[r] = "void"
    /\ WasReleased(r)
    /\ Begin(r, "voidStocked", doc[r],
             [seen[r] EXCEPT !.onHand = stock[ItemOf[doc[r]]]], 0)
    /\ UNCHANGED <<docs, goods, journal>>

\* A draft is void at once, whatever it has become in the meantime.
VoidDraft(r) ==
    /\ op[r] = "void"
    /\ ~WasReleased(r)
    /\ status' = [status EXCEPT ![doc[r]] = "VOID"]
    /\ Finish(r)
    /\ UNCHANGED <<paid, payments, goods, journal>>

\* Mutant: payments are not unwound.
KeepPayments(j, i) == j
\* One PURCHASE_PAYMENT_REVERSAL for every payment of i that has none yet.
ReversePayments(j, i) ==
    j \cup UNION {Post(j, "PURCHASE_PAYMENT_REVERSAL", p.id, p.amount) : p \in PaymentsOf(i)}

\* What leaves the stock is what was on hand when it was read, at most.
Returned(r) == Smaller(Qty[doc[r]], seen[r].onHand)

\* Mutant: the movement has the quantity of the line.
RecordedInFull(r) == Qty[doc[r]]
Recorded(r)       == Smaller(Qty[doc[r]], seen[r].onHand)

\* The purchase is updated by id alone.
VoidCommit(r) ==
    LET i == doc[r]
    IN  /\ op[r] = "voidStocked"
        /\ status' = [status EXCEPT ![i] = "VOID"]
        /\ Move(ItemOf[i], -Returned(r), -Recorded(r))
        /\ journal' = ReversePayments(Post(journal, "PURCHASE_VOID", i, Total[i]), i)
        /\ Finish(r)
        /\ UNCHANGED <<paid, payments, arrived, adjusts>>

-----------------------------------------------------------------------------
(* recordPayment                                                           *)

PayRead(r, i, a) ==
    /\ status[i] \in {"CONFIRMED", "PARTIALLY_PAID"}
    /\ BeginPurchase(r, "pay", i, a)

\* The compare-and-set is on amountPaid alone, not on the status.
SamePaid(r) == paid[doc[r]] = seen[r].paid

PayCommit(r) ==
    LET i       == doc[r]
        newPaid == seen[r].paid + amt[r]
        payment == [id |-> Cardinality(payments) + 1, invoice |-> i, amount |-> amt[r]]
    IN  /\ op[r] = "pay"
        /\ IF ~SamePaid(r)
           THEN Rollback(r)
           ELSE /\ Cardinality(payments) < MaxPayments
                /\ payments' = payments \cup {payment}
                /\ paid' = [paid EXCEPT ![i] = newPaid]
                /\ status' = [status EXCEPT ![i] =
                                IF newPaid >= Total[i] THEN "PAID" ELSE "PARTIALLY_PAID"]
                /\ journal' = Post(journal, "PURCHASE_PAYMENT", payment.id, amt[r])
                /\ Finish(r)
                /\ UNCHANGED goods

-----------------------------------------------------------------------------
(* InventoryService.adjustStock                                            *)

AdjustRead(r, x, d) ==
    /\ op[r] = "idle"
    /\ x \in Counted => \A q \in Requests : ~Moves(q, x)
    /\ stock[x] + d >= 0
    /\ Begin(r, "adjust", x, [NoView EXCEPT !.onHand = stock[x]], d)
    /\ UNCHANGED <<docs, goods, journal>>

\* The number that is written comes from the read.
AdjustCommit(r) ==
    LET x == doc[r]
    IN  /\ op[r] = "adjust"
        /\ adjusts < MaxAdjusts
        /\ adjusts' = adjusts + 1
        /\ stock' = [stock EXCEPT ![x] = seen[r].onHand + amt[r]]
        /\ moved' = [moved EXCEPT ![x] = @ + amt[r]]
        /\ Finish(r)
        /\ UNCHANGED <<docs, arrived, journal>>

-----------------------------------------------------------------------------
PurchasesInit ==
    /\ status = [i \in Purchases |-> "NONE"]
    /\ paid = [i \in Purchases |-> 0]
    /\ payments = {}
    /\ stock = [x \in Items |-> 0]
    /\ moved = [x \in Items |-> 0]
    /\ arrived = [i \in Purchases |-> 0]
    /\ adjusts = 0
    /\ journal = {}
    /\ op = [r \in Requests |-> "idle"]
    /\ doc = [r \in Requests |-> NoPurchase]
    /\ seen = [r \in Requests |-> NoView]
    /\ amt = [r \in Requests |-> 0]

Purchasing(r) ==
    \/ \E i \in Purchases : ConfirmRead(r, i) \/ VoidRead(r, i)
    \/ \E i \in Purchases, a \in Amounts : PayRead(r, i, a)
    \/ \E x \in Items, d \in Deltas : AdjustRead(r, x, d)
    \/ ConfirmCommit(r) \/ VoidReadItem(r) \/ VoidDraft(r) \/ VoidCommit(r)
    \/ PayCommit(r) \/ AdjustCommit(r)

PurchasesNext ==
    \/ \E i \in Purchases : CreateDraft(i)
    \/ \E r \in Requests : Purchasing(r)

PurchasesSpec == PurchasesInit /\ [][PurchasesNext]_purchaseVars

-----------------------------------------------------------------------------
PurchasesTypeOK ==
    /\ status \in [Purchases -> Status]
    /\ paid \in [Purchases -> Nat]
    /\ \A p \in payments : p.id \in Nat /\ p.invoice \in Purchases /\ p.amount \in Nat \ {0}
    /\ stock \in [Items -> Int] /\ moved \in [Items -> Int]
    /\ arrived \in [Purchases -> 0..1]
    /\ adjusts \in 0..MaxAdjusts
    /\ \A e \in journal : e.type \in SourceType /\ e.amount \in Nat \ {0} /\ e.copy \in Nat
    /\ op \in [Requests -> Steps]
    /\ doc \in [Requests -> Purchases \cup Items \cup {NoPurchase}]
    /\ seen \in [Requests -> [status : Status, paid : Nat, onHand : Int]]
    /\ amt \in [Requests -> Int]

\* The goods of a purchase arrive at most once, exactly when it is in the ledger.
GoodsArriveOnce ==
    \A i \in Purchases :
      arrived[i] = (IF Posted(journal, "PURCHASE_INVOICE", i) THEN 1 ELSE 0)

\* However many confirms, voids and payments race, the goods of a purchase
\* arrive at most once (confirmPurchase), and payments never overwrite each
\* other: amountPaid is the sum of the payment rows (recordPayment).
PurchaseCountsOnce ==
    /\ GoodsArriveOnce
    /\ \A i \in Purchases : paid[i] = AmountOf(PaymentsOf(i))

EntriesAbout(i) ==
    {e \in journal : e.source = i} \cup
    {e \in journal : \E p \in PaymentsOf(i) : e.source = p.id}

Owed(i) == IF status[i] \in Released THEN Total[i] - paid[i] ELSE 0

\* "the ledger can never drift from the operational data" (LedgerService): the
\* payable of a serialized purchase is what the purchase says is owed,
\* whatever overlapping requests do to the others.
LedgerMatchesPurchases ==
    \A i \in Serialized : -Balance("AP", EntriesAbout(i)) = Owed(i)

\* The stock of an item is the sum of its movements, whatever confirms and
\* voids of its purchases race, unless it is adjusted while they do: then the
\* number that adjustStock writes undoes them and their movements stay.
StockIsSumOfMovements == \A x \in Counted : stock[x] = moved[x]
=============================================================================
