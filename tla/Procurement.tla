---------------------------- MODULE Procurement ----------------------------
(***************************************************************************)
(* Purchase orders (PurchaseOrdersService) and the goods receipts booked   *)
(* against them (GoodsReceiptsService), with the stock of the item that    *)
(* they are about.                                                         *)
(*                                                                         *)
(* As in Sales.tla a request is a few reads and one commit.  The price is  *)
(* 1, so the total of an order is the quantity on it.  A line gets a new   *)
(* identity whenever the lines of an order are replaced.                   *)
(***************************************************************************)
EXTENDS Naturals, Sequences, FiniteSetsExt

CONSTANTS
    Orders, Receipts, Storekeepers,
    Quantities,    \* quantities an order line may have
    Deliveries,    \* sequences of quantities that a receipt lists for one order line
    SerialOrders,  \* orders about which no two requests overlap
    MaxLines,      \* bound on the order lines ever created
    NoOrder

ASSUME ProcurementAssumption ==
    /\ Quantities \subseteq Nat \ {0}
    /\ \A d \in Deliveries : d \in Seq(Nat \ {0}) /\ d # <<>>
    /\ SerialOrders \subseteq Orders
    /\ MaxLines \in Nat
    /\ NoOrder \notin Orders \cup Receipts
    /\ Orders \cap Receipts = {}  \* rows of two tables

VARIABLES
    orderStatus,  \* PurchaseOrder.status, or "NONE"
    total,        \* PurchaseOrder.total
    lines,        \* PurchaseOrderLine rows
    created,      \* order lines created so far
    receipt,      \* GoodsReceipt rows: status, order, order line and quantities
    stocked,      \* Item.stockOnHand
    task,         \* where each request is
    subject,      \* the order or receipt it is about
    linesSeen     \* the order lines it read

orders          == <<orderStatus, total, lines, created>>
tasks           == <<task, subject, linesSeen>>
procurementVars == <<orders, receipt, stocked, tasks>>

OrderStatus == {"NONE", "DRAFT", "SUBMITTED", "APPROVED", "REJECTED", "CANCELLED"}
OrderSteps  == {"idle", "update", "replace", "receive", "confirm"}
NoReceipt   == [status |-> "NONE", order |-> NoOrder, line |-> 0, qty |-> <<>>]

LinesOf(o) == {l \in lines : l.order = o}
Ids(S)     == {l.id : l \in S}
QtyOf(g)   == SumFunction(receipt[g].qty)

\* Mutant: no foreign key.
Unprotected == {}
\* The order lines that some receipt lists.
Referenced  == {receipt[g].line : g \in Receipts}

OrderOf(d) == IF d \in Receipts THEN receipt[d].order ELSE d
Free(o)    ==
    o \in SerialOrders => \A r \in Storekeepers : task[r] # "idle" => OrderOf(subject[r]) # o

BeginOrder(r, step, d, ids) ==
    /\ task' = [task EXCEPT ![r] = step]
    /\ subject' = [subject EXCEPT ![r] = d]
    /\ linesSeen' = [linesSeen EXCEPT ![r] = ids]

FinishOrder(r) == BeginOrder(r, "idle", NoOrder, {})

RollbackOrder(r) == FinishOrder(r) /\ UNCHANGED <<orders, receipt, stocked>>

-----------------------------------------------------------------------------
(* Purchase orders                                                         *)

\* Mutant: a new line can get the identity of an old one.
NewLineAtZero(o, q) == [id |-> created, order |-> o, qty |-> q, received |-> 0]
NewLine(o, q)       == [id |-> created + 1, order |-> o, qty |-> q, received |-> 0]

Create(o, q) ==
    /\ orderStatus[o] = "NONE" /\ created < MaxLines
    /\ orderStatus' = [orderStatus EXCEPT ![o] = "DRAFT"]
    /\ total' = [total EXCEPT ![o] = q]
    /\ lines' = lines \cup {NewLine(o, q)}
    /\ created' = created + 1
    /\ UNCHANGED <<receipt, stocked, tasks>>

UpdateRead(r, o) ==
    /\ task[r] = "idle" /\ Free(o)
    /\ orderStatus[o] = "DRAFT"
    /\ BeginOrder(r, "update", o, {})
    /\ UNCHANGED <<orders, receipt, stocked>>

\* Mutant: the old lines are not deleted.
UpdateKeepsLines(r) ==
    /\ task[r] = "update"
    /\ BeginOrder(r, "replace", subject[r], {})
    /\ UNCHANGED <<orders, receipt, stocked>>

\* deleteMany deletes the lines that are there when the statement starts.
UpdateDelete(r) ==
    /\ task[r] = "update"
    /\ BeginOrder(r, "replace", subject[r], Ids(LinesOf(subject[r])))
    /\ UNCHANGED <<orders, receipt, stocked>>

\* The order is updated by id alone.  A line that a receipt lists cannot be
\* deleted: the foreign key rolls the transaction back.
UpdateCommit(r, q) ==
    LET o == subject[r]
    IN  /\ task[r] = "replace"
        /\ IF linesSeen[r] \cap Referenced # {}
           THEN RollbackOrder(r)
           ELSE /\ created < MaxLines
                /\ lines' = {l \in lines : l.id \notin linesSeen[r]} \cup {NewLine(o, q)}
                /\ created' = created + 1
                /\ total' = [total EXCEPT ![o] = q]
                /\ FinishOrder(r)
                /\ UNCHANGED <<orderStatus, receipt, stocked>>

\* transition(): one update, guarded by the expected status.
Transition(o, expected, next) ==
    /\ Free(o)
    /\ orderStatus[o] = expected
    /\ orderStatus' = [orderStatus EXCEPT ![o] = next]
    /\ UNCHANGED <<total, lines, created, receipt, stocked, tasks>>

Submit(o)  == Transition(o, "DRAFT", "SUBMITTED")
Approve(o) == Transition(o, "SUBMITTED", "APPROVED")
Reject(o)  == Transition(o, "SUBMITTED", "REJECTED")
Cancel(o)  == \E s \in {"DRAFT", "SUBMITTED"} : Transition(o, s, "CANCELLED")

-----------------------------------------------------------------------------
(* Goods receipts                                                          *)

ReceiveRead(r, o) ==
    /\ task[r] = "idle" /\ Free(o)
    /\ orderStatus[o] = "APPROVED"
    /\ BeginOrder(r, "receive", o, Ids(LinesOf(o)))
    /\ UNCHANGED <<orders, receipt, stocked>>

\* The receipt is inserted unless its order line was deleted in between.
ReceiveCommit(r, g, l, d) ==
    /\ task[r] = "receive"
    /\ receipt[g] = NoReceipt
    /\ l \in linesSeen[r]
    /\ IF l \notin Ids(lines)
       THEN RollbackOrder(r)
       ELSE /\ receipt' = [receipt EXCEPT ![g] =
                             [status |-> "DRAFT", order |-> subject[r], line |-> l, qty |-> d]]
            /\ FinishOrder(r)
            /\ UNCHANGED <<orders, stocked>>

\* Mutant: what was received before is not counted.
WithinOrderAlone(g) ==
    \A l \in lines : l.id = receipt[g].line =>
      \A n \in DOMAIN receipt[g].qty : receipt[g].qty[n] <= l.qty

\* Each line of the receipt is checked against what was received before it.
WithinOrder(g) ==
    \A l \in lines : l.id = receipt[g].line =>
      \A n \in DOMAIN receipt[g].qty : l.received + receipt[g].qty[n] <= l.qty

ConfirmReceiptRead(r, g) ==
    /\ task[r] = "idle" /\ Free(OrderOf(g))
    /\ receipt[g].status = "DRAFT"
    /\ WithinOrder(g)
    /\ BeginOrder(r, "confirm", g, {})
    /\ UNCHANGED <<orders, receipt, stocked>>

\* Mutant: the receipt is updated by id alone.
NotGuarded(g) == TRUE
\* The where clause of the update of the receipt.
StillDraft(g) == receipt[g].status = "DRAFT"

ConfirmReceiptCommit(r) ==
    LET g == subject[r]
    IN  /\ task[r] = "confirm"
        /\ IF ~StillDraft(g)
           THEN RollbackOrder(r)
           ELSE /\ receipt' = [receipt EXCEPT ![g].status = "CONFIRMED"]
                /\ lines' = {IF l.id = receipt[g].line
                             THEN [l EXCEPT !.received = @ + QtyOf(g)] ELSE l : l \in lines}
                /\ stocked' = stocked + QtyOf(g)
                /\ FinishOrder(r)
                /\ UNCHANGED <<orderStatus, total, created>>

CancelReceipt(g) ==
    /\ Free(OrderOf(g))
    /\ receipt[g].status = "DRAFT"
    /\ receipt' = [receipt EXCEPT ![g].status = "CANCELLED"]
    /\ UNCHANGED <<orders, stocked, tasks>>

-----------------------------------------------------------------------------
ProcurementInit ==
    /\ orderStatus = [o \in Orders |-> "NONE"]
    /\ total = [o \in Orders |-> 0]
    /\ lines = {}
    /\ created = 0
    /\ receipt = [g \in Receipts |-> NoReceipt]
    /\ stocked = 0
    /\ task = [r \in Storekeepers |-> "idle"]
    /\ subject = [r \in Storekeepers |-> NoOrder]
    /\ linesSeen = [r \in Storekeepers |-> {}]

Procuring(r) ==
    \/ \E o \in Orders : UpdateRead(r, o) \/ ReceiveRead(r, o)
    \/ \E g \in Receipts : ConfirmReceiptRead(r, g)
    \/ \E q \in Quantities : UpdateCommit(r, q)
    \/ \E g \in Receipts, l \in linesSeen[r], d \in Deliveries : ReceiveCommit(r, g, l, d)
    \/ UpdateDelete(r) \/ ConfirmReceiptCommit(r)

ProcurementNext ==
    \/ \E o \in Orders, q \in Quantities : Create(o, q)
    \/ \E o \in Orders : Submit(o) \/ Approve(o) \/ Reject(o) \/ Cancel(o)
    \/ \E g \in Receipts : CancelReceipt(g)
    \/ \E r \in Storekeepers : Procuring(r)

ProcurementSpec == ProcurementInit /\ [][ProcurementNext]_procurementVars

-----------------------------------------------------------------------------
ProcurementTypeOK ==
    /\ orderStatus \in [Orders -> OrderStatus]
    /\ total \in [Orders -> Quantities \cup {0}]
    /\ \A l \in lines : /\ l.id \in 1..created /\ l.order \in Orders
                        /\ l.qty \in Quantities /\ l.received \in Nat
    /\ created \in 0..MaxLines
    /\ \A g \in Receipts : /\ receipt[g].status \in {"NONE", "DRAFT", "CONFIRMED", "CANCELLED"}
                           /\ receipt[g].order \in Orders \cup {NoOrder}
                           /\ receipt[g].qty \in Deliveries \cup {<<>>}
    /\ stocked \in Nat
    /\ task \in [Storekeepers -> OrderSteps]
    /\ subject \in [Storekeepers -> Orders \cup Receipts \cup {NoOrder}]
    /\ \A r \in Storekeepers : linesSeen[r] \subseteq 1..created

Confirmed(l) == {g \in Receipts : receipt[g].status = "CONFIRMED" /\ receipt[g].line = l.id}

\* However confirmations race, each receipt is counted once: receivedQty is
\* the sum of the confirmed receipts of the line, and stock is the sum of both.
ReceivedMatchesReceipts ==
    /\ \A l \in lines : l.received = SumFunction([g \in Confirmed(l) |-> QtyOf(g)])
    /\ stocked = SumFunction([l \in lines |-> l.received])

\* A receipt never stands against an order that was not approved, nor against
\* a line that an edit of the order removed.
ReceiptsAgainstApproved ==
    \A g \in Receipts : receipt[g] # NoReceipt =>
      /\ orderStatus[receipt[g].order] = "APPROVED"
      /\ receipt[g].line \in Ids(LinesOf(receipt[g].order))

\* The total of an order that is not edited twice at once is that of its lines.
\* (The second of two overlapping edits does not see, and so does not delete,
\* the line that the first one inserts.)
TotalMatchesLines ==
    \A o \in SerialOrders : total[o] = SumFunction([l \in LinesOf(o) |-> l.qty])

\* "Reject over-receipt before mutating stock or received quantities", for an
\* order whose receipts are confirmed one after the other and name its line
\* once each.
WithinOrderWhenSerialized ==
    \A l \in lines : /\ l.order \in SerialOrders
                     /\ \A g \in Confirmed(l) : Len(receipt[g].qty) = 1
                     => l.received <= l.qty
=============================================================================
