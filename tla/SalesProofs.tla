---------------------------- MODULE SalesProofs ----------------------------
(***************************************************************************)
(* What overlapping confirms, voids and payments cannot break, for any     *)
(* invoices, requests, amounts, prices and credit limits; what holds of    *)
(* the ledger and of stock for the invoices whose requests do not overlap; *)
(* and what credit notes add to that.                                      *)
(***************************************************************************)
EXTENDS CreditNotes, LedgerProofs

Sold(i) == Posted(journal, "SALE_INVOICE", i)

\* What a request that has read its invoice may still rely on when it commits.
CallKnows(r) ==
    /\ op[r] = "idle" <=> inv[r] = None
    /\ op[r] = "void" =>
         /\ seen[r].status \in {"DRAFT"} \cup Released
         /\ seen[r].status # "DRAFT" => Sold(inv[r])
    /\ op[r] = "pay" =>
         /\ seen[r].paid < Total[inv[r]]
         /\ amt[r] \in Amounts
         /\ Sold(inv[r])

\* A request about a serialized invoice is the only one, and finds the status
\* as it read it.
CallAlone(r) ==
    inv[r] \in Serialized =>
      /\ \A q \in Requests : inv[q] = inv[r] => q = r
      /\ op[r] = "void" => status[inv[r]] = seen[r].status
      /\ op[r] = "pay" => status[inv[r]] \in {"CONFIRMED", "PARTIALLY_PAID"}

\* An invoice is in the ledger from its confirmation on.
Booked ==
    \A i \in Invoices :
      /\ status[i] \in {"NONE", "DRAFT"} => ~Sold(i)
      /\ status[i] \in Released => Sold(i)
      /\ Sold(i) => Total[i] > 0

\* Payments are numbered in the order of their creation.
PaymentsNumbered ==
    /\ IsFiniteSet(payments)
    /\ \A p \in payments : p.id \in 1..Cardinality(payments)
    /\ \A p, q \in payments : p.id = q.id => p = q

\* A payment reversal reverses a payment of a void invoice.
ReversalsFounded ==
    \A e \in journal : e.type = "SALE_PAYMENT_REVERSAL" =>
      \E p \in payments : /\ p.id = e.source
                          /\ p.amount = e.amount
                          /\ Posted(journal, "SALE_VOID", p.invoice)

\* A void follows a sale, and a payment is of a sale and in the ledger.
VoidFounded     == \A i \in Invoices : Posted(journal, "SALE_VOID", i) => Sold(i)
PaymentsFounded ==
    \A p \in payments : Sold(p.invoice) /\ Posted(journal, "SALE_PAYMENT", p.id)

\* The goods of a serialized invoice come back when it is void, not before.
BackWhenVoid ==
    \A i \in Serialized : status[i] # "VOID" => back[i] = 0

SInv ==
    /\ TypeOK
    /\ \A r \in Requests : CallKnows(r) /\ CallAlone(r)
    /\ Booked
    /\ StatusMatchesPaid
    /\ GoodsLeaveOnce
    /\ PostedOnce
    /\ PaymentsNumbered
    /\ ReversalsFounded
    /\ VoidFounded
    /\ PaymentsFounded
    /\ BackWhenVoid
    /\ ReturnedOnce

-----------------------------------------------------------------------------
(* Posting                                                                 *)

\* An entry about the cost of goods, if any, is the only one added.
LEMMA PostCostIs ==
  ASSUME NEW j, NEW type, NEW source, NEW cost
  PROVE  /\ j \subseteq PostCost(j, type, source, cost)
         /\ \A e \in PostCost(j, type, source, cost) :
              e \in j \/ (cost > 0 /\ e = Entry(type, source, cost))
  BY PostIs DEF PostCost

\* A void adds the reversals of the sale, of its cost and of its payments.
LEMMA VoidIs ==
  ASSUME NEW j, NEW i, NEW cost
  PROVE  LET k == ReversePayments(PostVoid(j, i, cost), i)
         IN  /\ j \subseteq k
             /\ Posted(k, "SALE_VOID", i)
             /\ \A e \in k : \/ e \in j
                             \/ e = Entry("SALE_VOID", i, Total[i])
                             \/ cost > 0 /\ e = Entry("SALE_COGS_REVERSAL", i, cost)
                             \/ \E p \in PaymentsOf(i) :
                                  e = Entry("SALE_PAYMENT_REVERSAL", p.id, p.amount)
  <1> DEFINE s == Post(j, "SALE_VOID", i, Total[i])
             v == PostVoid(j, i, cost)
             k == ReversePayments(v, i)
  <1>1. /\ j \subseteq s /\ Posted(s, "SALE_VOID", i)
        /\ \A e \in s : e \in j \/ e = Entry("SALE_VOID", i, Total[i])
    BY PostIs, PostedAfter
  <1>2. v = PostCost(s, "SALE_COGS_REVERSAL", i, cost)
    BY DEF PostVoid
  <1> HIDE DEF s, v
  <1>3. /\ s \subseteq v
        /\ \A e \in v : e \in s \/ (cost > 0 /\ e = Entry("SALE_COGS_REVERSAL", i, cost))
    BY <1>2, PostCostIs
  <1>4. /\ v \subseteq k
        /\ \A e \in k : \/ e \in v
                        \/ \E p \in PaymentsOf(i) :
                             e = Entry("SALE_PAYMENT_REVERSAL", p.id, p.amount)
    BY PostIs DEF ReversePayments
  <1>5. Posted(k, "SALE_VOID", i)
    <2>1. s \subseteq k
      BY <1>3, <1>4
    <2> HIDE DEF k
    <2>2. QED
      BY <1>1, <2>1, PostedGrows
  <1>6. QED
    BY <1>1, <1>3, <1>4, <1>5 DEF v

-----------------------------------------------------------------------------
(* Steps                                                                   *)

\* Nothing has happened.
LEMMA SInvInit == Init => SInv
  <1> SUFFICES ASSUME Init PROVE SInv
    OBVIOUS
  <1> USE SalesAssumption
  <1>1. TypeOK
    BY DEF Init, TypeOK, Status, Steps, NoView
  <1>2. \A r \in Requests : CallKnows(r) /\ CallAlone(r)
    BY DEF Init, CallKnows, CallAlone
  <1>3. \A t, x : ~Posted(journal, t, x)
    BY DEF Init, Posted, EntriesOf
  <1>4. PaymentsNumbered
    BY FS_EmptySet DEF Init, PaymentsNumbered
  <1>5. Booked /\ VoidFounded /\ GoodsLeaveOnce
    BY <1>3 DEF Init, Booked, VoidFounded, GoodsLeaveOnce, Sold, Released
  <1>6. /\ StatusMatchesPaid /\ PostedOnce /\ ReversalsFounded /\ PaymentsFounded
        /\ BackWhenVoid /\ ReturnedOnce
    BY DEF Init, StatusMatchesPaid, PostedOnce, ReversalsFounded, PaymentsFounded,
           BackWhenVoid, ReturnedOnce
  <1>7. QED
    BY <1>1, <1>2, <1>4, <1>5, <1>6 DEF SInv

\* A step that changes neither documents nor the ledger nor what left or came
\* back has only the requests to look at.
LEMMA QuietKeeps ==
  ASSUME SInv, UNCHANGED <<docs, journal, out, back>>, TypeOK',
         \A r \in Requests : CallKnows(r)' /\ CallAlone(r)'
  PROVE  SInv'
  BY DEF SInv, docs, Booked, StatusMatchesPaid, GoodsLeaveOnce, PostedOnce, PaymentsNumbered,
         ReversalsFounded, VoidFounded, PaymentsFounded, BackWhenVoid, ReturnedOnce, Sold

\* Requests that do not move know what they knew when no document changes.
LEMMA CallsKeep ==
  ASSUME SInv, UNCHANGED <<docs, journal, requests>>
  PROVE  \A r \in Requests : CallKnows(r)' /\ CallAlone(r)'
  BY DEF SInv, docs, requests, CallKnows, CallAlone, Sold

\* The others are not misled by a request that commits and ends: either they
\* are about other invoices, or they rely on nothing but the ledger.
LEMMA FinishKeeps ==
  ASSUME SInv, NEW r \in Requests, op[r] # "idle", Finish(r), journal \subseteq journal',
         \A i \in Invoices \ {inv[r]} : status'[i] = status[i]
  PROVE  \A q \in Requests : CallKnows(q)' /\ CallAlone(q)'
  <1> USE SalesAssumption
  <1> SUFFICES ASSUME NEW q \in Requests PROVE CallKnows(q)' /\ CallAlone(q)'
    OBVIOUS
  <1>1. CallKnows(q) /\ CallAlone(q) /\ CallAlone(r) /\ inv[r] \in Invoices
    BY DEF SInv, TypeOK, CallKnows
  <1>2. \A i : Sold(i) => Sold(i)'
    BY PostedGrows DEF Sold
  <1>3. CASE q = r
    BY <1>3 DEF Finish, SInv, TypeOK, CallKnows, CallAlone
  <1>4. CASE q # r
    <2>1. op'[q] = op[q] /\ inv'[q] = inv[q] /\ seen'[q] = seen[q] /\ amt'[q] = amt[q]
      BY <1>4 DEF Finish, SInv, TypeOK
    <2>2. CallKnows(q)'
      BY <1>1, <1>2, <2>1 DEF CallKnows
    <2>3. inv[q] \in Serialized => status'[inv[q]] = status[inv[q]]
      BY <1>1, <1>4 DEF CallAlone
    <2>4. \A o \in Requests : inv'[o] \in {inv[o], None}
      BY DEF Finish, SInv, TypeOK
    <2>5. CallAlone(q)'
      BY <1>1, <2>1, <2>3, <2>4 DEF CallAlone
    <2>6. QED
      BY <2>2, <2>5
  <1>5. QED
    BY <1>3, <1>4

\* The type of the variables of a request that ends.
LEMMA FinishType ==
  ASSUME TypeOK, NEW r \in Requests, Finish(r)
  PROVE  /\ op' \in [Requests -> Steps]
         /\ inv' \in [Requests -> Invoices \cup {None}]
         /\ seen' \in [Requests -> [status : Status, paid : Nat, cost : Nat]]
         /\ amt' \in [Requests -> Nat]
  BY DEF TypeOK, Finish, Steps, Status, NoView

\* A transaction that rolls back leaves no trace.
LEMMA RollbackKeeps ==
  ASSUME SInv, NEW r \in Requests, op[r] # "idle", Finish(r),
         UNCHANGED <<docs, goods, journal, kra>>
  PROVE  SInv'
  <1>1. TypeOK'
    BY FinishType DEF SInv, TypeOK, docs, goods, kra
  <1>2. \A q \in Requests : CallKnows(q)' /\ CallAlone(q)'
    BY FinishKeeps DEF docs
  <1>3. QED
    BY <1>1, <1>2, QuietKeeps DEF docs, goods

\* What a request reads at its start is so.
LEMMA BeginKeeps ==
  ASSUME SInv, NEW r \in Requests, NEW i \in Invoices, NEW step \in {"confirm", "void", "pay"},
         NEW a \in Nat, op[r] = "idle", Begin(r, step, i, a),
         UNCHANGED <<docs, goods, journal, kra>>,
         step = "void" => status[i] \in {"DRAFT"} \cup Released,
         step = "pay" => status[i] \in {"CONFIRMED", "PARTIALLY_PAID"} /\ a \in Amounts
  PROVE  SInv'
  <1> USE SalesAssumption
  <1>1. TypeOK'
    BY DEF SInv, TypeOK, Begin, View, Steps, docs, goods, kra
  <1>2. ASSUME NEW q \in Requests PROVE CallKnows(q)' /\ CallAlone(q)'
    <2>1. CallKnows(q) /\ CallAlone(q)
      BY DEF SInv
    <2>2. \A x : Sold(x)' <=> Sold(x)
      BY DEF Sold
    <2>3. \A o \in Requests : inv'[o] = IF o = r THEN i ELSE inv[o]
      BY DEF Begin, SInv, TypeOK
    <2>4. CASE q = r
      <3>1. op'[q] = step /\ inv'[q] = i /\ seen'[q] = View(i) /\ amt'[q] = a
        BY <2>4 DEF Begin, SInv, TypeOK
      <3>2. step = "void" /\ status[i] # "DRAFT" => Sold(i)
        BY DEF SInv, Booked
      <3>3. step = "pay" => Sold(i) /\ paid[i] < Total[i]
        BY DEF SInv, TypeOK, Booked, StatusMatchesPaid, Released
      <3>4. CallKnows(q)'
        BY <2>2, <3>1, <3>2, <3>3 DEF CallKnows, View
      <3>5. CallAlone(q)'
        BY <2>3, <2>4, <3>1 DEF CallAlone, Begin, View, docs
      <3>6. QED
        BY <3>4, <3>5
    <2>5. CASE q # r
      <3>1. op'[q] = op[q] /\ inv'[q] = inv[q] /\ seen'[q] = seen[q] /\ amt'[q] = amt[q]
        BY <2>5 DEF Begin, SInv, TypeOK
      <3>2. CallKnows(q)'
        BY <2>1, <2>2, <3>1 DEF CallKnows
      <3>3. inv[q] \in Serialized => i # inv[q]
        BY DEF Begin
      <3>4. CallAlone(q)'
        BY <2>1, <2>3, <3>1, <3>3 DEF CallAlone, docs
      <3>5. QED
        BY <3>2, <3>4
    <2>6. QED
      BY <2>4, <2>5
  <1>3. QED
    BY <1>1, <1>2, QuietKeeps DEF docs, goods

\* Entries of other types do not sell an invoice.
LEMMA SoldSame ==
  ASSUME journal \subseteq journal', \A e \in journal' \ journal : e.type # "SALE_INVOICE"
  PROVE  \A i : Sold(i)' <=> Sold(i)
  BY PostedGrows, PostedIsOldOrNew DEF Sold

\* The product of a quantity and a cost is a natural number.
LEMMA CostType == \A m, n \in Nat : m * n \in Nat
  OBVIOUS

\* A draft is created.
LEMMA CreateDraftKeeps ==
  ASSUME SInv, NEW i \in Invoices, CreateDraft(i)
  PROVE  SInv'
  <1> USE SalesAssumption
  <1>1. /\ status[i] = "NONE" /\ status' = [status EXCEPT ![i] = "DRAFT"]
        /\ UNCHANGED <<paid, payments, goods, journal, kra, requests>>
    BY DEF CreateDraft
  <1>2. TypeOK'
    BY <1>1 DEF SInv, TypeOK, Status, goods, kra, requests
  <1>3. \A r \in Requests : CallKnows(r)' /\ CallAlone(r)'
    BY <1>1 DEF SInv, TypeOK, CallKnows, CallAlone, requests, Sold, Released
  <1>4. Booked' /\ StatusMatchesPaid' /\ BackWhenVoid'
    BY <1>1 DEF SInv, TypeOK, Booked, StatusMatchesPaid, BackWhenVoid, Sold, Released, goods
  <1>5. QED
    BY <1>1, <1>2, <1>3, <1>4
    DEF SInv, goods, GoodsLeaveOnce, PostedOnce, PaymentsNumbered, ReversalsFounded,
        VoidFounded, PaymentsFounded, ReturnedOnce, Sold

\* Confirming: the goods leave and the sale is posted, both for the first time.
LEMMA ConfirmKeeps ==
  ASSUME SInv, NEW r \in Requests, ConfirmCommit(r)
  PROVE  SInv'
  <1> USE SalesAssumption
  <1> DEFINE i    == inv[r]
             cost == Qty[i] * seen[r].cost
             sale == Post(journal, "SALE_INVOICE", i, Total[i])
  <1>1. op[r] = "confirmStocked" /\ i \in Invoices
    BY DEF ConfirmCommit, SInv, TypeOK, CallKnows
  <1>2. CASE ~ConfirmAccepted(i)
    BY <1>1, <1>2, RollbackKeeps DEF ConfirmCommit, Rollback
  <1>3. CASE ConfirmAccepted(i)
    <2>1. /\ status[i] = "DRAFT" /\ Total[i] > 0
          /\ status' = [status EXCEPT ![i] = "CONFIRMED"]
          /\ stock' = [stock EXCEPT ![ItemOf[i]] = @ - Qty[i]]
          /\ out' = [out EXCEPT ![i] = @ + 1]
          /\ queued' = queued \cup {<<Submit, i>>}
          /\ journal' = PostCost(sale, "SALE_COGS", i, cost)
          /\ Finish(r)
          /\ UNCHANGED <<paid, payments, price, back, submitted>>
      BY <1>1, <1>3 DEF ConfirmCommit, ConfirmAccepted, Postable
    <2>2. cost \in Nat
      BY <1>1, CostType DEF SInv, TypeOK
    <2> HIDE DEF cost
    <2>3. /\ journal \subseteq sale /\ Posted(sale, "SALE_INVOICE", i)
          /\ \A e \in sale : e \in journal \/ e = Entry("SALE_INVOICE", i, Total[i])
      BY PostIs, PostedAfter
    <2> HIDE DEF sale
    <2>4. /\ journal \subseteq journal'
          /\ Posted(journal', "SALE_INVOICE", i)
          /\ \A e \in journal' : \/ e \in journal
                                 \/ e = Entry("SALE_INVOICE", i, Total[i])
                                 \/ cost > 0 /\ e = Entry("SALE_COGS", i, cost)
      BY <2>1, <2>3, PostCostIs, PostedGrows
    <2>5. \A j \in Invoices : Sold(j)' <=> Sold(j) \/ j = i
      BY <2>4, PostedGrows, PostedIsOldOrNew DEF Sold, Entry
    <2>6. ~Sold(i)
      BY <1>1, <2>1 DEF SInv, Booked
    <2>7. TypeOK'
      <3>1. \A e \in journal' : e.type \in SourceType /\ e.amount \in Nat \ {0} /\ e.copy \in Nat
        BY <1>1, <2>1, <2>2, <2>4 DEF SInv, TypeOK, Entry, SourceType, DebitOf
      <3>2. QED
        BY <1>1, <2>1, <3>1, FinishType DEF SInv, TypeOK, Status
    <2>8. \A q \in Requests : CallKnows(q)' /\ CallAlone(q)'
      BY <1>1, <2>1, <2>4, FinishKeeps DEF SInv, TypeOK
    <2>9. Booked' /\ StatusMatchesPaid' /\ BackWhenVoid' /\ GoodsLeaveOnce' /\ ReturnedOnce'
      <3>1. Booked' /\ StatusMatchesPaid'
        BY <1>1, <2>1, <2>5 DEF SInv, TypeOK, Booked, StatusMatchesPaid, Released
      <3>2. GoodsLeaveOnce'
        BY <1>1, <2>1, <2>5, <2>6 DEF SInv, TypeOK, GoodsLeaveOnce, Sold
      <3>3. BackWhenVoid' /\ ReturnedOnce'
        BY <1>1, <2>1 DEF SInv, TypeOK, BackWhenVoid, ReturnedOnce
      <3>4. QED
        BY <3>1, <3>2, <3>3
    <2>10. PostedOnce'
      BY <2>4 DEF SInv, PostedOnce, Entry
    <2>11. PaymentsNumbered'
      BY <2>1 DEF SInv, PaymentsNumbered
    <2>12. ReversalsFounded'
      BY <2>1, <2>4, PostedGrows DEF SInv, ReversalsFounded, Entry
    <2>13. VoidFounded'
      BY <2>4, <2>5, PostedIsOldOrNew DEF SInv, VoidFounded, Entry
    <2>14. PaymentsFounded'
      BY <2>1, <2>4, PostedGrows DEF SInv, PaymentsFounded, Sold
    <2>15. QED
      BY <2>7, <2>8, <2>9, <2>10, <2>11, <2>12, <2>13, <2>14 DEF SInv
  <1>4. QED
    BY <1>2, <1>3

\* Voiding: what is posted is founded on what confirm and payments posted.
LEMMA VoidKeeps ==
  ASSUME SInv, NEW r \in Requests, VoidCommit(r)
  PROVE  SInv'
  <1> USE SalesAssumption
  <1> DEFINE i    == inv[r]
             cost == Qty[i] * price[ItemOf[i]]
  <1>1. /\ op[r] = "void" /\ i \in Invoices
        /\ seen[r].status # "DRAFT" => Sold(i) /\ Total[i] > 0 /\ seen[r].status \in Released
        /\ i \in Serialized => status[i] = seen[r].status
    BY DEF VoidCommit, SInv, TypeOK, CallKnows, CallAlone, Booked
  <1>2. CASE ~WasReleased(r)
    <2>1. /\ status' = [status EXCEPT ![i] = "VOID"] /\ Finish(r)
          /\ UNCHANGED <<paid, payments, goods, journal, kra>>
      BY <1>1, <1>2 DEF VoidCommit
    <2>2. TypeOK'
      BY <1>1, <2>1, FinishType DEF SInv, TypeOK, Status, goods, kra
    <2>3. \A q \in Requests : CallKnows(q)' /\ CallAlone(q)'
      BY <1>1, <2>1, FinishKeeps DEF SInv, TypeOK
    <2>4. Booked' /\ StatusMatchesPaid' /\ BackWhenVoid'
      BY <1>1, <2>1 DEF SInv, TypeOK, Booked, StatusMatchesPaid, BackWhenVoid, Sold, Released, goods
    <2>5. QED
      BY <2>1, <2>2, <2>3, <2>4
      DEF SInv, goods, GoodsLeaveOnce, PostedOnce, PaymentsNumbered, ReversalsFounded,
          VoidFounded, PaymentsFounded, ReturnedOnce, Sold
  <1>3. CASE WasReleased(r) /\ <<CreditNote, i>> \in queued
    BY <1>1, <1>3, RollbackKeeps DEF VoidCommit, Rollback
  <1>4. CASE WasReleased(r) /\ <<CreditNote, i>> \notin queued
    <2>1. /\ status' = [status EXCEPT ![i] = "VOID"]
          /\ stock' = [stock EXCEPT ![ItemOf[i]] = @ + Qty[i]]
          /\ back' = [back EXCEPT ![i] = @ + 1]
          /\ queued' = queued \cup {<<CreditNote, i>>}
          /\ journal' = ReversePayments(PostVoid(journal, i, cost), i)
          /\ Finish(r)
          /\ UNCHANGED <<paid, payments, price, out, submitted>>
      BY <1>1, <1>4 DEF VoidCommit
    <2>2. Sold(i) /\ Total[i] > 0 /\ seen[r].status \in Released
      BY <1>1, <1>4 DEF WasReleased
    <2>3. cost \in Nat
      BY <1>1, CostType DEF SInv, TypeOK
    <2> HIDE DEF cost
    <2>4. /\ journal \subseteq journal'
          /\ Posted(journal', "SALE_VOID", i)
          /\ \A e \in journal' : \/ e \in journal
                                 \/ e = Entry("SALE_VOID", i, Total[i])
                                 \/ cost > 0 /\ e = Entry("SALE_COGS_REVERSAL", i, cost)
                                 \/ \E p \in PaymentsOf(i) :
                                      e = Entry("SALE_PAYMENT_REVERSAL", p.id, p.amount)
      BY <2>1, VoidIs
    <2>5. \A j : Sold(j)' <=> Sold(j)
      BY <2>4, SoldSame DEF Entry
    <2>6. TypeOK'
      <3>1. \A e \in journal' : e.type \in SourceType /\ e.amount \in Nat \ {0} /\ e.copy \in Nat
        BY <1>1, <2>2, <2>3, <2>4 DEF SInv, TypeOK, Entry, SourceType, DebitOf, PaymentsOf
      <3>2. QED
        BY <1>1, <2>1, <3>1, FinishType DEF SInv, TypeOK, Status
    <2>7. \A q \in Requests : CallKnows(q)' /\ CallAlone(q)'
      BY <1>1, <2>1, <2>4, FinishKeeps DEF SInv, TypeOK
    <2>8. Booked' /\ StatusMatchesPaid'
      BY <1>1, <2>1, <2>5 DEF SInv, TypeOK, Booked, StatusMatchesPaid, Released
    <2>9. GoodsLeaveOnce'
      BY <2>1, <2>5 DEF SInv, GoodsLeaveOnce, Sold
    <2>10. BackWhenVoid' /\ ReturnedOnce'
      <3>1. i \in Serialized => back[i] = 0 /\ out[i] = 1
        BY <1>1, <2>2 DEF SInv, BackWhenVoid, GoodsLeaveOnce, Sold, Released
      <3>2. QED
        BY <1>1, <2>1, <3>1 DEF SInv, TypeOK, BackWhenVoid, ReturnedOnce
    <2>11. PostedOnce'
      BY <2>4 DEF SInv, PostedOnce, Entry
    <2>12. PaymentsNumbered'
      BY <2>1 DEF SInv, PaymentsNumbered
    <2>13. ReversalsFounded'
      <3> SUFFICES ASSUME NEW e \in journal', e.type = "SALE_PAYMENT_REVERSAL"
                   PROVE  \E p \in payments : /\ p.id = e.source
                                              /\ p.amount = e.amount
                                              /\ Posted(journal', "SALE_VOID", p.invoice)
        BY <2>1 DEF ReversalsFounded
      <3>1. CASE e \in journal
        BY <2>4, <3>1, PostedGrows DEF SInv, ReversalsFounded
      <3>2. CASE e \notin journal
        BY <2>4, <3>2 DEF Entry, PaymentsOf
      <3>3. QED
        BY <3>1, <3>2
    <2>14. VoidFounded'
      BY <2>2, <2>4, <2>5, PostedIsOldOrNew DEF SInv, VoidFounded, Entry
    <2>15. PaymentsFounded'
      BY <2>1, <2>4, PostedGrows DEF SInv, PaymentsFounded, Sold
    <2>16. QED
      BY <2>6, <2>7, <2>8, <2>9, <2>10, <2>11, <2>12, <2>13, <2>14, <2>15 DEF SInv
  <1>5. QED
    BY <1>2, <1>3, <1>4

\* Paying: the compare-and-set makes what was read current.
LEMMA PayKeeps ==
  ASSUME SInv, NEW r \in Requests, PayCommit(r)
  PROVE  SInv'
  <1> USE SalesAssumption
  <1> DEFINE i       == inv[r]
             newPaid == seen[r].paid + amt[r]
             payment == [id |-> Cardinality(payments) + 1, invoice |-> i, amount |-> amt[r]]
  <1>1. /\ op[r] = "pay" /\ i \in Invoices /\ seen[r].paid < Total[i] /\ seen[r].paid \in Nat
        /\ amt[r] \in Nat \ {0} /\ Sold(i) /\ status[i] \notin {"NONE", "DRAFT"}
        /\ i \in Serialized => status[i] # "VOID"
    BY DEF PayCommit, SInv, TypeOK, CallKnows, CallAlone, Booked
  <1>2. CASE ~SamePaid(r)
    BY <1>1, <1>2, RollbackKeeps DEF PayCommit, Rollback
  <1>3. CASE SamePaid(r)
    <2>1. /\ paid[i] = seen[r].paid
          /\ payments' = payments \cup {payment}
          /\ paid' = [paid EXCEPT ![i] = newPaid]
          /\ status' = [status EXCEPT ![i] = StatusAfter(i, newPaid)]
          /\ journal' = Post(journal, "SALE_PAYMENT", payment.id, amt[r])
          /\ Finish(r)
          /\ UNCHANGED <<goods, kra>>
      BY <1>1, <1>3 DEF PayCommit, SamePaid
    <2>2. IsFiniteSet(payments) /\ Cardinality(payments) \in Nat
      BY FS_CardinalityType DEF SInv, PaymentsNumbered
    <2>3. payment.id = Cardinality(payments) + 1 /\ payment.invoice = i /\ payment.amount = amt[r]
      OBVIOUS
    <2> HIDE DEF payment
    <2>4. newPaid \in Nat \ {0} /\ StatusAfter(i, newPaid) \in {"PAID", "PARTIALLY_PAID"}
      BY <1>1 DEF StatusAfter
    <2>5. /\ journal \subseteq journal'
          /\ Posted(journal', "SALE_PAYMENT", payment.id)
          /\ \A e \in journal' : e \in journal \/ e = Entry("SALE_PAYMENT", payment.id, amt[r])
      BY <2>1, PostIs, PostedAfter
    <2>6. \A j : Sold(j)' <=> Sold(j)
      BY <2>5, SoldSame DEF Entry
    <2>7. TypeOK'
      <3>1. \A e \in journal' : e.type \in SourceType /\ e.amount \in Nat \ {0} /\ e.copy \in Nat
        BY <1>1, <2>5 DEF SInv, TypeOK, Entry, SourceType, DebitOf
      <3>2. \A p \in payments' : p.id \in Nat /\ p.invoice \in Invoices /\ p.amount \in Nat \ {0}
        BY <1>1, <2>1, <2>2, <2>3 DEF SInv, TypeOK
      <3>3. QED
        BY <1>1, <2>1, <2>4, <3>1, <3>2, FinishType DEF SInv, TypeOK, Status, goods, kra
    <2>8. \A q \in Requests : CallKnows(q)' /\ CallAlone(q)'
      BY <1>1, <2>1, <2>5, FinishKeeps DEF SInv, TypeOK
    <2>9. Booked'
      BY <1>1, <2>1, <2>4, <2>6 DEF SInv, TypeOK, Booked
    <2>10. StatusMatchesPaid'
      BY <1>1, <2>1, <2>4 DEF SInv, TypeOK, StatusMatchesPaid, StatusAfter
    <2>11. GoodsLeaveOnce' /\ ReturnedOnce' /\ BackWhenVoid'
      BY <1>1, <2>1, <2>6 DEF SInv, TypeOK, GoodsLeaveOnce, ReturnedOnce, BackWhenVoid, Sold, goods
    <2>12. PostedOnce'
      BY <2>5 DEF SInv, PostedOnce, Entry
    <2>13. PaymentsNumbered'
      <3>1. payment \notin payments
        BY <2>2, <2>3 DEF SInv, PaymentsNumbered
      <3>2. IsFiniteSet(payments') /\ Cardinality(payments') = Cardinality(payments) + 1
        BY <2>1, <2>2, <3>1, FS_AddElement
      <3>3. \A p \in payments' : p.id \in 1..Cardinality(payments')
        BY <2>1, <2>2, <2>3, <3>2 DEF SInv, PaymentsNumbered
      <3>4. ASSUME NEW p \in payments', NEW q \in payments', p.id = q.id PROVE p = q
        BY <2>1, <2>2, <2>3, <3>4 DEF SInv, PaymentsNumbered
      <3>5. QED
        BY <3>2, <3>3, <3>4 DEF PaymentsNumbered
    <2>14. ReversalsFounded'
      BY <2>1, <2>5, PostedGrows DEF SInv, ReversalsFounded, Entry
    <2>15. VoidFounded'
      BY <2>5, <2>6, PostedIsOldOrNew DEF SInv, VoidFounded, Entry
    <2>16. PaymentsFounded'
      BY <1>1, <2>1, <2>3, <2>5, <2>6, PostedGrows DEF SInv, PaymentsFounded
    <2>17. QED
      BY <2>7, <2>8, <2>9, <2>10, <2>11, <2>12, <2>13, <2>14, <2>15, <2>16 DEF SInv
  <1>4. QED
    BY <1>2, <1>3

-----------------------------------------------------------------------------
(* The invariant and what follows from it                                  *)

\* Reads, commits and the other components keep the invariant.
LEMMA SInvNext == SInv /\ [Next]_vars => SInv'
  <1> SUFFICES ASSUME SInv, [Next]_vars PROVE SInv'
    OBVIOUS
  <1> USE SalesAssumption
  <1>1. ASSUME NEW i \in Invoices, CreateDraft(i) PROVE SInv'
    BY <1>1, CreateDraftKeeps
  <1>2. ASSUME NEW i \in Invoices, TriggerSubmit(i) PROVE SInv'
    <2>1. TypeOK'
      BY <1>2 DEF TriggerSubmit, SInv, TypeOK, docs, goods, requests
    <2>2. QED
      BY <1>2, <2>1, CallsKeep, QuietKeeps DEF TriggerSubmit, goods
  <1>3. ASSUME NEW q \in queued, EventSettles(q) PROVE SInv'
    <2>1. TypeOK'
      BY <1>3 DEF EventSettles, SInv, TypeOK, docs, goods, requests
    <2>2. QED
      BY <1>3, <2>1, CallsKeep, QuietKeeps DEF EventSettles, goods
  <1>4. ASSUME NEW x \in Items, NEW c \in Prices, ChangePrice(x, c) PROVE SInv'
    <2>1. TypeOK'
      BY <1>4 DEF ChangePrice, SInv, TypeOK, docs, kra, requests
    <2>2. QED
      BY <1>4, <2>1, CallsKeep, QuietKeeps DEF ChangePrice
  <1>5. ASSUME NEW r \in Requests, NEW i \in Invoices, ConfirmRead(r, i) PROVE SInv'
    BY <1>5, BeginKeeps DEF ConfirmRead
  <1>6. ASSUME NEW r \in Requests, NEW i \in Invoices, VoidRead(r, i) PROVE SInv'
    BY <1>6, BeginKeeps DEF VoidRead, Voidable
  <1>7. ASSUME NEW r \in Requests, NEW i \in Invoices, NEW a \in Amounts, PayRead(r, i, a)
        PROVE  SInv'
    BY <1>7, BeginKeeps DEF PayRead
  <1>8. ASSUME NEW r \in Requests, ConfirmReadItem(r) PROVE SInv'
    <2>1. op[r] = "confirm" /\ inv[r] \in Invoices /\ UNCHANGED <<docs, goods, journal, kra>>
      BY <1>8 DEF ConfirmReadItem, SInv, TypeOK, CallKnows
    <2>2. CASE Finish(r)
      BY <2>1, <2>2, RollbackKeeps
    <2>3. CASE ~Finish(r)
      <3>1. /\ op' = [op EXCEPT ![r] = "confirmStocked"]
            /\ seen' = [seen EXCEPT ![r].cost = price[ItemOf[inv[r]]]]
            /\ UNCHANGED <<inv, amt>>
        BY <1>8, <2>3 DEF ConfirmReadItem
      <3>2. TypeOK'
        <4>1. price[ItemOf[inv[r]]] \in Nat
          BY <2>1 DEF SInv, TypeOK
        <4> HIDE SalesAssumption
        <4>2. /\ op' \in [Requests -> Steps]
              /\ seen' \in [Requests -> [status : Status, paid : Nat, cost : Nat]]
          BY <3>1, <4>1 DEF SInv, TypeOK, Steps
        <4> QED
          BY <2>1, <3>1, <4>2 DEF SInv, TypeOK, docs, goods, kra
      <3>3. \A q \in Requests : CallKnows(q)' /\ CallAlone(q)'
        BY <2>1, <3>1 DEF SInv, TypeOK, CallKnows, CallAlone, Sold, docs
      <3>4. QED
        BY <2>1, <3>2, <3>3, QuietKeeps DEF goods
    <2>4. QED
      BY <2>2, <2>3
  <1>9. ASSUME NEW r \in Requests, ConfirmCommit(r) PROVE SInv'
    BY <1>9, ConfirmKeeps
  <1>10. ASSUME NEW r \in Requests, VoidCommit(r) PROVE SInv'
    BY <1>10, VoidKeeps
  <1>11. ASSUME NEW r \in Requests, PayCommit(r) PROVE SInv'
    BY <1>11, PayKeeps
  <1>12. CASE UNCHANGED vars
    <2>1. TypeOK'
      BY <1>12 DEF vars, docs, goods, kra, requests, SInv, TypeOK
    <2>2. QED
      BY <1>12, <2>1, CallsKeep, QuietKeeps DEF vars, goods
  <1>13. QED
    BY <1>1, <1>2, <1>3, <1>4, <1>5, <1>6, <1>7, <1>8, <1>9, <1>10, <1>11, <1>12
    DEF Next, Environment, Request

\* The invariant holds of every behaviour.
LEMMA SalesInvariant == Spec => []SInv
  <1>1. QED
    BY SInvInit, SInvNext, PTL DEF Spec

\* Every variable keeps its type.
THEOREM SalesTypes == Spec => []TypeOK
  <1>1. SInv => TypeOK
    BY DEF SInv
  <1>2. QED
    BY <1>1, SalesInvariant, PTL

\* The goods of an invoice leave once, when it is sold (confirmInvoice).
THEOREM SalesGoodsLeaveOnce == Spec => []GoodsLeaveOnce
  <1>1. SInv => GoodsLeaveOnce
    BY DEF SInv
  <1>2. QED
    BY <1>1, SalesInvariant, PTL

\* The status of a live invoice says how much of it is paid (recordPayment).
THEOREM SalesStatusMatchesPaid == Spec => []StatusMatchesPaid
  <1>1. SInv => StatusMatchesPaid
    BY DEF SInv
  <1>2. QED
    BY <1>1, SalesInvariant, PTL

\* Nothing is posted twice (LedgerService.post).
THEOREM SalesPostedOnce == Spec => []PostedOnce
  <1>1. SInv => PostedOnce
    BY DEF SInv
  <1>2. QED
    BY <1>1, SalesInvariant, PTL

\* Reversals and payments in the ledger are founded on what they reverse or
\* settle, amounts of reversed payments included (voidInvoice, recordPayment).
THEOREM SalesLedgerIsFounded == Spec => []LedgerIsFounded
  <1>1. SInv => LedgerIsFounded
    <2> SUFFICES ASSUME SInv PROVE LedgerIsFounded
      OBVIOUS
    <2>1. ASSUME NEW p \in payments, NEW e \in EntriesOf(journal, "SALE_PAYMENT_REVERSAL", p.id)
          PROVE  e.amount = p.amount /\ Posted(journal, "SALE_VOID", p.invoice)
      BY DEF SInv, ReversalsFounded, PaymentsNumbered, EntriesOf
    <2>2. QED
      BY <2>1 DEF SInv, LedgerIsFounded, VoidFounded, PaymentsFounded, Sold
  <1>2. QED
    BY <1>1, SalesInvariant, PTL

\* The goods of a serialized invoice come back at most once, after they left
\* (voidInvoice).
THEOREM SalesReturnedOnce == Spec => []ReturnedOnce
  <1>1. SInv => ReturnedOnce
    BY DEF SInv
  <1>2. QED
    BY <1>1, SalesInvariant, PTL

\* No request that works from an old read takes an invoice a step back, except
\* that a late payment revives a void one.
THEOREM SalesNoStepBack == Spec => NoStepBack
  <1> DEFINE Forward(i) ==
        status'[i] # status[i] =>
          /\ status'[i] = "DRAFT" => status[i] = "NONE"
          /\ status'[i] = "CONFIRMED" => status[i] = "DRAFT"
          /\ status[i] = "PAID" => status'[i] = "VOID"
  <1>1. SInv /\ [Next]_vars => [\A i \in Invoices : Forward(i)]_vars
    <2> SUFFICES ASSUME SInv, Next, NEW i \in Invoices PROVE Forward(i)
      OBVIOUS
    <2>1. ASSUME NEW j \in Invoices, CreateDraft(j) PROVE Forward(i)
      BY <2>1 DEF CreateDraft, SInv, TypeOK
    <2>2. ASSUME NEW r \in Requests, ConfirmCommit(r) PROVE Forward(i)
      BY <2>2 DEF ConfirmCommit, ConfirmAccepted, Rollback, docs, SInv, TypeOK
    <2>3. ASSUME NEW r \in Requests, VoidCommit(r) PROVE Forward(i)
      BY <2>3 DEF VoidCommit, Rollback, docs, SInv, TypeOK
    <2>4. ASSUME NEW r \in Requests, PayCommit(r) PROVE Forward(i)
      <3>1. seen[r].paid < Total[inv[r]] /\ op[r] = "pay" /\ seen[r].paid \in Nat
        BY <2>4 DEF PayCommit, SInv, TypeOK, CallKnows
      <3>2. CASE ~SamePaid(r)
        BY <2>4, <3>1, <3>2 DEF PayCommit, Rollback, docs
      <3>3. CASE SamePaid(r)
        <4>1. /\ status' = [status EXCEPT ![inv[r]] = StatusAfter(inv[r], seen[r].paid + amt[r])]
              /\ paid[inv[r]] < Total[inv[r]]
          BY <2>4, <3>1, <3>3 DEF PayCommit, SamePaid
        <4>2. ASSUME inv[r] \in Invoices, status[inv[r]] = "PAID" PROVE FALSE
          <5>1. /\ paid[inv[r]] \in Nat /\ Total[inv[r]] \in Nat
                /\ paid[inv[r]] >= Total[inv[r]]
            BY <4>2, SalesAssumption DEF SInv, TypeOK, StatusMatchesPaid
          <5>2. QED
            BY <4>1, <5>1
        <4>3. QED
          BY <4>1, <4>2 DEF SInv, TypeOK, StatusAfter
      <3>4. QED
        BY <3>2, <3>3
    <2>5. CASE UNCHANGED status
      BY <2>5
    <2>6. QED
      BY <2>1, <2>2, <2>3, <2>4, <2>5
      DEF Next, Environment, Request, ConfirmRead, ConfirmReadItem, VoidRead, PayRead,
          TriggerSubmit, EventSettles, ChangePrice, docs
  <1>2. QED
    BY <1>1, SalesInvariant, PTL DEF Spec, NoStepBack

-----------------------------------------------------------------------------
(* The ledger and the documents                                            *)

SaleTypes    == {"SALE_INVOICE", "SALE_VOID", "SALE_COGS", "SALE_COGS_REVERSAL"}
PaymentTypes == {"SALE_PAYMENT", "SALE_PAYMENT_REVERSAL"}

\* What an entry is about, and what it amounts to.
WellFounded(e) ==
    \/ /\ e.type \in SaleTypes /\ e.source \in Invoices
       /\ e.type \in {"SALE_INVOICE", "SALE_VOID"} => e.amount = Total[e.source]
    \/ /\ e.type \in PaymentTypes
       /\ \E p \in payments : e.source = p.id /\ e.amount = p.amount

EntriesWellFounded == OnePerSource(journal) /\ \A e \in journal : WellFounded(e)

\* amountPaid is the sum of the payment rows.
PaidIsReceived == \A i \in Invoices : paid[i] = AmountOf(PaymentsOf(i))

\* The void of a serialized invoice reverses the sale and every payment of it.
VoidUnwinds ==
    \A i \in Serialized :
      /\ status[i] # "VOID" => ~Posted(journal, "SALE_VOID", i)
      /\ status[i] = "VOID" /\ Sold(i) =>
           /\ Posted(journal, "SALE_VOID", i)
           /\ \A p \in PaymentsOf(i) : Posted(journal, "SALE_PAYMENT_REVERSAL", p.id)

LInv == EntriesWellFounded /\ PaidIsReceived /\ VoidUnwinds

LEMMA LInvInit == Init => LInv
  <1> SUFFICES ASSUME Init PROVE LInv
    OBVIOUS
  <1> USE SalesAssumption
  <1>1. EntriesWellFounded
    BY DEF Init, EntriesWellFounded, OnePerSource, HasAmounts
  <1>2. PaidIsReceived
    <2>1. \A i : PaymentsOf(i) = {}
      BY DEF Init, PaymentsOf
    <2> QED
      BY <2>1, AmountOfNone DEF Init, PaidIsReceived
  <1>3. VoidUnwinds
    BY DEF Init, VoidUnwinds, Posted, EntriesOf
  <1> QED
    BY <1>1, <1>2, <1>3 DEF LInv

\* A step that changes neither ledger nor payments leaves no invoice void
\* that was sold, and none that was voided anything else.
LEMMA LInvSame ==
  ASSUME LInv, UNCHANGED <<paid, payments, journal>>,
         \A i \in Serialized : /\ status'[i] = "VOID" /\ status[i] # "VOID" => ~Sold(i)
                               /\ status[i] = "VOID" => status'[i] = "VOID"
  PROVE  LInv'
  <1>1. EntriesWellFounded'
    BY DEF LInv, EntriesWellFounded, WellFounded
  <1>2. PaidIsReceived'
    BY DEF LInv, PaidIsReceived, PaymentsOf
  <1>3. VoidUnwinds'
    BY DEF LInv, VoidUnwinds, PaymentsOf, Sold
  <1> QED
    BY <1>1, <1>2, <1>3 DEF LInv

\* The same, when a sale is posted.
LEMMA PostCostOnePerSource ==
  ASSUME NEW j, OnePerSource(j), NEW type, NEW source, NEW cost \in Nat
  PROVE  OnePerSource(PostCost(j, type, source, cost))
  BY PostOnePerSource DEF PostCost

LEMMA LInvConfirm ==
  ASSUME SInv, LInv, NEW r \in Requests, ConfirmCommit(r), ConfirmAccepted(inv[r])
  PROVE  LInv'
  <1> USE SalesAssumption
  <1> DEFINE i    == inv[r]
             cost == Qty[i] * seen[r].cost
             sale == Post(journal, "SALE_INVOICE", i, Total[i])
  <1>1. op[r] = "confirmStocked" /\ i \in Invoices /\ status[i] = "DRAFT"
    BY DEF ConfirmCommit, SInv, TypeOK, CallKnows, ConfirmAccepted
  <1>2. /\ status' = [status EXCEPT ![i] = "CONFIRMED"]
        /\ journal' = PostCost(sale, "SALE_COGS", i, cost)
        /\ UNCHANGED <<paid, payments>>
    BY <1>1 DEF ConfirmCommit
  <1>3. cost \in Nat /\ Total[i] \in Nat
    BY <1>1, CostType DEF SInv, TypeOK
  <1> HIDE DEF cost
  <1>4. /\ journal \subseteq sale /\ OnePerSource(sale)
        /\ \A e \in sale : e \in journal \/ e = Entry("SALE_INVOICE", i, Total[i])
    BY <1>3, PostIs, PostOnePerSource DEF LInv, EntriesWellFounded
  <1> HIDE DEF sale
  <1>5. /\ journal \subseteq journal' /\ OnePerSource(journal')
        /\ \A e \in journal' : \/ e \in journal
                               \/ e = Entry("SALE_INVOICE", i, Total[i])
                               \/ e = Entry("SALE_COGS", i, cost)
    BY <1>2, <1>3, <1>4, PostCostIs, PostCostOnePerSource
  <1>6. EntriesWellFounded'
    <2>1. \A e \in journal' : WellFounded(e)'
      BY <1>1, <1>2, <1>5 DEF LInv, EntriesWellFounded, WellFounded, SaleTypes, PaymentTypes, Entry
    <2> QED
      BY <1>5, <2>1 DEF EntriesWellFounded, OnePerSource, HasAmounts
  <1>7. PaidIsReceived'
    BY <1>2 DEF LInv, PaidIsReceived, PaymentsOf
  <1>8. VoidUnwinds'
    <2>1. \A j \in Invoices : status'[j] = IF j = i THEN "CONFIRMED" ELSE status[j]
      BY <1>1, <1>2 DEF SInv, TypeOK
    <2>2. \A j : Posted(journal', "SALE_VOID", j) <=> Posted(journal, "SALE_VOID", j)
      BY <1>5, PostedGrows, PostedIsOldOrNew DEF Entry
    <2>3. \A j : j # i => (Sold(j)' <=> Sold(j))
      BY <1>5, PostedGrows, PostedIsOldOrNew DEF Entry, Sold
    <2>4. \A t, s : Posted(journal, t, s) => Posted(journal', t, s)
      BY <1>5, PostedGrows
    <2>5. \A j \in Serialized : j \in Invoices
      OBVIOUS
    <2> QED
      BY <1>1, <1>2, <2>1, <2>2, <2>3, <2>4, <2>5 DEF LInv, VoidUnwinds, PaymentsOf
  <1> QED
    BY <1>6, <1>7, <1>8 DEF LInv

LEMMA LInvVoid ==
  ASSUME SInv, LInv, NEW r \in Requests, VoidCommit(r), WasReleased(r),
         <<CreditNote, inv[r]>> \notin queued
  PROVE  LInv'
  <1> USE SalesAssumption
  <1> DEFINE i    == inv[r]
             cost == Qty[i] * price[ItemOf[i]]
             void == Post(journal, "SALE_VOID", i, Total[i])
             both == PostVoid(journal, i, cost)
             P    == PaymentsOf(i)
  <1>1. op[r] = "void" /\ i \in Invoices /\ Sold(i)
    BY DEF VoidCommit, WasReleased, SInv, TypeOK, CallKnows
  <1>2. /\ status' = [status EXCEPT ![i] = "VOID"]
        /\ journal' = PostAll(both, "SALE_PAYMENT_REVERSAL", P)
        /\ UNCHANGED <<paid, payments>>
    BY <1>1 DEF VoidCommit, ReversePayments, PostAll
  <1>3. cost \in Nat /\ Total[i] \in Nat
    BY <1>1, CostType, ZenonT(30) DEF SInv, TypeOK
  <1> HIDE DEF cost
  <1>4. /\ journal \subseteq void /\ OnePerSource(void) /\ Posted(void, "SALE_VOID", i)
        /\ \A e \in void : e \in journal \/ e = Entry("SALE_VOID", i, Total[i])
    BY <1>3, PostIs, PostOnePerSource, PostedAfter DEF LInv, EntriesWellFounded
  <1>5. both = PostCost(void, "SALE_COGS_REVERSAL", i, cost)
    BY DEF PostVoid
  <1> HIDE DEF void, both
  <1>6. /\ journal \subseteq both /\ OnePerSource(both) /\ Posted(both, "SALE_VOID", i)
        /\ \A e \in both : \/ e \in journal
                           \/ e = Entry("SALE_VOID", i, Total[i])
                           \/ e = Entry("SALE_COGS_REVERSAL", i, cost)
    BY <1>3, <1>4, <1>5, PostCostIs, PostCostOnePerSource, PostedGrows
  <1>7. HasAmounts(P) /\ \A p, q \in P : p.id = q.id => p = q
    BY DEF SInv, TypeOK, PaymentsNumbered, PaymentsOf, HasAmounts
  <1> HIDE DEF P
  <1>8. /\ journal \subseteq journal' /\ OnePerSource(journal') /\ Posted(journal', "SALE_VOID", i)
        /\ \A e \in journal' : \/ e \in journal
                               \/ e = Entry("SALE_VOID", i, Total[i])
                               \/ e = Entry("SALE_COGS_REVERSAL", i, cost)
                               \/ \E p \in P : e = Entry("SALE_PAYMENT_REVERSAL", p.id, p.amount)
        /\ \A p \in P : Posted(journal', "SALE_PAYMENT_REVERSAL", p.id)
    BY <1>2, <1>6, <1>7, PostAllIs, PostAllOnePerSource, PostedGrows
  <1>9. EntriesWellFounded'
    <2>1. \A p \in P : p \in payments
      BY DEF P, PaymentsOf
    <2>2. \A e \in journal' : WellFounded(e)'
      BY <1>1, <1>2, <1>8, <2>1
      DEF LInv, EntriesWellFounded, WellFounded, SaleTypes, PaymentTypes, Entry
    <2> QED
      BY <1>8, <2>2 DEF EntriesWellFounded, OnePerSource, HasAmounts
  <1>10. PaidIsReceived'
    BY <1>2 DEF LInv, PaidIsReceived, PaymentsOf
  <1>11. VoidUnwinds'
    <2>1. \A j \in Invoices : status'[j] = IF j = i THEN "VOID" ELSE status[j]
      BY <1>1, <1>2 DEF SInv, TypeOK
    <2>2. \A j : j # i => (Posted(journal', "SALE_VOID", j) <=> Posted(journal, "SALE_VOID", j))
      BY <1>8, PostedGrows, PostedIsOldOrNew DEF Entry
    <2>3. \A j : Sold(j)' <=> Sold(j)
      BY <1>8, SoldSame DEF Entry
    <2>4. \A t, s : Posted(journal, t, s) => Posted(journal', t, s)
      BY <1>8, PostedGrows
    <2>5. \A j : PaymentsOf(j)' = PaymentsOf(j)
      BY <1>2 DEF PaymentsOf
    <2>6. \A j \in Serialized : j \in Invoices
      OBVIOUS
    <2> QED
      BY <1>1, <1>8, <2>1, <2>2, <2>3, <2>4, <2>5, <2>6 DEF LInv, VoidUnwinds, P
  <1> QED
    BY <1>9, <1>10, <1>11 DEF LInv

\* A payment row is new, and adds its amount to what was received of its invoice.
LEMMA ReceivedAfter ==
  ASSUME IsFiniteSet(payments), HasAmounts(payments), NEW i \in Invoices,
         NEW p, p \notin payments, p.invoice = i, p.amount \in Nat,
         payments' = payments \cup {p}
  PROVE  /\ AmountOf(PaymentsOf(i)') = AmountOf(PaymentsOf(i)) + p.amount
         /\ \A j \in Invoices \ {i} : PaymentsOf(j)' = PaymentsOf(j)
         /\ PaymentsOf(i)' = PaymentsOf(i) \cup {p}
  <1>1. PaymentsOf(i)' = PaymentsOf(i) \cup {p} /\ p \notin PaymentsOf(i)
    BY DEF PaymentsOf
  <1>2. IsFiniteSet(PaymentsOf(i))
    <2>1. PaymentsOf(i) \subseteq payments /\ IsFiniteSet(payments)
      BY DEF PaymentsOf
    <2> QED
      BY <2>1, FS_Subset
  <1>3. HasAmounts(PaymentsOf(i))
    BY DEF PaymentsOf, HasAmounts
  <1>4. \A j \in Invoices \ {i} : PaymentsOf(j)' = PaymentsOf(j)
    BY DEF PaymentsOf
  <1> QED
    BY <1>1, <1>2, <1>3, <1>4, AmountWith

LEMMA LInvPay ==
  ASSUME SInv, LInv, NEW r \in Requests, PayCommit(r), SamePaid(r)
  PROVE  LInv'
  <1> USE SalesAssumption
  <1>0. /\ op[r] = "pay" /\ inv[r] \in Invoices /\ amt[r] \in Nat \ {0} /\ Sold(inv[r])
        /\ inv[r] \in Serialized => status[inv[r]] # "VOID"
    BY DEF PayCommit, SInv, TypeOK, CallKnows, CallAlone
  <1> PICK i : i = inv[r]
    OBVIOUS
  <1> DEFINE newPaid == seen[r].paid + amt[r]
             payment == [id |-> Cardinality(payments) + 1, invoice |-> i, amount |-> amt[r]]
  <1>1. /\ op[r] = "pay" /\ i \in Invoices /\ amt[r] \in Nat \ {0} /\ Sold(i)
        /\ i \in Serialized => status[i] # "VOID"
    BY <1>0
  <1>2. /\ paid' = [paid EXCEPT ![i] = newPaid] /\ newPaid = paid[i] + amt[r]
        /\ payments' = payments \cup {payment}
        /\ status' = [status EXCEPT ![i] = StatusAfter(i, newPaid)]
        /\ journal' = Post(journal, "SALE_PAYMENT", payment.id, amt[r])
    BY DEF PayCommit, SamePaid
  <1>3. /\ payment.invoice = i /\ payment.amount = amt[r] /\ payment.id \in Nat
        /\ payment \notin payments /\ \A p \in payments : p.id # payment.id
    BY FS_CardinalityType DEF SInv, PaymentsNumbered
  <1> HIDE DEF payment, newPaid
  <1>4. /\ journal \subseteq journal' /\ OnePerSource(journal')
        /\ \A e \in journal' : e \in journal \/ e = Entry("SALE_PAYMENT", payment.id, amt[r])
    BY <1>1, <1>2, PostIs, PostOnePerSource DEF LInv, EntriesWellFounded
  <1>5. EntriesWellFounded'
    <2>1. \A e \in journal' : WellFounded(e)'
      BY <1>1, <1>2, <1>3, <1>4
      DEF LInv, EntriesWellFounded, WellFounded, SaleTypes, PaymentTypes, Entry
    <2> QED
      BY <1>4, <2>1 DEF EntriesWellFounded, OnePerSource, HasAmounts
  <1>6. /\ AmountOf(PaymentsOf(i)') = AmountOf(PaymentsOf(i)) + amt[r]
        /\ \A j \in Invoices \ {i} : PaymentsOf(j)' = PaymentsOf(j)
        /\ PaymentsOf(i)' = PaymentsOf(i) \cup {payment}
    <2>1. payment.amount \in Nat /\ payments' = payments \cup {payment}
      BY <1>1, <1>2, <1>3
    <2>2. i \in Invoices /\ payment \notin payments /\ payment.invoice = i
      BY <1>1, <1>3
    <2>3. IsFiniteSet(payments) /\ HasAmounts(payments)
      BY DEF SInv, TypeOK, PaymentsNumbered, HasAmounts
    <2>4. /\ AmountOf(PaymentsOf(i)') = AmountOf(PaymentsOf(i)) + payment.amount
          /\ \A j \in Invoices \ {i} : PaymentsOf(j)' = PaymentsOf(j)
          /\ PaymentsOf(i)' = PaymentsOf(i) \cup {payment}
      BY <2>1, <2>2, <2>3, ReceivedAfter
    <2> QED
      BY <1>3, <2>4
  <1>7. PaidIsReceived'
    <2>1. \A j \in Invoices : paid'[j] = IF j = i THEN paid[i] + amt[r] ELSE paid[j]
      <3>1. paid \in [Invoices -> Nat]
        BY DEF SInv, TypeOK
      <3>2. paid' = [paid EXCEPT ![i] = paid[i] + amt[r]]
        BY <1>2
      <3> QED
        BY <1>1, <3>1, <3>2
    <2>2. \A j \in Invoices : paid'[j] = AmountOf(PaymentsOf(j)')
      BY <1>1, <1>6, <2>1 DEF LInv, PaidIsReceived
    <2> QED
      BY <2>2 DEF PaidIsReceived
  <1>8. VoidUnwinds'
    <2>1. \A j \in Invoices : IF j = i THEN status'[i] # "VOID" ELSE status'[j] = status[j]
      BY <1>1, <1>2 DEF SInv, TypeOK, StatusAfter
    <2>2. \A j : Posted(journal', "SALE_VOID", j) <=> Posted(journal, "SALE_VOID", j)
      BY <1>4, PostedGrows, PostedIsOldOrNew DEF Entry
    <2>3. \A j : Sold(j)' <=> Sold(j)
      BY <1>4, SoldSame DEF Entry
    <2>4. \A t, s : Posted(journal, t, s) => Posted(journal', t, s)
      BY <1>4, PostedGrows
    <2>5. \A j \in Serialized : j \in Invoices
      OBVIOUS
    <2> QED
      BY <1>1, <1>6, <2>1, <2>2, <2>3, <2>4, <2>5 DEF LInv, VoidUnwinds
  <1> QED
    BY <1>5, <1>7, <1>8 DEF LInv

\* Every step keeps it.
LEMMA LInvNext == SInv /\ LInv /\ [Next]_vars => LInv'
  <1> SUFFICES ASSUME SInv, LInv, [Next]_vars PROVE LInv'
    OBVIOUS
  <1> USE SalesAssumption
  <1>1. ASSUME UNCHANGED <<docs, journal>> PROVE LInv'
    BY <1>1, LInvSame DEF docs
  <1>2. ASSUME NEW i \in Invoices, CreateDraft(i) PROVE LInv'
    <2>1. \A j \in Invoices : status'[j] = IF j = i THEN "DRAFT" ELSE status[j]
      BY <1>2 DEF CreateDraft, SInv, TypeOK
    <2>2. status[i] = "NONE" /\ UNCHANGED <<paid, payments, journal>>
      BY <1>2 DEF CreateDraft
    <2>3. \A j \in Serialized : j \in Invoices
      OBVIOUS
    <2> QED
      BY <2>1, <2>2, <2>3, LInvSame
  <1>3. ASSUME NEW r \in Requests, Rollback(r) PROVE LInv'
    BY <1>1, <1>3 DEF Rollback
  <1>4. ASSUME NEW r \in Requests, ConfirmCommit(r) PROVE LInv'
    <2>1. CASE ConfirmAccepted(inv[r])
      BY <1>4, <2>1, LInvConfirm
    <2>2. CASE ~ConfirmAccepted(inv[r])
      BY <1>3, <1>4, <2>2 DEF ConfirmCommit
    <2> QED
      BY <2>1, <2>2
  <1>5. ASSUME NEW r \in Requests, VoidCommit(r) PROVE LInv'
    <2>1. CASE WasReleased(r) /\ <<CreditNote, inv[r]>> \notin queued
      BY <1>5, <2>1, LInvVoid
    <2>2. CASE WasReleased(r) /\ <<CreditNote, inv[r]>> \in queued
      BY <1>3, <1>5, <2>2 DEF VoidCommit
    <2>3. CASE ~WasReleased(r)
      <3>1. /\ op[r] = "void" /\ inv[r] \in Invoices
            /\ inv[r] \in Serialized => ~Sold(inv[r])
        BY <1>5, <2>3
        DEF VoidCommit, WasReleased, SInv, TypeOK, CallKnows, CallAlone, Booked
      <3>2. /\ status' = [status EXCEPT ![inv[r]] = "VOID"]
            /\ UNCHANGED <<paid, payments, journal>>
        BY <1>5, <2>3 DEF VoidCommit
      <3>3. \A j \in Invoices : status'[j] = IF j = inv[r] THEN "VOID" ELSE status[j]
        BY <3>1, <3>2 DEF SInv, TypeOK
      <3>4. \A j \in Serialized : j \in Invoices
        OBVIOUS
      <3> QED
        BY <3>1, <3>2, <3>3, <3>4, LInvSame
    <2> QED
      BY <2>1, <2>2, <2>3
  <1>6. ASSUME NEW r \in Requests, PayCommit(r) PROVE LInv'
    <2>1. CASE SamePaid(r)
      BY <1>6, <2>1, LInvPay
    <2>2. CASE ~SamePaid(r)
      BY <1>3, <1>6, <2>2 DEF PayCommit
    <2> QED
      BY <2>1, <2>2
  <1> QED
    BY <1>1, <1>2, <1>4, <1>5, <1>6
    DEF Next, vars, Environment, Request, ConfirmRead, ConfirmReadItem, VoidRead, PayRead,
        TriggerSubmit, EventSettles, ChangePrice

-----------------------------------------------------------------------------
(* The receivable                                                          *)

\* The entries that move the receivable of an invoice, by type.
LEMMA ReceivableEntries ==
  ASSUME SInv, LInv, NEW i \in Invoices
  PROVE  /\ {e \in EntriesAbout(i) : DebitOf[e.type] = "AR"} =
              EntriesOf(journal, "SALE_INVOICE", i)
              \cup EntriesFor(journal, "SALE_PAYMENT_REVERSAL", PaymentsOf(i))
         /\ {e \in EntriesAbout(i) : CreditOf[e.type] = "AR"} =
              EntriesOf(journal, "SALE_VOID", i)
              \cup EntriesFor(journal, "SALE_PAYMENT", PaymentsOf(i))
  <1> DEFINE P == PaymentsOf(i)
  <1>1. \A e \in journal :
          \/ /\ e.type \in SaleTypes /\ e.source \in Invoices
          \/ /\ e.type \in PaymentTypes /\ \E p \in payments : e.source = p.id
    BY DEF LInv, EntriesWellFounded, WellFounded
  <1>2. \A p \in payments : p.id \in Nat
    BY DEF SInv, TypeOK
  <1>3. \A j \in Invoices : j \notin Nat
    BY SalesAssumption
  <1>4. P \subseteq payments
    BY DEF PaymentsOf
  <1> HIDE DEF P
  <1>5. EntriesAbout(i) = {e \in journal : e.source = i}
                          \cup {e \in journal : \E p \in P : e.source = p.id}
    BY DEF EntriesAbout, P
  <1>6. ASSUME NEW e \in EntriesAbout(i)
        PROVE  /\ e \in journal
               /\ \/ e.type \in SaleTypes /\ e.source = i
                  \/ e.type \in PaymentTypes /\ \E p \in P : e.source = p.id
    BY <1>1, <1>2, <1>3, <1>4, <1>5
  <1>7. /\ DebitOf["SALE_INVOICE"] = "AR" /\ CreditOf["SALE_INVOICE"] # "AR"
        /\ DebitOf["SALE_VOID"] # "AR" /\ CreditOf["SALE_VOID"] = "AR"
        /\ DebitOf["SALE_COGS"] # "AR" /\ CreditOf["SALE_COGS"] # "AR"
        /\ DebitOf["SALE_COGS_REVERSAL"] # "AR" /\ CreditOf["SALE_COGS_REVERSAL"] # "AR"
        /\ DebitOf["SALE_PAYMENT"] # "AR" /\ CreditOf["SALE_PAYMENT"] = "AR"
        /\ DebitOf["SALE_PAYMENT_REVERSAL"] = "AR" /\ CreditOf["SALE_PAYMENT_REVERSAL"] # "AR"
    BY DEF DebitOf, CreditOf
  <1>8. ASSUME NEW e
        PROVE  /\ e \in {x \in EntriesAbout(i) : DebitOf[x.type] = "AR"} <=>
                    e \in EntriesOf(journal, "SALE_INVOICE", i)
                          \cup EntriesFor(journal, "SALE_PAYMENT_REVERSAL", P)
               /\ e \in {x \in EntriesAbout(i) : CreditOf[x.type] = "AR"} <=>
                    e \in EntriesOf(journal, "SALE_VOID", i)
                          \cup EntriesFor(journal, "SALE_PAYMENT", P)
    <2>1. e \in EntriesOf(journal, "SALE_INVOICE", i) => e \in EntriesAbout(i)
      BY <1>5 DEF EntriesOf
    <2>2. e \in EntriesOf(journal, "SALE_VOID", i) => e \in EntriesAbout(i)
      BY <1>5 DEF EntriesOf
    <2>3. \A t : e \in EntriesFor(journal, t, P) => e \in EntriesAbout(i) /\ e.type = t
      BY <1>5 DEF EntriesFor
    <2> QED
      BY <1>6, <1>7, <2>1, <2>2, <2>3 DEF EntriesOf, EntriesFor, SaleTypes, PaymentTypes
  <1> QED
    BY <1>8 DEF P

LEMMA ReceivableIsDue ==
  ASSUME SInv, LInv
  PROVE  LedgerMatchesInvoices
  <1> USE SalesAssumption
  <1> SUFFICES ASSUME NEW i \in Serialized PROVE Balance("AR", EntriesAbout(i)) = Due(i)
    BY DEF LedgerMatchesInvoices
  <1> DEFINE P     == PaymentsOf(i)
             sale  == EntriesOf(journal, "SALE_INVOICE", i)
             void  == EntriesOf(journal, "SALE_VOID", i)
             paids == EntriesFor(journal, "SALE_PAYMENT", P)
             backs == EntriesFor(journal, "SALE_PAYMENT_REVERSAL", P)
  <1>1. i \in Invoices /\ Total[i] \in Nat /\ paid[i] \in Nat /\ OnePerSource(journal)
        /\ HasAmounts(journal)
    BY DEF SInv, TypeOK, LInv, EntriesWellFounded, OnePerSource
  <1>2. /\ P \subseteq payments /\ IsFiniteSet(P) /\ HasAmounts(P)
        /\ \A p, q \in P : p.id = q.id => p = q
    <2>1. P \subseteq payments /\ IsFiniteSet(payments)
      BY DEF PaymentsOf, SInv, PaymentsNumbered
    <2>2. IsFiniteSet(P)
      BY <2>1, FS_Subset
    <2> QED
      BY <2>1, <2>2 DEF SInv, TypeOK, PaymentsNumbered, HasAmounts
  <1>3. AmountOf(P) = paid[i]
    BY <1>1 DEF LInv, PaidIsReceived
  <1>4. \A p \in P : p.invoice = i
    BY DEF PaymentsOf
  <1> HIDE DEF P
  <1>5. /\ IsFiniteSet(sale) /\ AmountOf(sale) = IF Sold(i) THEN Total[i] ELSE 0
        /\ IsFiniteSet(void)
        /\ AmountOf(void) = IF Posted(journal, "SALE_VOID", i) THEN Total[i] ELSE 0
    <2>1. \A e \in journal : e.type \in {"SALE_INVOICE", "SALE_VOID"} /\ e.source = i
                               => e.amount = Total[i]
      BY DEF LInv, EntriesWellFounded, WellFounded, SaleTypes, PaymentTypes
    <2>2. \A e \in EntriesOf(journal, "SALE_INVOICE", i) : e.amount = Total[i]
      BY <2>1 DEF EntriesOf
    <2>3. \A e \in EntriesOf(journal, "SALE_VOID", i) : e.amount = Total[i]
      BY <2>1 DEF EntriesOf
    <2> QED
      BY <1>1, <2>2, <2>3, AmountOfEntry DEF Sold
  <1>6. IsFiniteSet(paids) /\ AmountOf(paids) = paid[i]
    <2>1. \A p \in P : Posted(journal, "SALE_PAYMENT", p.id)
      BY <1>2 DEF SInv, PaymentsFounded
    <2>2. \A p \in P : \A e \in EntriesOf(journal, "SALE_PAYMENT", p.id) : e.amount = p.amount
      BY <1>2 DEF EntriesOf, LInv, EntriesWellFounded, WellFounded, SaleTypes, PaymentTypes,
                  SInv, PaymentsNumbered
    <2> QED
      BY <1>1, <1>2, <1>3, <2>1, <2>2, AmountOfEntries
  <1>7. /\ IsFiniteSet(backs)
        /\ AmountOf(backs) = IF Posted(journal, "SALE_VOID", i) THEN paid[i] ELSE 0
    <2>1. CASE Posted(journal, "SALE_VOID", i)
      <3>1. \A p \in P : Posted(journal, "SALE_PAYMENT_REVERSAL", p.id)
        BY <1>1, <2>1 DEF LInv, VoidUnwinds, P, SInv, VoidFounded
      <3>2. \A p \in P : \A e \in EntriesOf(journal, "SALE_PAYMENT_REVERSAL", p.id) :
              e.amount = p.amount
        BY <1>2 DEF EntriesOf, LInv, EntriesWellFounded, WellFounded, SaleTypes, PaymentTypes,
                    SInv, PaymentsNumbered
      <3> QED
        BY <1>1, <1>2, <1>3, <2>1, <3>1, <3>2, AmountOfEntries
    <2>2. CASE ~Posted(journal, "SALE_VOID", i)
      <3>1. \A p \in P : ~Posted(journal, "SALE_PAYMENT_REVERSAL", p.id)
        BY <1>2, <1>4, <2>2 DEF Posted, EntriesOf, SInv, ReversalsFounded, PaymentsNumbered
      <3> QED
        BY <2>2, <3>1, AmountOfNoEntries
    <2> QED
      BY <2>1, <2>2
  <1>8. /\ sale \cap backs = {} /\ void \cap paids = {}
        /\ HasAmounts(sale) /\ HasAmounts(void) /\ HasAmounts(paids) /\ HasAmounts(backs)
    BY <1>1 DEF EntriesOf, EntriesFor, HasAmounts
  <1>9. Balance("AR", EntriesAbout(i)) = AmountOf(sale \cup backs) - AmountOf(void \cup paids)
    BY <1>1, ReceivableEntries DEF Balance, P
  <1> HIDE DEF sale, void, paids, backs
  <1>10. /\ AmountOf(sale \cup backs) = AmountOf(sale) + AmountOf(backs)
         /\ AmountOf(void \cup paids) = AmountOf(void) + AmountOf(paids)
    BY <1>5, <1>6, <1>7, <1>8, AmountOfBoth
  <1>11. /\ Posted(journal, "SALE_VOID", i) <=> status[i] = "VOID" /\ Sold(i)
         /\ status[i] \in Released => Sold(i)
         /\ status[i] \in {"NONE", "DRAFT"} => ~Sold(i)
         /\ ~Sold(i) => paid[i] = 0
         /\ status[i] \in Status
    <2>1. ASSUME ~Sold(i) PROVE paid[i] = 0
      <3>1. P = {}
        BY <1>2, <1>4, <2>1 DEF SInv, PaymentsFounded
      <3> QED
        BY <1>3, <3>1, AmountOfNone
    <2> QED
      BY <1>1, <2>1 DEF LInv, VoidUnwinds, SInv, VoidFounded, Booked, TypeOK
  <1> QED
    BY <1>1, <1>5, <1>6, <1>7, <1>9, <1>10, <1>11 DEF Due, Released, Status

\* The ledger never drifts from the operational data (LedgerService): the
\* receivable of an invoice about which requests do not overlap is what the
\* invoice says is due, whatever overlapping requests do to the others.
THEOREM SalesLedgerMatchesInvoices == Spec => []LedgerMatchesInvoices
  <1>1. Init => SInv /\ LInv
    BY SInvInit, LInvInit
  <1>2. SInv /\ LInv /\ [Next]_vars => (SInv /\ LInv)'
    BY SInvNext, LInvNext
  <1>3. SInv /\ LInv => LedgerMatchesInvoices
    BY ReceivableIsDue
  <1> QED
    BY <1>1, <1>2, <1>3, PTL DEF Spec

-----------------------------------------------------------------------------
(* Stock                                                                   *)

\* What the invoices of an item hold of it.
HeldUnits == [i \in Invoices |-> Qty[i] * Held(i)]

LEMMA HeldIsInt ==
  ASSUME SInv
  PROVE  /\ \A i \in Invoices : Held(i) \in Int /\ HeldUnits[i] \in Int
         /\ \A x : IsFiniteSet(OnItem(x)) /\ Numeric(HeldUnits, OnItem(x))
  <1> USE SalesAssumption
  <1>1. \A i \in Invoices : Held(i) \in Int
    BY DEF Held, SInv, TypeOK
  <1>2. \A i \in Invoices : HeldUnits[i] = Qty[i] * Held(i) /\ Qty[i] \in Int
    BY DEF HeldUnits
  <1>3. \A m, n \in Int : m * n \in Int
    OBVIOUS
  <1>4. \A i \in Invoices : HeldUnits[i] \in Int
    BY <1>1, <1>2, <1>3
  <1>5. \A x : OnItem(x) \subseteq Invoices
    BY DEF OnItem
  <1>6. \A x : IsFiniteSet(OnItem(x))
    BY <1>5, FS_Subset
  <1> QED
    BY <1>1, <1>4, <1>5, <1>6 DEF Numeric

\* A product that the prover need not look into.
Times(m, n) == m * n

\* A step that moves as many units of the item as it changes what one invoice
\* of it holds keeps the agreement.
LEMMA StockMoves ==
  ASSUME SInv, StockMatchesInvoices, NEW i \in Invoices, NEW d \in Int, NEW n \in Int,
         \A j \in Invoices \ {i} : Held(j)' = Held(j),
         Held(i)' = Held(i) + d, n = Times(Qty[i], d),
         stock' = [stock EXCEPT ![ItemOf[i]] = stock[ItemOf[i]] - n]
  PROVE  StockMatchesInvoices'
  <1> USE SalesAssumption
  <1> DEFINE g == HeldUnits'
  <1>0. /\ stock \in [Items -> Int] /\ ItemOf[i] \in Items /\ Qty[i] \in Int
        /\ \A x \in Items : InitStock[x] \in Int
    <2>1. stock \in [Items -> Int]
      BY DEF SInv, TypeOK
    <2>2. ItemOf[i] \in Items /\ Qty[i] \in Int
      OBVIOUS
    <2>3. \A x \in Items : InitStock[x] \in Int
      OBVIOUS
    <2> QED
      BY <2>1, <2>2, <2>3
  <1>00. \A x \in Items : stock[x] = InitStock[x] - SumFunctionOnSet(HeldUnits, OnItem(x))
    BY DEF StockMatchesInvoices, HeldUnits
  <1>1. \A j \in Invoices : g[j] = Qty[j] * Held(j)' /\ HeldUnits[j] = Qty[j] * Held(j)
    BY DEF HeldUnits
  <1>2. \A j \in Invoices \ {i} : g[j] = HeldUnits[j]
    BY <1>1
  <1>3. g[i] = HeldUnits[i] + n
    <2>1. Held(i) \in Int
      BY HeldIsInt
    <2>2. \A q, h, e \in Int : q * (h + e) = q * h + q * e
      OBVIOUS
    <2> QED
      BY <1>0, <1>1, <2>1, <2>2 DEF Times
  <1>4. HeldUnits[i] \in Int /\ g[i] \in Int
    BY <1>3, HeldIsInt
  <1> HIDE DEF g
  <1>5. ASSUME NEW x \in Items, x # ItemOf[i]
        PROVE  stock'[x] = InitStock[x] - SumFunctionOnSet(g, OnItem(x))
    <2>1. \A j \in OnItem(x) : g[j] = HeldUnits[j]
      BY <1>2, <1>5 DEF OnItem
    <2>2. SumFunctionOnSet(g, OnItem(x)) = SumFunctionOnSet(HeldUnits, OnItem(x))
      BY <2>1, HeldIsInt, SumAgrees
    <2>3. stock'[x] = stock[x]
      BY <1>0, <1>5
    <2> QED
      BY <1>00, <2>2, <2>3
  <1>6. stock'[ItemOf[i]] = InitStock[ItemOf[i]] - SumFunctionOnSet(g, OnItem(ItemOf[i]))
    <2> DEFINE S == OnItem(ItemOf[i])
    <2>1. i \in S /\ IsFiniteSet(S) /\ Numeric(HeldUnits, S)
      BY HeldIsInt DEF OnItem
    <2>2. \A j \in S \ {i} : HeldUnits[j] = g[j]
      BY <1>2 DEF OnItem
    <2> HIDE DEF S
    <2>3. SumFunctionOnSet(g, S) = SumFunctionOnSet(HeldUnits, S) - HeldUnits[i] + g[i]
      BY <1>4, <2>1, <2>2, SumChangesAt
    <2>4. SumFunctionOnSet(HeldUnits, S) \in Int
      BY <2>1, SumIsInt
    <2>5. stock[ItemOf[i]] = InitStock[ItemOf[i]] - SumFunctionOnSet(HeldUnits, S)
      BY <1>0, <1>00 DEF S
    <2>6. stock'[ItemOf[i]] = stock[ItemOf[i]] - n
      BY <1>0
    <2>7. stock'[ItemOf[i]] = InitStock[ItemOf[i]] - SumFunctionOnSet(g, S)
      BY <1>0, <1>3, <1>4, <2>3, <2>4, <2>5, <2>6
    <2> QED
      BY <2>7 DEF S
  <1>7. \A x \in Items : stock'[x] = InitStock[x] - SumFunctionOnSet(g, OnItem(x))
    BY <1>5, <1>6
  <1> QED
    BY <1>7 DEF StockMatchesInvoices, HeldUnits, g, OnItem

LEMMA StockSame ==
  ASSUME StockMatchesInvoices, UNCHANGED stock, \A i \in Invoices : Held(i)' = Held(i)
  PROVE  StockMatchesInvoices'
  <1>1. HeldUnits' = HeldUnits
    BY DEF HeldUnits
  <1> QED
    BY <1>1 DEF StockMatchesInvoices, HeldUnits, OnItem

LEMMA StockNext ==
  ASSUME SInv, StockMatchesInvoices, [Next]_vars
  PROVE  StockMatchesInvoices'
  <1> USE SalesAssumption
  <1>0. /\ stock \in [Items -> Int] /\ status \in [Invoices -> Status]
        /\ out \in [Invoices -> Nat] /\ back \in [Invoices -> Nat]
        /\ \A i \in Invoices : Qty[i] \in Nat
    BY DEF SInv, TypeOK
  <1>1. ASSUME NEW i \in Invoices, NEW s, status' = [status EXCEPT ![i] = s],
               UNCHANGED <<stock, out, back>>,
               i \in Serialized => (s \in Released <=> status[i] \in Released)
        PROVE  StockMatchesInvoices'
    <2>1. \A j \in Invoices : status'[j] = IF j = i THEN s ELSE status[j]
      BY <1>0, <1>1
    <2>2. \A j \in Invoices : Held(j)' = Held(j)
      BY <1>1, <2>1 DEF Held
    <2> QED
      BY <1>1, <2>2, StockSame
  <1>2. ASSUME UNCHANGED <<status, stock, out, back>> PROVE StockMatchesInvoices'
    BY <1>2, StockSame DEF Held
  <1>3. ASSUME NEW i \in Invoices, CreateDraft(i) PROVE StockMatchesInvoices'
    BY <1>1, <1>3 DEF CreateDraft, goods, Released
  <1>4. ASSUME NEW r \in Requests, ConfirmCommit(r) PROVE StockMatchesInvoices'
    <2>1. CASE ~ConfirmAccepted(inv[r])
      BY <1>2, <1>4, <2>1 DEF ConfirmCommit, Rollback, docs, goods
    <2>2. CASE ConfirmAccepted(inv[r])
      <3>0. op[r] = "confirmStocked" /\ inv[r] \in Invoices
        BY <1>4 DEF ConfirmCommit, SInv, TypeOK, CallKnows
      <3> PICK i \in Invoices : i = inv[r]
        BY <3>0
      <3>1. /\ status[i] = "DRAFT" /\ status' = [status EXCEPT ![i] = "CONFIRMED"]
            /\ stock' = [stock EXCEPT ![ItemOf[i]] = @ - Qty[i]]
            /\ out' = [out EXCEPT ![i] = @ + 1] /\ UNCHANGED back
        BY <1>4, <2>2, <3>0 DEF ConfirmCommit, ConfirmAccepted
      <3>2. \A j \in Invoices \ {i} : Held(j)' = Held(j)
        BY <1>0, <3>1 DEF Held
      <3>3. Held(i)' = Held(i) + 1
        BY <1>0, <3>1 DEF Held, Released
      <3>4. Qty[i] = Times(Qty[i], 1) /\ Qty[i] \in Int /\ 1 \in Int
        BY <1>0 DEF Times
      <3>5. stock' = [stock EXCEPT ![ItemOf[i]] = stock[ItemOf[i]] - Qty[i]]
        BY <3>1
      <3> QED
        BY <3>2, <3>3, <3>4, <3>5, StockMoves, ZenonT(60)
    <2> QED
      BY <2>1, <2>2
  <1>5. ASSUME NEW r \in Requests, VoidCommit(r) PROVE StockMatchesInvoices'
    <2>0. /\ op[r] = "void" /\ inv[r] \in Invoices
          /\ inv[r] \in Serialized => status[inv[r]] = seen[r].status
          /\ seen[r].status \in {"DRAFT"} \cup Released
      BY <1>5 DEF VoidCommit, SInv, TypeOK, CallKnows, CallAlone
    <2> PICK i \in Invoices : i = inv[r]
      BY <2>0
    <2>1. CASE ~WasReleased(r)
      <3>1. /\ status' = [status EXCEPT ![i] = "VOID"] /\ UNCHANGED <<stock, out, back>>
            /\ i \in Serialized => status[i] = "DRAFT"
        BY <1>5, <2>0, <2>1 DEF VoidCommit, WasReleased, goods
      <3> QED
        BY <1>1, <3>1 DEF Released
    <2>2. CASE WasReleased(r) /\ <<CreditNote, i>> \in queued
      BY <1>2, <1>5, <2>2 DEF VoidCommit, Rollback, docs, goods
    <2>3. CASE WasReleased(r) /\ <<CreditNote, i>> \notin queued
      <3>1. /\ i \in Serialized => status[i] \in Released
            /\ status' = [status EXCEPT ![i] = "VOID"]
            /\ stock' = [stock EXCEPT ![ItemOf[i]] = @ + Qty[i]]
            /\ back' = [back EXCEPT ![i] = @ + 1] /\ UNCHANGED out
        BY <1>5, <2>0, <2>3 DEF VoidCommit, WasReleased
      <3>2. \A j \in Invoices \ {i} : Held(j)' = Held(j)
        BY <1>0, <3>1 DEF Held
      <3>3. Held(i)' = Held(i) + (-1)
        BY <1>0, <3>1 DEF Held, Released
      <3>4. -Qty[i] = Times(Qty[i], -1) /\ -Qty[i] \in Int /\ -1 \in Int
        <4>1. \A q \in Nat : -q = q * (-1) /\ -q \in Int
          OBVIOUS
        <4> QED
          BY <1>0, <4>1 DEF Times
      <3>5. stock' = [stock EXCEPT ![ItemOf[i]] = stock[ItemOf[i]] - (-Qty[i])]
        <4>1. stock[ItemOf[i]] + Qty[i] = stock[ItemOf[i]] - (-Qty[i])
          BY <1>0
        <4> QED
          BY <3>1, <4>1
      <3> QED
        BY <3>2, <3>3, <3>4, <3>5, StockMoves, ZenonT(60)
    <2> QED
      BY <2>1, <2>2, <2>3
  <1>6. ASSUME NEW r \in Requests, PayCommit(r) PROVE StockMatchesInvoices'
    <2>0. /\ op[r] = "pay" /\ inv[r] \in Invoices
          /\ inv[r] \in Serialized => status[inv[r]] \in Released
      BY <1>6 DEF PayCommit, SInv, TypeOK, CallKnows, CallAlone, Released
    <2>1. CASE ~SamePaid(r)
      BY <1>2, <1>6, <2>1 DEF PayCommit, Rollback, docs, goods
    <2>2. CASE SamePaid(r)
      <3>1. \E s \in Released : status' = [status EXCEPT ![inv[r]] = s]
        BY <1>6, <2>2 DEF PayCommit, StatusAfter, Released
      <3>2. UNCHANGED <<stock, out, back>>
        BY <1>6, <2>2 DEF PayCommit, goods
      <3> QED
        BY <1>1, <2>0, <3>1, <3>2
    <2> QED
      BY <2>1, <2>2
  <1> QED
    BY <1>2, <1>3, <1>4, <1>5, <1>6
    DEF Next, vars, docs, goods, Environment, Request, ConfirmRead, ConfirmReadItem, VoidRead,
        PayRead, TriggerSubmit, EventSettles, ChangePrice

\* Stock on hand is what was there less the goods of the invoices that hold: of
\* a serialized one as its status says, whatever overlaps on other invoices of
\* the same item (confirmInvoice, voidInvoice).
THEOREM SalesStockMatchesInvoices == Spec => []StockMatchesInvoices
  <1>1. Init => SInv /\ StockMatchesInvoices
    <2>1. Init => StockMatchesInvoices
      <3> SUFFICES ASSUME Init, NEW x \in Items
                   PROVE  stock[x] = InitStock[x] - SumFunctionOnSet(HeldUnits, OnItem(x))
        BY DEF StockMatchesInvoices, HeldUnits
      <3>1. \A i \in Invoices : Held(i) = 0 /\ Qty[i] \in Nat
        BY SalesAssumption DEF Init, Held, Released
      <3>2. \A i \in OnItem(x) : HeldUnits[i] = 0
        BY <3>1 DEF HeldUnits, OnItem
      <3>3. IsFiniteSet(OnItem(x))
        BY SInvInit, HeldIsInt
      <3> QED
        BY <3>2, <3>3, SumOfZeros, SalesAssumption DEF Init
    <2> QED
      BY <2>1, SInvInit
  <1>2. (SInv /\ StockMatchesInvoices) /\ [Next]_vars => (SInv /\ StockMatchesInvoices)'
    BY SInvNext, StockNext
  <1> QED
    BY <1>1, <1>2, PTL DEF Spec

-----------------------------------------------------------------------------
(* Credit notes                                                            *)

\* What is paid of an invoice of that total, going by its status.
PaidFits(s, p, total) ==
    /\ s \in {"NONE", "DRAFT", "CONFIRMED"} => p = 0
    /\ s = "PARTIALLY_PAID" => p \in 1..(total - 1)
    /\ s = "PAID" => p >= total

NotedTypes ==
    /\ status \in [Invoices -> Status]
    /\ paid \in [Invoices -> Nat]
    /\ op \in [Requests -> Steps \cup {"issue"}]
    /\ inv \in [Requests -> Invoices \cup {None}]
    /\ seen \in [Requests -> [status : Status, paid : Nat, cost : Nat]]
    /\ amt \in [Requests -> Nat]
    /\ price \in [Items -> Prices]
    /\ noteStatus \in [Notes -> NoteStatus]
    /\ noteBack \in [Notes -> Nat]
    /\ handling \in [Requests -> Notes \cup {None}]

\* A request that issues a note is about the invoice of the note, and read it
\* as some step left it.
NotedCall(r) ==
    /\ op[r] = "idle" => inv[r] = None
    /\ op[r] \in {"confirm", "confirmStocked", "void", "pay"} => inv[r] \in Invoices
    /\ op[r] = "pay" => amt[r] \in Amounts
    /\ op[r] = "issue" =>
         /\ handling[r] \in Notes /\ inv[r] = Reference[handling[r]]
         /\ inv[r] # None => PaidFits(seen[r].status, seen[r].paid, Total[inv[r]])

\* Payment rows have numbers and amounts.
PaymentRows ==
    /\ IsFiniteSet(payments) /\ HasAmounts(payments)
    /\ \A p \in payments : p.id \in 1..Cardinality(payments)

NInv ==
    /\ NotedTypes
    /\ \A r \in Requests : NotedCall(r)
    /\ PaymentRows
    /\ StatusMatchesPaid
    /\ NoteCountsOnce
    /\ PaidAccountsForNotes

LEMMA FitsIsMatches == StatusMatchesPaid <=> \A i \in Invoices : PaidFits(status[i], paid[i], Total[i])
  BY DEF StatusMatchesPaid, PaidFits

LEMMA NInvInit == NotedInit => NInv
  <1> SUFFICES ASSUME NotedInit PROVE NInv
    OBVIOUS
  <1> USE SalesAssumption, CreditNotesAssumption
  <1>1. NotedTypes /\ \A r \in Requests : NotedCall(r)
    BY DEF NotedInit, Init, NotedTypes, NotedCall, Status, Steps, NoView, NoteStatus
  <1>2. PaymentRows /\ StatusMatchesPaid
    BY FS_EmptySet DEF NotedInit, Init, PaymentRows, HasAmounts, StatusMatchesPaid
  <1>3. NoteCountsOnce
    BY DEF NotedInit, Init, NoteCountsOnce, Posted, EntriesOf
  <1>4. PaidAccountsForNotes
    <2>1. \A i : PaymentsOf(i) = {} /\ (i \in Invoices => Issued(i) = {})
      BY DEF NotedInit, Init, PaymentsOf, Issued
    <2>2. \A i \in Invoices : Received(i) = 0 /\ Credited(i) = 0
      BY <2>1, AmountOfNone, SumOfNothing DEF Received, Credited
    <2> QED
      BY <2>2 DEF PaidAccountsForNotes, NotedInit, Init
  <1> QED
    BY <1>1, <1>2, <1>3, <1>4 DEF NInv

\* The sums are over finite sets of numbers.
LEMMA NotedSums ==
  ASSUME NInv, NEW i \in Invoices
  PROVE  /\ Received(i) \in Nat /\ Credited(i) \in Nat
         /\ IsFiniteSet(Issued(i)) /\ Numeric(NoteTotal, Issued(i))
  <1>1. Issued(i) \subseteq Notes
    BY DEF Issued
  <1>2. /\ IsFiniteSet(Issued(i)) /\ Numeric(NoteTotal, Issued(i))
        /\ \A n \in Issued(i) : NoteTotal[n] \in Nat
    BY <1>1, FS_Subset, CreditNotesAssumption DEF Numeric
  <1>3. PaymentsOf(i) \subseteq payments
    BY DEF PaymentsOf
  <1>4. IsFiniteSet(PaymentsOf(i)) /\ HasAmounts(PaymentsOf(i))
    BY <1>3, FS_Subset DEF NInv, PaymentRows, HasAmounts
  <1> QED
    BY <1>2, <1>4, SumIsNat, AmountIsNat DEF Received, Credited

\* A step that changes no note, payment or amountPaid and posts no CREDIT_NOTE.
LEMMA NotesSame ==
  ASSUME NInv, NotedTypes', \A r \in Requests : NotedCall(r)',
         UNCHANGED <<paid, payments, noteStatus, noteBack>>,
         \A n \in Notes : Posted(journal', "CREDIT_NOTE", n) <=> Posted(journal, "CREDIT_NOTE", n),
         \A i \in Invoices : status'[i] # status[i] => PaidFits(status'[i], paid[i], Total[i])
  PROVE  NInv'
  <1>1. PaymentRows' /\ NoteCountsOnce'
    BY DEF NInv, PaymentRows, NoteCountsOnce
  <1>2. StatusMatchesPaid'
    <2>1. \A i \in Invoices : PaidFits(status[i], paid[i], Total[i])
      BY FitsIsMatches DEF NInv
    <2>2. \A i \in Invoices : PaidFits(status'[i], paid[i], Total[i])
      BY <2>1
    <2> QED
      BY <2>2 DEF StatusMatchesPaid, PaidFits
  <1>3. PaidAccountsForNotes'
    BY DEF NInv, PaidAccountsForNotes, Received, Credited, PaymentsOf, Issued
  <1> QED
    BY <1>1, <1>2, <1>3 DEF NInv

\* Finishing one request leaves the others as they are.
LEMMA FinishNoted ==
  ASSUME NInv, NEW r \in Requests, Finish(r),
         \A q \in Requests : q # r => handling'[q] = handling[q],
         handling' \in [Requests -> Notes \cup {None}]
  PROVE  /\ op' \in [Requests -> Steps \cup {"issue"}]
         /\ inv' \in [Requests -> Invoices \cup {None}]
         /\ seen' \in [Requests -> [status : Status, paid : Nat, cost : Nat]]
         /\ amt' \in [Requests -> Nat]
         /\ \A q \in Requests : NotedCall(q)'
  <1>1. /\ op' \in [Requests -> Steps \cup {"issue"}]
        /\ inv' \in [Requests -> Invoices \cup {None}]
        /\ seen' \in [Requests -> [status : Status, paid : Nat, cost : Nat]]
        /\ amt' \in [Requests -> Nat]
    BY DEF NInv, NotedTypes, Finish, Steps, Status, NoView
  <1>2. op'[r] = "idle" /\ inv'[r] = None
    BY DEF NInv, NotedTypes, Finish
  <1>3. \A q \in Requests : q # r => /\ op'[q] = op[q] /\ inv'[q] = inv[q]
                                     /\ seen'[q] = seen[q] /\ amt'[q] = amt[q]
    BY DEF NInv, NotedTypes, Finish
  <1>4. \A q \in Requests : NotedCall(q)'
    BY <1>2, <1>3 DEF NInv, NotedCall
  <1> QED
    BY <1>1, <1>4

LEMMA BeginNoted ==
  ASSUME NInv, NEW r \in Requests, NEW i \in Invoices, NEW step, NEW a \in Nat,
         Begin(r, step, i, a),
         \/ step \in {"confirm", "void"} /\ handling' = handling
         \/ step = "pay" /\ a \in Amounts /\ handling' = handling
         \/ /\ step = "issue"
            /\ \E n \in Notes : Reference[n] = i /\ handling' = [handling EXCEPT ![r] = n]
  PROVE  /\ op' \in [Requests -> Steps \cup {"issue"}]
         /\ inv' \in [Requests -> Invoices \cup {None}]
         /\ seen' \in [Requests -> [status : Status, paid : Nat, cost : Nat]]
         /\ amt' \in [Requests -> Nat]
         /\ handling' \in [Requests -> Notes \cup {None}]
         /\ \A q \in Requests : NotedCall(q)'
  <1>1. /\ op' \in [Requests -> Steps \cup {"issue"}]
        /\ inv' \in [Requests -> Invoices \cup {None}]
        /\ seen' \in [Requests -> [status : Status, paid : Nat, cost : Nat]]
        /\ amt' \in [Requests -> Nat]
    BY DEF NInv, NotedTypes, Begin, Steps, View
  <1>2. handling' \in [Requests -> Notes \cup {None}]
    BY DEF NInv, NotedTypes
  <1>3. op'[r] = step /\ inv'[r] = i /\ seen'[r] = View(i) /\ amt'[r] = a
    BY DEF NInv, NotedTypes, Begin
  <1>4. \A q \in Requests : q # r => /\ op'[q] = op[q] /\ inv'[q] = inv[q] /\ seen'[q] = seen[q]
                                     /\ amt'[q] = amt[q] /\ handling'[q] = handling[q]
    BY DEF NInv, NotedTypes, Begin
  <1>5. PaidFits(View(i).status, View(i).paid, Total[i])
    BY FitsIsMatches DEF NInv, View
  <1>6. step = "issue" => handling'[r] \in Notes /\ Reference[handling'[r]] = i
    BY DEF NInv, NotedTypes
  <1>7. i # None
    BY SalesAssumption
  <1>8. \A q \in Requests : NotedCall(q)'
    BY <1>3, <1>4, <1>5, <1>6, <1>7 DEF NInv, NotedCall
  <1> QED
    BY <1>1, <1>2, <1>8

LEMMA RollbackNoted ==
  ASSUME NInv, NEW r \in Requests, Finish(r), UNCHANGED <<docs, goods, journal, noteStatus, noteBack>>,
         \A q \in Requests : q # r => handling'[q] = handling[q],
         handling' \in [Requests -> Notes \cup {None}]
  PROVE  NInv'
  <1>1. NotedTypes' /\ \A q \in Requests : NotedCall(q)'
    BY FinishNoted DEF NInv, NotedTypes, docs, goods
  <1> QED
    BY <1>1, NotesSame DEF docs

\* Only entries of other types are posted by confirms, voids and payments.
LEMMA NotesUnposted ==
  ASSUME journal \subseteq journal', \A e \in journal' : e \in journal \/ e.type # "CREDIT_NOTE"
  PROVE  \A n : Posted(journal', "CREDIT_NOTE", n) <=> Posted(journal, "CREDIT_NOTE", n)
  BY PostedGrows, PostedIsOldOrNew

LEMMA ConfirmNoted ==
  ASSUME NInv, NEW r \in Requests, ConfirmCommit(r), UNCHANGED noteVars
  PROVE  NInv'
  <1> USE SalesAssumption
  <1>1. op[r] = "confirmStocked" /\ inv[r] \in Invoices
    BY DEF ConfirmCommit, NInv, NotedCall
  <1>2. CASE ~ConfirmAccepted(inv[r])
    BY <1>2, RollbackNoted DEF ConfirmCommit, Rollback, noteVars, NInv, NotedTypes
  <1>3. CASE ConfirmAccepted(inv[r])
    <2>1. /\ status[inv[r]] = "DRAFT" /\ status' = [status EXCEPT ![inv[r]] = "CONFIRMED"]
          /\ Finish(r) /\ UNCHANGED <<paid, payments, price, noteVars>>
          /\ \E cost : journal' = PostCost(Post(journal, "SALE_INVOICE", inv[r], Total[inv[r]]),
                                           "SALE_COGS", inv[r], cost)
      BY <1>3 DEF ConfirmCommit, ConfirmAccepted
    <2>2. NotedTypes' /\ \A q \in Requests : NotedCall(q)'
      BY <1>1, <2>1, FinishNoted DEF NInv, NotedTypes, noteVars, Status
    <2>3. \A n : Posted(journal', "CREDIT_NOTE", n) <=> Posted(journal, "CREDIT_NOTE", n)
      <3>1. /\ journal \subseteq journal'
            /\ \A e \in journal' : e \in journal \/ e.type # "CREDIT_NOTE"
        BY <2>1, PostIs, PostCostIs DEF Entry
      <3> QED
        BY <3>1, NotesUnposted
    <2>4. \A i \in Invoices : status'[i] # status[i] => PaidFits(status'[i], paid[i], Total[i])
      <3>1. PaidFits(status[inv[r]], paid[inv[r]], Total[inv[r]])
        BY <1>1, FitsIsMatches DEF NInv
      <3> QED
        BY <1>1, <2>1, <3>1 DEF NInv, NotedTypes, PaidFits
    <2> QED
      BY <2>1, <2>2, <2>3, <2>4, NotesSame DEF noteVars
  <1> QED
    BY <1>2, <1>3

LEMMA VoidNoted ==
  ASSUME NInv, NEW r \in Requests, VoidCommit(r), UNCHANGED noteVars
  PROVE  NInv'
  <1> USE SalesAssumption
  <1>1. op[r] = "void" /\ inv[r] \in Invoices
    BY DEF VoidCommit, NInv, NotedCall
  <1>2. CASE WasReleased(r) /\ <<CreditNote, inv[r]>> \in queued
    BY <1>2, RollbackNoted DEF VoidCommit, Rollback, noteVars, NInv, NotedTypes
  <1>3. CASE ~(WasReleased(r) /\ <<CreditNote, inv[r]>> \in queued)
    <2>1. /\ status' = [status EXCEPT ![inv[r]] = "VOID"]
          /\ Finish(r) /\ UNCHANGED <<paid, payments, price, noteVars>>
          /\ \/ UNCHANGED journal
             \/ \E cost : journal' = ReversePayments(PostVoid(journal, inv[r], cost), inv[r])
      BY <1>3 DEF VoidCommit, goods
    <2>2. NotedTypes' /\ \A q \in Requests : NotedCall(q)'
      BY <1>1, <2>1, FinishNoted DEF NInv, NotedTypes, noteVars, Status
    <2>3. \A n : Posted(journal', "CREDIT_NOTE", n) <=> Posted(journal, "CREDIT_NOTE", n)
      <3>1. /\ journal \subseteq journal'
            /\ \A e \in journal' : e \in journal \/ e.type # "CREDIT_NOTE"
        BY <2>1, VoidIs DEF Entry
      <3> QED
        BY <3>1, NotesUnposted
    <2>4. \A i \in Invoices : status'[i] # status[i] => PaidFits(status'[i], paid[i], Total[i])
      BY <1>1, <2>1 DEF NInv, NotedTypes, PaidFits
    <2> QED
      BY <2>1, <2>2, <2>3, <2>4, NotesSame DEF noteVars
  <1> QED
    BY <1>2, <1>3

LEMMA PayNoted ==
  ASSUME NInv, NEW r \in Requests, PayCommit(r), UNCHANGED noteVars
  PROVE  NInv'
  <1> USE SalesAssumption
  <1>0. op[r] = "pay" /\ inv[r] \in Invoices /\ amt[r] \in Nat \ {0}
    BY DEF PayCommit, NInv, NotedCall
  <1>1. CASE ~SamePaid(r)
    BY <1>1, RollbackNoted DEF PayCommit, Rollback, noteVars, NInv, NotedTypes
  <1>2. CASE SamePaid(r)
    <2> PICK i \in Invoices : i = inv[r]
      BY <1>0
    <2> DEFINE newPaid == paid[i] + amt[r]
               payment == [id |-> Cardinality(payments) + 1, invoice |-> i, amount |-> amt[r]]
    <2>1. /\ paid' = [paid EXCEPT ![i] = newPaid]
          /\ payments' = payments \cup {payment}
          /\ status' = [status EXCEPT ![i] = StatusAfter(i, newPaid)]
          /\ journal' = Post(journal, "SALE_PAYMENT", payment.id, amt[r])
          /\ Finish(r) /\ UNCHANGED <<price, noteVars>>
      BY <1>2 DEF PayCommit, SamePaid, goods
    <2>2. /\ payment.invoice = i /\ payment.amount = amt[r]
          /\ payment.id = Cardinality(payments) + 1
      OBVIOUS
    <2> HIDE DEF payment
    <2>3. /\ IsFiniteSet(payments) /\ HasAmounts(payments) /\ Cardinality(payments) \in Nat
          /\ payment \notin payments
      BY <2>2, FS_CardinalityType DEF NInv, PaymentRows
    <2>4. newPaid \in Nat \ {0} /\ Total[i] \in Nat /\ paid[i] \in Nat
      BY <1>0 DEF NInv, NotedTypes
    <2>5. NotedTypes' /\ \A q \in Requests : NotedCall(q)'
      BY <2>1, <2>4, FinishNoted DEF NInv, NotedTypes, noteVars, Status, StatusAfter
    <2>6. PaymentRows'
      <3>1. IsFiniteSet(payments') /\ Cardinality(payments') = Cardinality(payments) + 1
        BY <2>1, <2>3, FS_AddElement
      <3> QED
        <4>1. \A p \in payments : p.amount \in Nat /\ p.id \in 1..Cardinality(payments)
          BY DEF NInv, PaymentRows, HasAmounts
        <4>2. \A p \in payments' : p.amount \in Nat /\ p.id \in 1..(Cardinality(payments) + 1)
          BY <1>0, <2>1, <2>2, <2>3, <4>1
        <4> QED
          BY <3>1, <4>2 DEF PaymentRows, HasAmounts
    <2>7. StatusMatchesPaid'
      <3>1. \A j \in Invoices : PaidFits(status[j], paid[j], Total[j])
        BY FitsIsMatches DEF NInv
      <3>2. PaidFits(StatusAfter(i, newPaid), newPaid, Total[i])
        BY <2>4 DEF PaidFits, StatusAfter
      <3>3. \A j \in Invoices : PaidFits(status'[j], paid'[j], Total[j])
        BY <2>1, <3>1, <3>2 DEF NInv, NotedTypes
      <3> QED
        BY <3>3 DEF StatusMatchesPaid, PaidFits
    <2>8. NoteCountsOnce'
      <3>1. /\ journal \subseteq journal'
            /\ \A e \in journal' : e \in journal \/ e.type # "CREDIT_NOTE"
        BY <2>1, PostIs DEF Entry
      <3>2. \A n : Posted(journal', "CREDIT_NOTE", n) <=> Posted(journal, "CREDIT_NOTE", n)
        BY <3>1, NotesUnposted
      <3> QED
        BY <2>1, <3>2 DEF NInv, NoteCountsOnce, noteVars
    <2>9. PaidAccountsForNotes'
      <3>1. /\ AmountOf(PaymentsOf(i)') = AmountOf(PaymentsOf(i)) + payment.amount
            /\ \A j \in Invoices \ {i} : PaymentsOf(j)' = PaymentsOf(j)
        BY <1>0, <2>1, <2>2, <2>3, ReceivedAfter
      <3>2. Received(i)' = Received(i) + amt[r]
        BY <2>2, <3>1 DEF Received
      <3>3. \A j \in Invoices \ {i} : Received(j)' = Received(j)
        BY <3>1 DEF Received
      <3>4. \A j \in Invoices : Credited(j)' = Credited(j)
        BY <2>1 DEF Credited, Issued, noteVars
      <3>5. \A j \in Invoices : paid'[j] = IF j = i THEN newPaid ELSE paid[j]
        BY <2>1 DEF NInv, NotedTypes
      <3>6. Received(i) \in Nat /\ Credited(i) \in Nat
        BY NotedSums
      <3>7. \A j \in Invoices : paid[j] <= Received(j) /\ paid[j] >= Received(j) - Credited(j)
        BY DEF NInv, PaidAccountsForNotes
      <3>8. newPaid <= Received(i) + amt[r] /\ newPaid >= Received(i) + amt[r] - Credited(i)
        BY <1>0, <2>4, <3>6, <3>7
      <3>9. \A j \in Invoices : /\ paid'[j] <= Received(j)'
                                /\ paid'[j] >= Received(j)' - Credited(j)'
        <4>1. ASSUME NEW j \in Invoices, j # i
              PROVE  paid'[j] <= Received(j)' /\ paid'[j] >= Received(j)' - Credited(j)'
          <5>1. /\ paid'[j] = paid[j] /\ Received(j)' = Received(j)
                /\ Credited(j)' = Credited(j)
            BY <3>3, <3>4, <3>5, <4>1
          <5> QED
            BY <3>7, <5>1
        <4>2. /\ paid'[i] = newPaid /\ Received(i)' = Received(i) + amt[r]
              /\ Credited(i)' = Credited(i)
          BY <3>2, <3>4, <3>5
        <4>3. paid'[i] <= Received(i)' /\ paid'[i] >= Received(i)' - Credited(i)'
          BY <1>0, <2>4, <3>6, <3>8, <4>2
        <4> QED
          BY <4>1, <4>3
      <3> QED
        BY <3>9 DEF PaidAccountsForNotes
    <2> QED
      BY <2>5, <2>6, <2>7, <2>8, <2>9 DEF NInv
  <1> QED
    BY <1>1, <1>2

\* Issuing: the compare-and-sets on the note and on amountPaid both hold.
LEMMA IssueNoted ==
  ASSUME NInv, NEW r \in Requests, IssueCommit(r)
  PROVE  NInv'
  <1> USE SalesAssumption, CreditNotesAssumption
  <1>1. /\ op[r] = "issue" /\ handling[r] \in Notes /\ inv[r] = Reference[handling[r]]
        /\ handling' = [handling EXCEPT ![r] = None] /\ Finish(r)
        /\ handling' \in [Requests -> Notes \cup {None}]
        /\ \A q \in Requests : q # r => handling'[q] = handling[q]
    BY DEF IssueCommit, NInv, NotedCall, NotedTypes
  <1> PICK n \in Notes : n = handling[r]
    BY <1>1
  <1>2. CASE ~(InvoiceUnchanged(r) /\ NoteStillDraft(n) /\ Postable(NoteTotal[n], NoteTax[n]))
    <2>1. UNCHANGED <<docs, goods, journal, noteStatus, noteBack>>
      BY <1>2 DEF IssueCommit
    <2> QED
      BY <1>1, <2>1, RollbackNoted
  <1>3. CASE InvoiceUnchanged(r) /\ NoteStillDraft(n) /\ Postable(NoteTotal[n], NoteTax[n])
    <2>1. /\ noteBack' = [noteBack EXCEPT ![n] = @ + 1]
          /\ noteStatus' = [noteStatus EXCEPT ![n] = "ISSUED"]
          /\ journal' = Post(journal, "CREDIT_NOTE", n, NoteTotal[n])
          /\ UnwindInvoice(r, n)
          /\ UNCHANGED <<payments, price>>
      BY <1>3 DEF IssueCommit
    <2>2. noteStatus[n] = "DRAFT"
      BY <1>3 DEF NoteStillDraft
    <2>3. NoteCountsOnce'
      <3>1. \A m : Posted(journal', "CREDIT_NOTE", m) <=> Posted(journal, "CREDIT_NOTE", m) \/ m = n
        BY <2>1, PostedAfter
      <3>2. /\ \A m \in Notes : noteStatus'[m] = IF m = n THEN "ISSUED" ELSE noteStatus[m]
            /\ \A m \in Notes : noteBack'[m] = IF m = n THEN noteBack[n] + 1 ELSE noteBack[m]
        BY <2>1 DEF NInv, NotedTypes
      <3>3. noteBack[n] = 0
        BY <2>2 DEF NInv, NoteCountsOnce
      <3> QED
        BY <3>1, <3>2, <3>3 DEF NInv, NoteCountsOnce
    <2>4. /\ noteStatus' \in [Notes -> NoteStatus] /\ noteBack' \in [Notes -> Nat]
          /\ price' \in [Items -> Prices]
      BY <2>1 DEF NInv, NotedTypes, NoteStatus
    <2>5. \A j : PaymentsOf(j)' = PaymentsOf(j)
      BY <2>1 DEF PaymentsOf
    <2>6. \A j : Received(j)' = Received(j)
      BY <2>5 DEF Received
    <2>7. PaymentRows'
      BY <2>1 DEF NInv, PaymentRows
    <2>8. \A j \in Invoices : j # Reference[n] => Credited(j)' = Credited(j)
      <3>1. \A j \in Invoices : j # Reference[n] => Issued(j)' = Issued(j)
        BY <2>1 DEF Issued, NInv, NotedTypes
      <3> QED
        BY <3>1 DEF Credited
    <2>9. CASE inv[r] = None
      <3>1. UNCHANGED <<status, paid>> /\ Reference[n] = None
        BY <1>1, <2>1, <2>9 DEF UnwindInvoice
      <3>2. NotedTypes' /\ \A q \in Requests : NotedCall(q)'
        BY <1>1, <2>4, <3>1, FinishNoted DEF NInv, NotedTypes
      <3>3. StatusMatchesPaid'
        BY <3>1 DEF NInv, StatusMatchesPaid
      <3>4. PaidAccountsForNotes'
        BY <2>6, <2>8, <3>1 DEF NInv, PaidAccountsForNotes
      <3> QED
        BY <2>3, <2>7, <3>2, <3>3, <3>4 DEF NInv
    <2>10. CASE inv[r] # None
      <3>0. inv[r] \in Invoices
        BY <2>10 DEF NInv, NotedTypes
      <3> PICK i \in Invoices : i = inv[r]
        BY <3>0
      <3> DEFINE newPaid == PaidAfterNote(r, n)
                 newStatus == StatusAfterNote(r, newPaid)
      <3>1. /\ Reference[n] = i /\ paid[i] = seen[r].paid
            /\ paid' = [paid EXCEPT ![i] = newPaid]
            /\ status' = [status EXCEPT ![i] = newStatus]
        BY <1>1, <1>3, <2>1, <2>10 DEF UnwindInvoice, InvoiceUnchanged, SamePaid
      <3>2. /\ newPaid \in Nat /\ newPaid <= paid[i] /\ newPaid >= paid[i] - NoteTotal[n]
            /\ paid[i] \in Nat /\ Total[i] \in Nat
        BY <3>1 DEF PaidAfterNote, NInv, NotedTypes
      <3>3. newStatus \in Status /\ PaidFits(newStatus, newPaid, Total[i])
        <4>1. PaidFits(seen[r].status, seen[r].paid, Total[i])
          BY <1>1, <2>10 DEF NInv, NotedCall
        <4>2. seen[r].status \in Status /\ seen[r].paid \in Nat
          BY DEF NInv, NotedTypes
        <4> HIDE DEF newPaid
        <4>3. newPaid <= seen[r].paid
          BY <3>1, <3>2
        <4> QED
          BY <3>2, <4>1, <4>2, <4>3 DEF StatusAfterNote, PaidFits, Status
      <3> HIDE DEF newPaid, newStatus
      <3>4. NotedTypes' /\ \A q \in Requests : NotedCall(q)'
        BY <1>1, <2>4, <3>1, <3>2, <3>3, FinishNoted DEF NInv, NotedTypes
      <3>5. /\ \A j \in Invoices : status'[j] = IF j = i THEN newStatus ELSE status[j]
            /\ \A j \in Invoices : paid'[j] = IF j = i THEN newPaid ELSE paid[j]
        BY <3>1 DEF NInv, NotedTypes
      <3>6. StatusMatchesPaid'
        <4>1. \A j \in Invoices : PaidFits(status[j], paid[j], Total[j])
          BY FitsIsMatches DEF NInv
        <4>2. \A j \in Invoices : PaidFits(status'[j], paid'[j], Total[j])
          BY <3>3, <3>5, <4>1
        <4> QED
          BY <4>2 DEF StatusMatchesPaid, PaidFits
      <3>7. Credited(i)' = Credited(i) + NoteTotal[n]
        <4>1. Issued(i)' = Issued(i) \cup {n} /\ n \notin Issued(i)
          BY <2>1, <2>2, <3>1 DEF Issued, NInv, NotedTypes
        <4>2. SumFunctionOnSet(NoteTotal, Issued(i) \cup {n})
                = NoteTotal[n] + SumFunctionOnSet(NoteTotal, Issued(i))
          BY <4>1, NotedSums, SumWith
        <4> QED
          BY <4>1, <4>2, NotedSums DEF Credited
      <3>8. PaidAccountsForNotes'
        <4>1. \A j \in Invoices : paid[j] <= Received(j) /\ paid[j] >= Received(j) - Credited(j)
          BY DEF NInv, PaidAccountsForNotes
        <4>2. Received(i) \in Nat /\ Credited(i) \in Nat /\ NoteTotal[n] \in Nat
          BY NotedSums
        <4>3. newPaid <= Received(i) /\ newPaid >= Received(i) - (Credited(i) + NoteTotal[n])
          BY <3>2, <4>1, <4>2
        <4>4. \A j \in Invoices : /\ paid'[j] <= Received(j)'
                                  /\ paid'[j] >= Received(j)' - Credited(j)'
          BY <2>6, <2>8, <3>1, <3>5, <3>7, <4>1, <4>3
        <4> QED
          BY <4>4 DEF PaidAccountsForNotes
      <3> QED
        BY <2>3, <2>7, <3>4, <3>6, <3>8 DEF NInv
    <2> QED
      BY <2>9, <2>10
  <1> QED
    BY <1>2, <1>3

LEMMA NInvNext == NInv /\ [NotedNext]_notedVars => NInv'
  <1> SUFFICES ASSUME NInv, [NotedNext]_notedVars PROVE NInv'
    OBVIOUS
  <1> USE SalesAssumption, CreditNotesAssumption
  <1>1. ASSUME UNCHANGED <<docs, price, journal, requests, noteVars>> PROVE NInv'
    <2>1. NotedTypes' /\ \A q \in Requests : NotedCall(q)'
      BY <1>1 DEF docs, requests, noteVars, NInv, NotedTypes, NotedCall
    <2> QED
      BY <1>1, <2>1, NotesSame DEF docs, noteVars
  <1>2. ASSUME NEW i \in Invoices, CreateDraft(i), UNCHANGED noteVars PROVE NInv'
    <2>1. NotedTypes' /\ \A q \in Requests : NotedCall(q)'
      BY <1>2 DEF CreateDraft, goods, requests, noteVars, NInv, NotedTypes, NotedCall, Status
    <2>2. \A j \in Invoices : status'[j] # status[j] => PaidFits(status'[j], paid[j], Total[j])
      BY <1>2, FitsIsMatches DEF CreateDraft, NInv, NotedTypes, PaidFits
    <2> QED
      BY <1>2, <2>1, <2>2, NotesSame DEF CreateDraft, noteVars
  <1>3. ASSUME NEW x \in Items, NEW c \in Prices, ChangePrice(x, c), UNCHANGED noteVars PROVE NInv'
    <2>1. NotedTypes' /\ \A q \in Requests : NotedCall(q)'
      BY <1>3 DEF ChangePrice, docs, requests, noteVars, NInv, NotedTypes, NotedCall
    <2> QED
      BY <1>3, <2>1, NotesSame DEF ChangePrice, docs, noteVars
  <1>4. ASSUME NEW r \in Requests, NEW i \in Invoices, ConfirmRead(r, i) \/ VoidRead(r, i),
               UNCHANGED noteVars
        PROVE  NInv'
    <2>1. /\ Begin(r, "confirm", i, 0) \/ Begin(r, "void", i, 0)
          /\ UNCHANGED <<docs, goods, journal, noteVars>>
      BY <1>4 DEF ConfirmRead, VoidRead
    <2>2. NotedTypes' /\ \A q \in Requests : NotedCall(q)'
      BY <2>1, BeginNoted DEF docs, goods, noteVars, NInv, NotedTypes
    <2> QED
      BY <2>1, <2>2, NotesSame DEF docs, noteVars
  <1>5. ASSUME NEW r \in Requests, NEW i \in Invoices, NEW a \in Amounts, PayRead(r, i, a),
               UNCHANGED noteVars
        PROVE  NInv'
    <2>1. Begin(r, "pay", i, a) /\ UNCHANGED <<docs, goods, journal, noteVars>> /\ a \in Nat
      BY <1>5 DEF PayRead
    <2>2. NotedTypes' /\ \A q \in Requests : NotedCall(q)'
      BY <2>1, BeginNoted DEF docs, goods, noteVars, NInv, NotedTypes
    <2> QED
      BY <2>1, <2>2, NotesSame DEF docs, noteVars
  <1>6. ASSUME NEW r \in Requests, ConfirmReadItem(r), UNCHANGED noteVars PROVE NInv'
    <2>1. CASE Finish(r)
      BY <1>6, <2>1, RollbackNoted DEF ConfirmReadItem, noteVars, NInv, NotedTypes
    <2>2. CASE ~Finish(r)
      <3>1. /\ op[r] = "confirm" /\ op' = [op EXCEPT ![r] = "confirmStocked"]
            /\ seen' = [seen EXCEPT ![r].cost = price[ItemOf[inv[r]]]]
            /\ UNCHANGED <<inv, amt, docs, goods, journal, noteVars>>
        BY <1>6, <2>2 DEF ConfirmReadItem
      <3>2. price[ItemOf[inv[r]]] \in Nat
        BY <3>1 DEF NInv, NotedTypes, NotedCall
      <3>3. NotedTypes'
        <4>1. /\ op' \in [Requests -> Steps \cup {"issue"}]
              /\ seen' \in [Requests -> [status : Status, paid : Nat, cost : Nat]]
          <5>1. /\ op \in [Requests -> Steps \cup {"issue"}]
                /\ seen \in [Requests -> [status : Status, paid : Nat, cost : Nat]]
            BY DEF NInv, NotedTypes
          <5> HIDE SalesAssumption, CreditNotesAssumption
          <5> QED
            BY <3>1, <3>2, <5>1 DEF Steps
        <4> QED
          BY <3>1, <4>1 DEF docs, goods, noteVars, NInv, NotedTypes
      <3>4. \A q \in Requests : NotedCall(q)'
        <4>1. op'[r] = "confirmStocked" /\ inv'[r] = inv[r]
          BY <3>1 DEF NInv, NotedTypes
        <4>2. \A q \in Requests : q # r => op'[q] = op[q] /\ seen'[q] = seen[q]
          BY <3>1 DEF NInv, NotedTypes
        <4> QED
          BY <3>1, <4>1, <4>2 DEF NInv, NotedCall, noteVars
      <3> QED
        BY <3>1, <3>3, <3>4, NotesSame DEF docs, noteVars
    <2> QED
      BY <2>1, <2>2
  <1>7. ASSUME NEW n \in Notes, CreateNote(n) \/ CancelNote(n) PROVE NInv'
    <2>1. /\ noteStatus[n] \in {"NONE", "DRAFT"} /\ UNCHANGED <<vars, noteBack, handling>>
          /\ \E s \in {"DRAFT", "CANCELLED"} : noteStatus' = [noteStatus EXCEPT ![n] = s]
      BY <1>7 DEF CreateNote, CancelNote
    <2>2. UNCHANGED <<docs, price, journal, requests, noteBack, handling>>
      BY <2>1 DEF vars, goods
    <2>3. \A m \in Notes : noteStatus'[m] = "ISSUED" <=> noteStatus[m] = "ISSUED"
      BY <2>1 DEF NInv, NotedTypes
    <2>4. NotedTypes' /\ \A q \in Requests : NotedCall(q)'
      BY <2>1, <2>2 DEF docs, requests, NInv, NotedTypes, NotedCall, NoteStatus
    <2>5. PaymentRows' /\ StatusMatchesPaid' /\ NoteCountsOnce'
      BY <2>2, <2>3 DEF docs, NInv, PaymentRows, StatusMatchesPaid, NoteCountsOnce
    <2>6. \A i : Issued(i)' = Issued(i) /\ PaymentsOf(i)' = PaymentsOf(i)
      BY <2>2, <2>3 DEF Issued, PaymentsOf, docs
    <2>7. PaidAccountsForNotes'
      BY <2>2, <2>6 DEF docs, NInv, PaidAccountsForNotes, Received, Credited
    <2> QED
      BY <2>4, <2>5, <2>7 DEF NInv
  <1>8. ASSUME NEW r \in Requests, NEW n \in Notes, IssueRead(r, n) PROVE NInv'
    <2>1. /\ UNCHANGED <<docs, goods, journal, noteStatus, noteBack>> /\ op[r] = "idle"
          /\ handling' = [handling EXCEPT ![r] = n]
      BY <1>8 DEF IssueRead
    <2>2. NotedTypes' /\ \A q \in Requests : NotedCall(q)'
      <3>1. CASE Reference[n] = None
        <4>1. /\ op' = [op EXCEPT ![r] = "issue"] /\ UNCHANGED <<inv, seen, amt>> /\ inv[r] = None
          BY <1>8, <2>1, <3>1 DEF IssueRead, BeginFreely, NInv, NotedCall
        <4>2. NotedTypes'
          BY <2>1, <4>1 DEF docs, goods, NInv, NotedTypes
        <4>3. /\ op'[r] = "issue" /\ handling'[r] = n
              /\ \A q \in Requests : q # r => op'[q] = op[q] /\ handling'[q] = handling[q]
          BY <2>1, <4>1 DEF NInv, NotedTypes
        <4> QED
          BY <3>1, <4>1, <4>2, <4>3 DEF NInv, NotedCall
      <3>2. CASE Reference[n] # None
        <4>1. Begin(r, "issue", Reference[n], 0) /\ Reference[n] \in Invoices
          BY <1>8, <3>2 DEF IssueRead
        <4> QED
          BY <2>1, <4>1, BeginNoted DEF docs, goods, NInv, NotedTypes
      <3> QED
        BY <3>1, <3>2
    <2> QED
      BY <2>1, <2>2, NotesSame DEF docs
  <1>9. CASE Next /\ UNCHANGED noteVars
    <2>1. ASSUME NEW i \in Invoices, TriggerSubmit(i) PROVE NInv'
      BY <1>1, <1>9, <2>1 DEF TriggerSubmit, goods
    <2>2. ASSUME NEW q \in queued, EventSettles(q) PROVE NInv'
      BY <1>1, <1>9, <2>2 DEF EventSettles, goods
    <2> QED
      BY <1>2, <1>3, <1>4, <1>5, <1>6, <1>9, <2>1, <2>2, ConfirmNoted, VoidNoted, PayNoted
      DEF Next, Environment, Request
  <1>10. CASE UNCHANGED notedVars
    BY <1>1, <1>10 DEF notedVars, vars, goods
  <1> QED
    BY <1>7, <1>8, <1>9, <1>10, IssueNoted DEF NotedNext, NoteNext

LEMMA NotedInvariant == NotedSpec => []NInv
  BY NInvInit, NInvNext, PTL DEF NotedSpec

\* However issues and cancellations race, the goods of a note come back once
\* and it is in the ledger exactly when it is issued (CreditNotesService.issue).
THEOREM NotesCountOnce == NotedSpec => []NoteCountsOnce
  <1>1. NInv => NoteCountsOnce
    BY DEF NInv
  <1> QED
    BY <1>1, NotedInvariant, PTL

\* Payments and notes that race on one invoice never lose each other
\* (recordPayment, issue).
THEOREM NotesPaidAccounts == NotedSpec => []PaidAccountsForNotes
  <1>1. NInv => PaidAccountsForNotes
    BY DEF NInv
  <1> QED
    BY <1>1, NotedInvariant, PTL

\* The status of an invoice says how much of it is paid, whatever notes are
\* issued against it from an old read (issue).
THEOREM NotesStatusMatchesPaid == NotedSpec => []StatusMatchesPaid
  <1>1. NInv => StatusMatchesPaid
    BY DEF NInv
  <1> QED
    BY <1>1, NotedInvariant, PTL
=============================================================================
