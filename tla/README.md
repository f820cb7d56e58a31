# Biz360 in TLA+

TLA+ models of the back end of Biz360, an ERP for small businesses with
reporting to KRA eTIMS: a NestJS API on PostgreSQL (`src/src`), used by a
Next.js client (`src/web`). The modules are checked with TLC; the theorems are
checked with TLAPS. Paths below are relative to the directory that holds
`src/`.

## 1. Inventory

### How the system runs

The API is a set of identical processes. A request handler runs in a database
transaction (`this.db.$transaction`, PostgreSQL's default READ COMMITTED) that
reads some rows, checks them, and writes. Nothing locks rows at the read; what
protects a document is the `where` clause of its update (a compare-and-set on
`status` or on `amountPaid`), unique indexes and foreign keys. Everything an
operation changes (document, stock, ledger, outbox row) is in one transaction.
The only background activity is the outbox worker, which each API process
starts every few seconds without waiting for the previous poll.

| Component | State it keeps | Operations | Talks to | What is hard |
|---|---|---|---|---|
| Transactional outbox (`events/outbox`) | `outbox_events`: status, attempts, nextAttemptAt, updatedAt | `enqueue`; the poll: `reapStaleProcessing`, `claimDueEvents`, `processRow` | enqueued by sales, credit notes, supplier eTIMS; calls their handlers | overlapping polls and processes, handlers slower than the lease, crashes, writes from old reads, the in-flight unique index |
| Sale invoices and payments (`modules/sales`) | invoice status and amountPaid, payments | create, confirm, void, update, record a payment | stock, ledger, outbox | requests about one document overlap; checks are made on earlier reads; what a void undoes must be what confirm and payments did |
| Ledger (`modules/accounting/ledger.service.ts`) | journal entries | `post`, one method per source type | called by every document | posting is repeated; reversals must match what was posted |
| eTIMS submission (`modules/etims`) | control numbers on the invoice | queue (from sales and credit notes), submit, store a receipt, manual trigger | outbox, sales, credit notes, KRA | at-least-once submission, lost answers, order of receipts; what is queued comes from requests that overlap |
| Idempotency of writes (`common/interceptors`) | `idempotency_keys` | claim, replay, complete, abort | wraps every POST and PATCH handler | concurrent duplicates, a crash between effect and stored response, attempts that share a row |
| Purchase orders, goods receipts | order status, lines, receivedQty; receipts | create, edit, submit, approve, reject, cancel; receive, confirm, cancel | stock | edits race approvals and receipts; confirmations race each other |
| Purchases (`modules/purchasing`) | as sales, seen from the buyer | create, confirm, void, update, pay | stock, ledger | as sales |
| Credit notes | status, invoice referred to | create, issue, cancel | sales, stock, ledger, outbox | issuing rewrites an invoice that is paid, voided or confirmed meanwhile |
| Quotations | status, validUntil, link to the invoice | create, update, send, accept, cancel, expire (lazily), convert | sales | conversion exactly once, against cancellation and expiry |
| Inventory (`modules/inventory`) | stock on hand, movements, prices | catalogue, `adjustStock` | changed by every document | an absolute write among increments |
| Supplier eTIMS (`compliance/supplier-etims`) | receipts, credit notes, uploads and their items | capture, scan, verify, match, import, retry | outbox, purchases, flags, withholding tax | a handler works row by row, may die anywhere and be called again or twice at once; matches are redone in any order |
| Expense compliance, withholding tax | flags of a purchase; deductions, certificates | flag, resolve, sum up exposure; deduct, certify, sum up the remittance | purchases, supplier eTIMS | flags and offsets are derived from links that other requests move |
| Turnover tax (`accounting/turnover-tax`) | profile, filing periods | list (computes periods), pay | outbox, mobile money | a push that is not answered may have taken the money; a range may start and end on any day of a month |
| Banking | accounts, statement lines, reconciliations | create, recode, remove; import, reconcile | | two reconciliations claim the same lines |
| Manual journals, accounts and reports (`accounting.service.ts`) | accounts, entries | create, approve, reverse; close, reopen; trial balance, profit and loss, balance sheet | ledger | approvals by id, accounts closed under an entry, reports made of several statements |
| Sessions and users (`auth`, `users`, and `lib/auth`, `lib/api`, `app/api/auth` of the web client) | members; refresh tokens by family; cookie and access token of a browser | register, verify, log in, refresh, log out, administer | everything | rotation takes three statements, and a token that comes twice ends the session |
| Reporting, notifications, HTTP layer, providers, web client | (reads, messages, files) | | | no protocol of their own |

### What makes each component correct

* Outbox: an accepted event is handled to completion at least once or has
  failed `maxAttempts` times; it is never given up early, never finished
  unhandled, never revived by a worker that was not handling it; two events of
  one aggregate are never in flight together; whatever crashes, every event
  settles.
* Sales: goods leave once per sale and come back at most once; `amountPaid` is
  the sum of the payments; the ledger says what the document says; stock says
  what the documents say; statuses never go back.
* Ledger: every source is posted at most once and only on the foundation of
  the entry it reverses or settles.
* eTIMS: the number on an invoice belongs to a document KRA holds for it, and
  credit notes refer to that number and exist only for a void or a note that
  the ledger has.
* Idempotency: what is replayed is the response of a committed attempt; no key
  stays burnt; an undisturbed key takes effect once.
* Procurement: a receipt counts once, only against approved orders and lines
  that exist and, while requests about the order take turns, never beyond it.
* Credit notes: a note brings goods back and is posted once, and what an
  invoice says was paid accounts for the notes issued against it.
* Quotations: one invoice when converted, none otherwise.
* Supplier eTIMS: a receipt number is captured once; an upload's counts are
  those of its rows; a purchase that is neither flagged nor exposed is supported
  by what was captured.
* Taxes: a filing period is charged once, what it was filed with, and a month
  has one; offsets do not exceed what was withheld.
* Books and bank: the reports balance, an entry is reversed once, a line belongs
  to one reconciliation.
* Sessions: whoever signed in stays signed in until the session is ended.

The hazards behind these properties are listed line by line in `PROJECT.json`.

## 2. Modules

| Module | Models | EXTENDS / INSTANCE |
|---|---|---|
| `Delivery` | the abstract promise of an outbox: at-least-once delivery or `MaxAttempts` failures | |
| `Outbox` | `OutboxService`, `OutboxWorker`, the partial unique index | refines `Delivery` |
| `Ledger` | `LedgerService`: account mapping, idempotent `post` | |
| `Sales` | `SalesService` with stock, payments, ledger and outbox rows | `Ledger` |
| `CreditNotes` | `CreditNotesService`, composed with the invoices, requests, goods and journal of `Sales` | `Sales` |
| `Purchases` | `PurchasingService` with stock, payments and ledger, and `InventoryService.adjustStock` | `Ledger` |
| `Procurement` | `PurchaseOrdersService`, `GoodsReceiptsService` | |
| `Quotations` | `QuotationsService` | |
| `Idempotency` | `IdempotencyInterceptor` | |
| `Sessions` | `AuthService`, `TokensService`, `UsersService`, `JwtAuthGuard`, and the browser: the routes under `app/api/auth`, `refreshSession`, `apiFetch` | |
| `Etims` | who queues what for KRA (confirm, void, payment, issue of a note, trigger, as far as they bear on it), submit handler, client, receipts | |
| `BulkImport` | capture of supplier receipts by hand and by the bulk handler | |
| `SupplierReceipts` | scans, verification, matching, supplier credit notes, compliance flags, withholding tax | |
| `TurnoverTax` | `TurnoverTaxService` and the handler that collects a period | |
| `Journals` | `AccountingService`: accounts, entries, reports | |
| `Banking` | `BankingService` | |
| `Sums` | lemmas about `SumFunctionOnSet`: sums over finite sets | `TLAPS` |
| `LedgerProofs` | lemmas about `Ledger`: what `Post` adds, what a set of entries amounts to | `Ledger`, `Sums` |
| `OutboxProofs` | theorems about `Outbox` | `Outbox` |
| `SalesProofs` | theorems about `Sales` and `CreditNotes` | `CreditNotes`, `LedgerProofs` |
| `BackofficeProofs` | theorems about `Idempotency`, `Quotations`, `Purchases`, `Procurement` | these, `LedgerProofs` |
| `SessionsProofs` | theorems about `Sessions` | `Sessions` |
| `ComplianceProofs` | theorems about `Etims`, `Journals`, `Banking`, `TurnoverTax`, `SupplierReceipts`, `BulkImport` and their composition | `MCCompliance`, `Sums` |
| `CompositionProofs` | theorems about the composition of the back office | `MCBackoffice`, `BackofficeProofs`, `SessionsProofs` |
| `MCBackoffice`, `MCCompliance` | instances of the components that share no row, one scene each | these |
| other `MC*` | instances for TLC | the module they are named after |

### From code to actions

* A request is a few **read** actions and one **commit** action. Under READ
  COMMITTED a read sees what is committed at that moment; the first write to a
  row locks it until the end of the transaction, and the `where` clause of an
  update is evaluated again on the row as it is then. So the values a
  transaction read may be old when it writes (`seen[r]`), while the guards in
  its `where` clauses and its increments (`@ + Qty[i]`) are not. A failed guard
  rolls the whole transaction back (`Rollback`).
* Requests of one document that write the document's row only at the end, after
  other rows, are still one commit: the other writes are increments, or inserts
  that a failed guard removes, and nobody can read them before the commit.
* In `Outbox` one action is one query, or the start or the end of one handler
  call. The where clause of `updateMany` is evaluated when the statement runs
  (`StillIn`), what `findMany` returned is old (`batch`, `snap`). Time is one
  bit per row: `elapsed` becomes TRUE when a retry delay or the lease has run
  out. Which rows a page of `BatchSize` contains is left open.
* In `Etims` the requests of sales and credit notes appear as what they do to
  the status of an invoice, to the outbox and to the ledger. `seen` keeps the
  statuses an invoice has had; a request acts on any of them, so that any number
  of requests may have read the invoice at any time before. A void invoice can
  therefore be paid, credited, or void again, as it can in the code
  (`sales.service.ts:632`, `credit-notes.service.ts:349`).
* In `Journals` a report is a sequence of steps: the aggregate over the lines,
  then the accounts and, for a balance sheet, both again for the net income.
  Reports change nothing, so that one at a time is enough; its figures stay in
  `report` until it is answered. What other requests write between the steps is
  seen by the later ones only.
* In `TurnoverTax` a period is named by the month and the day it starts on. A
  listing goes from any day to any day, finds the periods that start and end in
  it, and steps month by month on the day it began with.
* In `Etims` the outbox is what `Outbox` allows: an event in flight is handled
  by several workers at once, again after a death, and may be put back by a
  late failure. KRA is the set of accepted documents, numbered in the order of
  acceptance; that numbering is external to this code. The mock transport is left
  out: it derives the number from a field that the payload does not have, so all
  its documents get one number.
* What some request relies on from an old read is kept with the request
  (`seen`, `task`, `selling`, `banking`, ...). An action that reads and one that
  writes are two actions exactly where the code has two statements that are not
  in one transaction, or whose transaction does not protect the read.
* In `BulkImport`, `TurnoverTax` and `Etims` a handler is a sequence of
  statements that ends anywhere; its event stays in flight until it returns,
  so that it is called again, and by two workers at once, as `Outbox` allows.
* In `Sessions` a session is a family of refresh tokens. The three statements
  of `rotate` are three actions, the cookie changes only with the answer, and
  an answer may be lost. `ended` and `session` are bookkeeping for the property:
  families ended on purpose or by expiry, and the family a browser signed in to.
* The mutants the properties are tested with (named `\* Mutant:` in the
  modules) are operators used by no action.

Abstracted throughout: organizations (every query is scoped to one), document
numbers, dates, texts, the arithmetic of lines (a document has one line and
amounts are small integers), audit log entries.

## 3. Runs

| Run | Expect | Question | Bounds |
|---|---|---|---|
| `outbox_safety` | pass | Can reads, claims, reaps, handlers and failed writes interleave so that an event is given up early, finished unhandled, or revived from an old read? | 2 workers, 2 rows, 2 attempts, batch of 2, 2 crashes or database errors, handlers and queries slower than the lease |
| `outbox_live` | pass | Does every row settle although workers crash, and does the outbox refine `Delivery` under fairness? Is one row per aggregate in flight? | 2 rows of one aggregate, 1 crash |
| `outbox_double` | violation | Is a row handled by one worker at a time? | no crash, nothing slow |
| `sales_concurrent` | pass | Do the compare-and-sets and the idempotent ledger keep a document, its goods and its entries consistent when any two requests overlap? Do the ledger and the stock follow a document whose own requests do not overlap? | 2 invoices for the same unit of stock, 2 requests, 2 payments, two costs; `i2` is serialized |
| `sales_limit` | violation | Does a customer stay within the credit limit? | 2 invoices of total 2, a limit of 3, 2 requests, at most one about each invoice |
| `sales_latepay` | violation | Does a void leave no receivable behind? | 1 invoice, 2 requests |
| `credit_notes` | pass | Do issued notes, payments, voids and confirms of one invoice, in any order, leave goods, paid amount and status consistent? | 1 invoice of total 3, 2 notes of 2 against it and 1 without an invoice, 2 requests, 2 payments of 2 |
| `backoffice` | pass | Five components, one scene each (below) | see below |
| `compliance` | pass | Six components, one scene each (below) | see below |
| `idempotency_duplicate` | violation | Does a duplicate take effect once? | 2 attempts, 1 key, no fault |
| `journal_reversal` | violation | Does a reversed entry net to zero? | 1 entry on 2 accounts |
| `turnover_overlap` | violation | Has a month one filing period? | 1 month, listed from its first day or from a later one; 1 request |

Components that share no row are checked in one configuration: `scene`, chosen
at the start and never changed, says which of them moves. Interleaving them
would multiply states and add no behaviour, because no action of one reads what
another writes. Each scene has the concurrency of its component:

| Run, scene | Bounds |
|---|---|
| `backoffice`, requests | 3 attempts, 2 keys, 2 bodies, 2 targets, 2 faults; `k2` is calm |
| `backoffice`, purchases | 2 purchases of 1 item each, 2 requests, 2 payments of 1 or 2 (total 2), 2 adjustments of +1 or -1; `i2` is serialized, `x2` is counted |
| `backoffice`, procurement | 2 orders, 2 receipts that name the line once or twice, 2 requests, 3 lines ever created; `o2` is serialized |
| `backoffice`, quotations | 1 quotation, 3 requests |
| `backoffice`, calm | an undisturbed browser with one tab, 2 calls, 2 refreshes, 3 tokens (2 while the member is not plainly active) |
| `backoffice`, browser | a browser whose answers get lost, with one tab, 2 calls, 2 tokens, a member that is not suspended or locked |
| `compliance`, submission | 1 invoice and 1 note against it, 2 handler calls, 3 documents at KRA; any number of requests |
| `compliance`, receipts | 2 purchases, 1 receipt, 2 supplier credit notes, 1 payment, 2 requests |
| `compliance`, import | 2 uploads of 2 rows with one number, 2 handler calls, 1 request by hand, 1 fault; `u2` is unhurried |
| `compliance`, turnover | 1 month with two days to start and end on, so up to 2 periods; 2 requests, 2 handler calls, 1 fault; the period of the second day is steadfast |
| `compliance`, journals | 3 accounts, 2 entries, 2 requests, no report; two accounts are steady |
| `compliance`, reports | the same next to a report, with one request at a time (`OneRequest`), each in its own steps between those of the report |
| `compliance`, banking | 2 accounts, 2 lines of +1 or -1, 2 requests, 2 reconciliations; `bank1` is exclusive |

Why the bounds are enough: every hazard of section 1 needs two actors and one
or two documents, and every instance has them. Two attempts distinguish the
first failure from the last; two rows in a batch are needed for a worker to
claim one and keep another's; one crash and one slow handler can be combined in
`outbox_safety`. Two payments make an invoice partially and then fully paid, or
overpaid (`Amounts = {1, 2}`, total 2). One unit of stock is sold, returned and
sold again. Three attempts of an idempotency key allow one that creates the
row, one that shares it and one that comes after the row was deleted. Three
documents at KRA allow a double submission and a credit note, or a sale, its
void and a note. Two days of a month are a whole month and the rest of one. Two notes
and two payments exceed an invoice in every order. Three sellers allow a conversion, a
cancellation and an expiry that read the same status. Three tokens are a sign-in
and two refreshes, so that a token can come that was replaced. Two rows with one
number are a duplicate inside an upload, and two uploads one between them. For
every number of rows and actors, most of these properties are theorems
(section 4).

The constants that bound a run are `MaxAttempts`, `BatchSize` and `MaxAborts`
(`Outbox`), `MaxPayments` (`Sales`, `Purchases`), `MaxAdjusts` (`Purchases`),
`MaxLines` (`Procurement`), `MaxTokens` (`Sessions`), `MaxDocs` (`Etims`),
`MaxUnclear` (`TurnoverTax`: calls that die and pushes that stay unanswered),
`MaxFaults` (`BulkImport`, `Idempotency`), `MaxRuns` (`Banking`), `MaxCopies`
(`SupplierReceipts`); the rest is in the sizes of the sets.

`Serialized`, `Counted`, `SerialOrders`, `Calm`, `Quiet`, `Unhurried`,
`Steadfast`, `Steady`, `Exclusive`, `Undisturbed` and `Slow` are not weaker
code: they say of which documents, items, keys, numbers, periods, accounts and
browsers the *clients'* requests do not overlap, or meet no fault, so that one
run shows both what holds always and what holds only then, next to neighbours
that are disturbed. `CHECK_DEADLOCK FALSE` appears where the bounds end the run
(every document void, every payment made, every attempt answered); the outbox,
which polls for ever, is checked for deadlock.

Fairness (`Outbox!Fairness`): `setInterval` starts polls for ever and every
statement and handler ends (the HTTP client has a time limit), so each worker's
`Poll` is weakly fair; time passes. Nothing is assumed of producers, of how
often a handler throws, or of crashes other than that a run has finitely many.
In `outbox_live` a crash consumes one of `MaxAborts`.

### What the violations show

1. `outbox_double`: the re-read after a claim keeps each candidate that is
   PROCESSING, whoever claimed it, so two polls that read the same due rows can
   both handle one of them. Delivery is at-least-once in the strong sense that
   handlers overlap; the eTIMS model is built on that.
2. `sales_latepay`: `recordPayment` guards on `amountPaid` and not on the
   status; a payment that overlaps a void commits after it, and the void
   invoice is PAID again with a credit balance in receivables.
3. `idempotency_duplicate`: a claim without a response is taken over by a
   concurrent duplicate, and both execute.
4. `sales_limit`: each of two overlapping confirms reads what the customer owes
   before the other has added to it; both are within the limit, together they
   are not. Nothing checks the sum afterwards.
5. `journal_reversal`: `reverseEntry` marks the original REVERSED and posts its
   mirror, and the reports add up POSTED entries only, so that a reversal moves
   each account by the opposite of the entry instead of back to zero.
6. `turnover_overlap`: a listing that starts within a month does not find the
   period of that month, which starts earlier, and inserts one of its own. The
   unique index is on both ends of a period, so that it accepts the second; each
   can be paid, and the sales of the later one are taxed twice.

The same instances show more than the runs keep, each by adding a formula: a
draft that is confirmed while it is voided keeps its goods and its entries; the
cost reversed by a void is the cost of the day of the void, not that of the
sale; two overlapping confirms of different invoices oversell the last unit; two
voids return goods twice; two overlapping confirmations of different receipts exceed
the order, and so does one receipt that names a line of it twice (the check at
`goods-receipts.service.ts:213` takes each line of the receipt alone); a balance
sheet does not balance when income or expense is posted between its two
aggregates; a request retried after a crash executes again; a stored response
can be replayed for another `:id`; a document can be submitted to KRA twice,
and a draft can be submitted by hand; a slow handler's late failure puts a DONE
row back to PENDING (`TerminalRowsOnlyLeftByHandler` says that nobody else
can); an adjustment that overlaps a confirmation or a void of a purchase erases
it from the stock on hand and not from the movements; two reconciliations that
overlap take each other's lines; two captures of one number that look it up at
once both insert it; a push that was not answered is charged again; two credit
notes that are matched at once offset one deduction twice; two tabs of one
browser that refresh at once present one token twice, and the session ends; an
edit of a draft quotation, which writes by id, changes one that was sent
meanwhile. The properties of the
passing runs are stated so that they say what holds in spite of these.

## 4. Proofs

Every safety property of a passing run is stated by a theorem, for all values
of the constants that satisfy the assumption of its module. A theorem about one
component needs nothing of its neighbours; `ComplianceImplements` and
`BackofficeImplements` carry it over to the specifications that TLC checks.

### Sums (`Sums`, `LedgerProofs`)

Half of the properties relate a column to a sum over rows that come and go.
Stating what a sum does when a row is added needs the recursive function behind
`SumFunctionOnSet` to exist, which is a matter of induction, and the provers
cannot instantiate the library's induction theorems. `Sums` does without: the
order on the naturals is well founded (`NatLessThanWellFounded`), so that a set
of numbers has a least one (`LeastNumber`, by `WFMin`), and a *set* of subsets
that contains the empty one and grows by single elements has them all
(`SubsetInduction`). A property is passed to it as the set of subsets that have
it, which is first-order. From `SumIsRecursive` follow the lemmas that the
proofs cite: a sum with one element more or less (`SumWith`, `SumWithout`), with
one value changed (`SumChangesAt`), of two functions that agree (`SumAgrees`), in
parts, renamed, by fibres. `LedgerProofs` states them for entries (`AmountWith`,
`AmountOfEntries`) and says what `Post` does to a journal.

The models assume accordingly that tables are finite where a sum over them is
taken (invoices, credit notes, accounts, rows of an upload), that the numbers
of payments are not the ids of documents (they are UUIDs in the code, and a
source of the ledger is a type and an id), and that orders and receipts are
different rows.

### Outbox

For any sets of events and workers, any assignment of aggregates, any
`MaxAttempts`, `BatchSize` and `MaxAborts`, and any choice of slow rows and
queries; the only assumption is `OutboxAssumption`.

* `OutboxTypes`, `OutboxAttemptsBudget`. `TypeOK` is not
  inductive: `RecordFailure` writes a snapshot plus one, which stays within
  `MaxAttempts` only because every row a worker has read had attempts left
  (`SnapshotBudget`), which holds because every row in flight has
  (`AttemptsBudget`), which in turn is kept by `RecordFailure` because the row
  it handles is in its batch (`Cursor`). `TInv` is their conjunction; lemma
  `TInvNext` has one step per action.
* `OutboxNoEarlyGiveUp`, `OutboxDoneWasDelivered`. `HInv`
  relates the columns to what really happened: the recorded failures cover
  every snapshot and column (`StrikesCover`; lost increments only make the
  column smaller), and a worker that is about to finalize a row has handled it
  (`Handled`). Steps in which workers learn nothing are dealt with once
  (`ForgetKeeps`).
* `OutboxInFlightUnique`: by the guard of every step that puts a row in flight
  from outside; reaping and claiming only move rows that already are.
* `OutboxTerminalRows`: the action property; claims and reaps are guarded by
  the status, so that only a handler's own update can leave a terminal status.
* `OutboxImplementsDelivery`: initial states map to initial states, and
  `DeliveryStep` shows that each step of the outbox is `Accept`, `Deliver`,
  `Strike` or a stutter of `Delivery`.

### Idempotency (`BackofficeProofs`)

For any attempts, keys, targets and bodies, any set `Calm` of keys and any
number of faults; the only assumption is `IdempotencyAssumption`.

* `IdempotencyTypes`, `IdempotencyReplayFaithful`, `IdempotencyNoOrphanClaim`.
  `ReplayFaithful` speaks of answers, which come from rows, which are written by
  attempts that may have taken over a claim of somebody else. So `IInv` also
  says how far each attempt has come (`Progress`), that an attempt and the row
  it executes under agree on key and body, which is what the hash check of
  `Lookup` is for (`ClaimMatches`), and that a row agrees with the attempt that
  created it and the attempt whose response it holds (`RowsMatch`). Steps that
  write a row go through `RowWritten`. Deletion by id is why `NoOrphanClaim` is
  kept: two rows that exist never have one creator, by `RowsMatch`.
* `IdempotencyOnceWhenCalm`. `CalmInv` describes the life of a calm key:
  attempts take turns (`Alone`), the one that is under way owns the row and
  finds no response in it, and once one has taken effect the row keeps a
  response, which the next one is answered with. `Lookup` of a calm key needs
  `NoOrphanClaim`: a row without a response would belong to an attempt that is
  still running, and there is none. `CalmFrame` says what a step has to leave
  alone for the other attempts to stay calm.

### eTIMS (`ComplianceProofs`)

For any invoices, notes, handlers and number of documents; the only assumption is
`EtimsAssumption`.

* `EtimsReceiptsAreGenuine`, `EtimsCreditRefersToInvoice`,
  `EtimsCreditIsBooked` (and `EtimsTypes`). None of the three is inductive
  alone: a handler stores an answer it got earlier and sends a reference it read
  earlier. `EInv` adds what such a handler still knows (`CallKnows`): its answer
  is a document KRA has for its own invoice, and the reference it read is the
  control number the invoice still carries, because a stored number is never
  replaced. `CreditUnderWay` says that a credit note is queued and handled only
  for a void or a note that the ledger has. That an invoice is still void is
  said nowhere: a late payment or note makes it live again, and the credit note
  of its void is at KRA, or on its way, all the same. `EndingKeeps` and
  `ProducerKeeps` deal with the steps that end a call or only queue one.

### Sales and credit notes (`SalesProofs`)

For any invoices, items, requests, quantities, totals, prices and amounts, and
any set of serialized invoices; the assumption is `SalesAssumption`, and
`CreditNotesAssumption` for credit notes. No theorem has a further condition.

* `SalesGoodsLeaveOnce`, `SalesPostedOnce`, `SalesLedgerIsFounded`,
  `SalesStatusMatchesPaid`, `SalesReturnedOnce` (and `SalesTypes`). `SInv` says
  what a request may still rely on from an old read (`CallKnows`, and
  `CallAlone` for serialized invoices), and ties the document to the ledger:
  an invoice is in it from its confirmation on (`Booked`), reversals and
  payments stand on those entries (`ReversalsFounded`, `PaymentsFounded`), and
  payment ids are not reused (`PaymentsNumbered`), so that a new payment is a
  new source. The posting lemmas (`PostIs`,
  `PostedAfter`, `PostedGrows`, `VoidIs`) state once what `post` does to a
  journal. There is one lemma per commit (`ConfirmKeeps`, `VoidKeeps`,
  `PayKeeps`); `QuietKeeps` and `FinishKeeps` are for the other steps.
* `SalesNoStepBack`: the compare-and-set on `amountPaid` makes the paid amount
  that a payment read current when it writes, so a PAID invoice, which by
  `StatusMatchesPaid` is paid in full, does not become partially paid again.
* `SalesLedgerMatchesInvoices`. `LInv` says that sources are posted once and
  with the amount of their document (`EntriesWellFounded`), that the paid amount
  is what the payments add up to (`PaidIsReceived`), and that the void of a
  serialized invoice reverses the sale and each payment (`VoidUnwinds`). The
  receivable is then the total less the payments while the invoice stands, and
  nothing once it is void.
* `SalesStockMatchesInvoices`. What an invoice holds of its item is what its
  status says if it is serialized, and what its movements say if not (`Held`).
  Every step changes the stock by as much as it changes what one invoice holds
  (`StockMoves`), because stock moves by increments and decrements; for a
  serialized invoice the status that a commit finds is the one that was read
  (`CallAlone`), so that both views of it change together.
* `NotesCountOnce`, `NotesPaidAccounts`, `NotesStatusMatchesPaid`. Issuing a note
  and recording a payment write the same two columns from old reads. `NInv` says
  what both rely on: a request that is about to write knows a status that fits
  the paid amount it knows (`NotedCall`), so that the compare-and-set on the
  amount also vouches for the status; `PaymentRows` makes a payment a new row.

### Quotations, purchases, purchase orders and goods receipts (`BackofficeProofs`)

The assumptions are `QuotationsAssumption`, `PurchasesAssumption` and
`ProcurementAssumption`; quantities, totals and numbers of rows are arbitrary.

* `QuotationsTypes`, `QuotationsConvertedOnce`, for any quotations and sellers.
  `ConvertedOnce` is almost inductive, because conversion and cancellation are
  compare-and-sets on the status. What it lacks is what an expiry relies on:
  it writes over the status it read, which must not have been CONVERTED
  (`ExpiresOpen`).
* `PurchasesTypes`, `PurchasesArriveOnce`, `PurchasesStockIsSum`, for any
  purchases, items, quantities and amounts. `PInv` has what a request may rely
  on when it commits (`RequestKnows`), that a purchase is in the ledger while it
  is confirmed or paid and never before (`Confirmation`), and that an item
  counted in a stock-take is left alone meanwhile
  (`AdjustsAlone`), which is what the absolute write of `adjustStock` needs.
  There is one lemma per commit: `ConfirmKeeps`, `VoidDraftKeeps`, `VoidKeeps`,
  `PayKeeps`, `AdjustKeeps`.
* `PurchasesCountOnce`, `PurchasesLedgerMatches`. `BInv` adds the books: entries
  are those of their documents, `paid` is what the payments add up to
  (`PaidIsSpent`), payments stand on a booked purchase (`PaymentsFounded`), and
  the void of a serialized purchase reverses it with all its payments
  (`VoidUnwinds`), because no other request about it is under way (`Apart`).
* `ProcurementReceipts`, for any orders, receipts and lines. Edits replace the
  lines of an order, so a receipt is safe only because an edit needs a DRAFT
  and a receipt an APPROVED order, and no order goes back to DRAFT. `TaskKnows`
  says it for each request under way: the order a receipt is made against is
  APPROVED and keeps its lines. `LinesAreNumbered` makes the lines an edit
  creates different from all others.
* `ProcurementTypes`, `ProcurementReceivedMatches`, `ProcurementTotals`,
  `ProcurementWithinOrder`. `QInv` counts: receivedQty of a line is a sum over
  the confirmed receipts that name it and stock is a sum over the lines, and
  every confirmed receipt has its line (`RowsCount`, `LinesKnown`), so that
  confirming one receipt adds one summand to one line. `TaskAlone` says what a
  serialized order owes to its requests coming one by one: the lines an edit
  deletes are still all there are, and a receipt about to be confirmed still fits.

### Journals, banking, turnover tax, supplier receipts, bulk import (`ComplianceProofs`)

The assumptions are `JournalsAssumption`, `BankingAssumption`,
`TurnoverAssumption`, `SupplierAssumption` and `BulkAssumption`.

* `JournalsTypes`, `JournalsMirroredOnce`, for any vouchers, accounts and
  bookkeepers: whoever reverses first leaves the entry REVERSED, which the
  compare-and-set of the others does not find.
* `JournalsBooksBalance`. An entry balances, so the sum of all posted lines is
  zero; an aggregate lists them by account, and the sum of the accounts is the sum
  of the lines by fibres (`SumByFibres`, `BalancesAreFair`). What is lost is what
  stands on accounts that are not listed. `VouchersInv` says that a steady
  account with lines, or with an entry on its way, is kept open (`SteadyKept`):
  whoever closes one has found it without lines, and nobody is entering any. A
  report reads its accounts later than its lines; `Fair` therefore says
  that the figures a report has read are balanced and stand on accounts with
  lines. No step takes lines away (`StaysFair`), and steady accounts with lines
  stay listed (`ListedIsAll`). `Figures` follows the totals through the steps of a report; the
  last of a balance sheet replaces the net income of the first aggregate by that
  of the second, which is the same when no income or expense moved
  (`SameProfit`).
* `BankingTypes`, `BankingClaimedOnce`, for any accounts, lines and tellers.
  `ClaimKnows` says that the lines a reconciliation of an exclusive account
  found are still free; it survives the other steps because it is the only one
  under way on that account (`ClaimAlone`). Runs are numbered by `RunsNumbered`,
  with `FS_AddElement` for the finite set of runs.
* `TurnoverTypes`, `TurnoverChargedOnce`, for any months, days, filers,
  payers and rates. `TakenFirst` says that money was collected before a period is marked
  PAID or is about to be; `TakenOnce` follows the steadfast periods, whose one
  payer has either charged what is due or nothing; `FiledAmounts` says that what
  a payer charges is what the period was filed with: `listPeriods` does
  not insert one that is there already, and nothing else changes what is due.
* `BulkTypes`, `BulkCapturedOnce`, for any uploads, rows, numbers and faults.
  `LookedUp` describes a quiet number between its look-up and its insert: it is
  not captured and nobody else is at that point. `Marking` and `RowsBacked`
  carry a handler from the insert to the mark, also when a call died between
  the two and a later one finds the receipt instead of its row.
* `BulkUploadsAccount`. `UploadKept` follows the one call that works at an
  unhurried upload (`CallCounts`): it counts at most the rows that it or an
  earlier call handled, and has every queued row of the batch on its list.
  `UploadAccounts` is then kept also by retries, which queue failed rows again
  and never a row that was handled.
* `SupplierTypes`, `SupplierUnflaggedIsSupported`, `SupplierRemittable`.
  `SupplierInv` says that the requests about a calm payment or credit note come
  one by one (`TasksApart`), so that a note is matched by the request that found
  it unmatched (`NotesUnmatched`) and a payment is deducted and offset once
  (`DeductedOnce`). `SupportKept` is the link between flags and receipts: a
  purchase loses its flags only to a receipt of its total or to a credit note that
  bridges the difference, and neither is ever uncaptured or unmatched. (That the
  receipt still belongs to that purchase is not claimed: `match` moves it.)
* `ComplianceImplements`, `ComplianceTypes`: each component behaves in
  `MCCompliance` as its own specification says, whatever the scene.
  `CompositionProofs` has the same for the back office (`BackofficeImplements`,
  `BackofficeTypes`).

### Sessions (`SessionsProofs`)

For any browsers, tabs, calls, refreshes, tokens and members, next to any number
of browsers that are disturbed; the only assumption is `SessionsAssumption`.

* `SessionsTypes`, `SessionsStaySignedIn`. `SInv` says, besides types, that
  tokens are numbered in the order of issue (`NumberedUpTo`), that what a
  browser holds or is about to be given is of its own member (`OwnTokens`) and
  that no two browsers hold tokens of one family (`OwnFamilies`), so that a
  browser whose token comes twice ends its own session only. `CalmTab` says that an
  undisturbed tab does one thing at a time: one sign-in, or one refresh that
  all its calls wait for (the single flight of `refreshSession`). `Safe` is the
  core: while a browser is signed in and no refresh is under way, the token in
  its cookie is usable; while one is, it presents that token, or the server has
  just replaced it and the next is on its way.
* Steps that leave cookies and refreshes alone need only their frame
  (`NoRefresh`). The others are one of three kinds, each with its lemma: a
  refresh begins, goes on or ends (`RefreshGoesOn`, `RefreshEnds`), the cookie
  changes with a sign-in or a sign-out (`CookieChanges`), or a session is ended
  on purpose (`SessionsEnd`), which `Safe` no longer speaks of.

### Left to TLC

Liveness under fairness (`EventuallySettled`, and the fairness part of
`DeliverySpec`), which the provers do not cover; the safety part of
`DeliverySpec` is `OutboxImplementsDelivery`. The six violations are
behaviours, which TLC finds and no theorem states. That the
conditions of the theorems are met is shown by the runs, whose constants
TLC checks against the assumptions.

## 5. Plan

1. Done: every component of section 1 with a protocol of its own has a module,
   and every module has theorems; no safety property of a passing run is without
   one.
2. Reports next to several requests at once, two invoices at KRA and outbox
   batches of several aggregates under fairness: TLC does not finish these in
   minutes. (The safety properties are theorems for any number.)
3. Documents of several lines, for the order in which item rows are locked
   (waits-for cycles that PostgreSQL aborts), and `updateDraft` of sales and
   purchases, which changes dates and notes only.
4. A model of several tabs of one browser, once the client serializes their
   refreshes; today `StaysSignedIn` cannot hold there (section 6).

Runs of new modules are composed into few configurations: where one shows what
a smaller one shows, it replaces it.

## 6. Not modelled

In whole (`not_modelled` in `PROJECT.json`, with sources): API keys, parties,
organizations and the catalogue, notifications (rows that are written once, or
by one statement, and listed); reporting (reads); mobile money and verification
providers (external, mocked in the repository); tenant scoping, the HTTP layer
and configuration (controllers, validation, audit log: no state of their own);
the pages of the web client.

In part:

* Sales, purchases: `updateDraft`, listings, line arithmetic, documents of
  several lines.
* Inventory: catalogue operations other than the cost change of `updateItem`.
* Sessions: profiles, avatars, password hashing, roles, the tokens in mails.
* Manual journals: opening an account, date ranges of reports, listings.
* Supplier eTIMS: OCR, parsing of the ETR file, verification of credit notes,
  listings, and `processUploadItems`, which nothing calls.
* Withholding tax: rates, listings.

About a fifth of the repository's lines are modelled, and of the services with a
protocol most. The others are pages and forms of the web client (over 40 % of
the code), type declarations and DTOs, controllers, queries that only read,
mocks, and single-row writes: there is no state in them whose changes could be
interleaved, and a module about them would restate their assignments.

Observations made while modelling, which no property covers:

* `scanStatus` (`src/src/modules/compliance/supplier-etims/supplier-etims.service.ts:218`)
  looks the event up by the job's id, but `scan` enqueues it under the invoice's
  id when a supplier is given.
* The OCR handler writes `kraInvoiceNumber` without looking for another receipt
  with that number (`supplier-etims.handler.ts:82`). `ReadScan` of
  `SupplierReceipts` has the amount that the scan changes and not the number;
  the numbers of `BulkImport` are those of captures and imported rows.
* `listPeriods` steps with `setMonth` (`turnover-tax.service.ts:130`): from the
  29th, 30th or 31st on it runs over the end of a short month and skips it, and
  it keeps the later day from there on. Its months are those of UTC, its days
  those of the server's clock. The days of `TurnoverTax` are such as every month
  has, on a server whose clock is UTC.
* A payment or a note that read the invoice before it was voided sets it back
  to PAID, PARTIALLY_PAID or CONFIRMED; its credit note is queued for KRA all the
  same. A note that is issued against a draft makes it CONFIRMED, without its sale in
  the stock, the ledger or the outbox.
* The credit note that KRA gets for a partial note is built from all the lines
  of the invoice: the payload of the event names the invoice only
  (`credit-notes.service.ts:396`).
* A note issued on an unpaid invoice credits receivables, while what the invoice
  says is due stays.
* Two tabs of one browser that refresh at once present one token twice; the
  server takes that for theft and ends the session. Browsers with two tabs, and
  those whose answers get lost, are therefore not `Undisturbed`.
* The cookie of a suspended member stays, so that the client's middleware and
  the API send the tab from `/login` to `/dashboard` and back.
* `logout` is not public: with an expired access token the client's route clears
  the cookies and the family stays usable on the server.
* The refresh a page makes when it loads, without a cookie, clears the cookies
  also when its refusal arrives after a sign-in.
