------------------------------- MODULE Etims -------------------------------
(***************************************************************************)
(* Reporting sale invoices to KRA: who queues an outbox event, the handler *)
(* that submits the document (EtimsHandlerRegistrar.submit), the transport *)
(* (EtimsClient, live mode) and the receipt stored on the invoice          *)
(* (recordReceipt).                                                        *)
(*                                                                         *)
(* The producers are the requests of Sales.tla and CreditNotes.tla, here   *)
(* with their effect on the status of the invoice and on the outbox alone. *)
(* Each reads the invoice and writes it later, a void by id and a payment  *)
(* or a note while amountPaid is what it read; any number of them may be   *)
(* open.  So seen keeps the statuses an invoice has had, and a request may *)
(* act on any of them.                                                     *)
(*                                                                         *)
(* The outbox appears here as what Outbox.tla shows of it: a queued event  *)
(* is handed to its handler until it settles, possibly by two workers at   *)
(* once (Outbox!ExclusiveDispatch is violated), and possibly again after a *)
(* handler died half way.  Attempts are not counted: a failed handling     *)
(* leaves the event queued or gives it up.                                 *)
(***************************************************************************)
EXTENDS Naturals, FiniteSets

CONSTANTS
    Invoices,
    Notes,       \* drafts of credit notes
    Reference,   \* note -> its invoice
    Handlers,    \* handler calls in progress at the same time
    MaxDocs,     \* bound on the documents KRA holds
    None

ASSUME EtimsAssumption ==
    /\ MaxDocs \in Nat
    /\ Reference \in [Notes -> Invoices] /\ Notes \cap Invoices = {}
    /\ None \notin Invoices

VARIABLES
    status,      \* SaleInvoice.status: "DRAFT", "CONFIRMED" (or paid) or "VOID"
    seen,        \* the statuses that an invoice has had
    booked,      \* invoices with a SALE_VOID entry, notes with a CREDIT_NOTE one
    ctrlNo,      \* SaleInvoice.etimsCtrlNo (set together with etimsSubmittedAt)
    creditNo,    \* SaleInvoice.etimsCreditCtrlNo
    queued,      \* outbox rows in flight: <<event type, invoice or note>>
    pc,          \* where each handler call is
    job,         \* the event it handles
    ref,         \* the control number it read from the invoice
    receipt,     \* the control number it got
    kra          \* external: the documents KRA has accepted, and for which event

statuses == <<status, seen>>
invoices == <<statuses, booked, ctrlNo, creditNo>>
calls    == <<pc, job, ref, receipt>>
vars     == <<invoices, queued, calls, kra>>

Sale     == "ETIMS_INVOICE_SUBMIT"
Credit   == "ETIMS_CREDIT_NOTE_SUBMIT"
Sources  == Invoices \cup Notes
Events   == ({Sale} \X Invoices) \cup ({Credit} \X Sources)
NoJob    == <<None, None>>
Number   == 1..(MaxDocs + 1)
Statuses == {"DRAFT", "CONFIRMED", "VOID"}

\* The payload of an event names an invoice, that of a note its reference.
InvoiceOf(x) == IF x \in Notes THEN Reference[x] ELSE x

-----------------------------------------------------------------------------
(* Producers of events                                                     *)

Becomes(i, s) ==
    /\ status' = [status EXCEPT ![i] = s]
    /\ seen' = [seen EXCEPT ![i] = @ \cup {s}]

\* enqueue: the index refuses a second event in flight, and the request fails.
Enqueue(e) == e \notin queued /\ queued' = queued \cup {e}

\* confirmInvoice: the status and the event, or neither.
Confirm(i) ==
    /\ status[i] = "DRAFT"
    /\ Becomes(i, "CONFIRMED")
    /\ Enqueue(<<Sale, i>>)
    /\ UNCHANGED <<booked, ctrlNo, creditNo, calls, kra>>

\* Mutant: a draft is reversed at KRA as well.
VoidDraftReversed(i) ==
    /\ "DRAFT" \in seen[i]
    /\ Becomes(i, "VOID")
    /\ Enqueue(<<Credit, i>>)
    /\ UNCHANGED <<booked, ctrlNo, creditNo, calls, kra>>

\* voidInvoice by a request that read a draft: the status, by id.
VoidDraft(i) ==
    /\ "DRAFT" \in seen[i]
    /\ Becomes(i, "VOID")
    /\ UNCHANGED <<booked, ctrlNo, creditNo, queued, calls, kra>>

\* voidInvoice by one that read a released invoice: the credit note for KRA
\* and the entry of the ledger, which is made once.
VoidReleased(i) ==
    /\ "CONFIRMED" \in seen[i]
    /\ Becomes(i, "VOID")
    /\ Enqueue(<<Credit, i>>)
    /\ booked' = booked \cup {i}
    /\ UNCHANGED <<ctrlNo, creditNo, calls, kra>>

\* recordPayment makes the invoice PAID or PARTIALLY_PAID, a void one too.
Pay(i) ==
    /\ "CONFIRMED" \in seen[i]
    /\ Becomes(i, "CONFIRMED")
    /\ UNCHANGED <<booked, ctrlNo, creditNo, queued, calls, kra>>

\* CreditNotesService.issue, once for each note: the invoice, whatever it is,
\* becomes CONFIRMED or PARTIALLY_PAID or, if it stays paid in full, what was
\* read of it.
Issue(n) ==
    LET i == Reference[n]
    IN  /\ n \notin booked
        /\ \E s \in seen[i] \cup {"CONFIRMED"} : Becomes(i, s)
        /\ Enqueue(<<Credit, n>>)
        /\ booked' = booked \cup {n}
        /\ UNCHANGED <<ctrlNo, creditNo, calls, kra>>

\* triggerSubmit, by a request that read the invoice before it was submitted.
TriggerSubmit(i) ==
    /\ \E s \in seen[i] : s # "VOID"
    /\ Enqueue(<<Sale, i>>)
    /\ UNCHANGED <<invoices, calls, kra>>

-----------------------------------------------------------------------------
(* submit()                                                                *)

Idle(h) ==
    /\ pc' = [pc EXCEPT ![h] = "idle"]
    /\ job' = [job EXCEPT ![h] = NoJob]
    /\ ref' = [ref EXCEPT ![h] = None]
    /\ receipt' = [receipt EXCEPT ![h] = None]

\* The handler throws: the worker puts the event back, even one that another
\* worker has finished with, or gives it up.
Throw(h) ==
    /\ Idle(h)
    /\ queued' \in {queued \cup {job[h]}, queued \ {job[h]}}

\* A worker has the event in its batch: it will be handled even if another
\* worker settles it first.
Take(h, e) ==
    /\ pc[h] = "idle"
    /\ e \in queued
    /\ pc' = [pc EXCEPT ![h] = "taken"]
    /\ job' = [job EXCEPT ![h] = e]
    /\ UNCHANGED <<invoices, queued, ref, receipt, kra>>

\* Mutant: both handlers submit sales.
NeverCredit(h) == FALSE
\* What the handler is asked to submit.
IsCredit(h)    == job[h][1] = Credit

\* The invoice is read.
Load(h) ==
    /\ pc[h] = "taken"
    /\ pc' = [pc EXCEPT ![h] = "loaded"]
    /\ ref' = [ref EXCEPT ![h] = ctrlNo[InvoiceOf(job[h][2])]]
    /\ UNCHANGED <<invoices, queued, job, receipt, kra>>

\* A credit note must reference the original invoice's control number.
Reject(h) ==
    /\ pc[h] = "loaded"
    /\ IsCredit(h) /\ ref[h] = None
    /\ Throw(h)
    /\ UNCHANGED <<invoices, kra>>

\* external: KRA numbers documents in the order it accepts them.
NextNumber == Cardinality(kra) + 1

\* external: KRA accepts the document; the answer may still be lost.
Submit(h) ==
    /\ pc[h] = "loaded"
    /\ IsCredit(h) => ref[h] # None
    /\ Cardinality(kra) < MaxDocs
    /\ kra' = kra \cup {[type |-> job[h][1], source |-> job[h][2], ref |-> ref[h],
                         no |-> NextNumber]}
    /\ receipt' = [receipt EXCEPT ![h] = NextNumber]
    /\ pc' = [pc EXCEPT ![h] = "submitted"]
    /\ UNCHANGED <<invoices, queued, job, ref>>

\* KRA refuses, or cannot be reached: nothing happened there.
SubmitFails(h) ==
    /\ pc[h] = "loaded"
    /\ Throw(h)
    /\ UNCHANGED <<invoices, kra>>

\* The answer does not arrive in time although KRA accepted the document.
AnswerLost(h) ==
    /\ pc[h] = "submitted"
    /\ Throw(h)
    /\ UNCHANGED <<invoices, kra>>

\* Mutant: the last receipt wins.
Overwritten(f, i, n) == [f EXCEPT ![i] = n]
\* recordReceipt writes only where no receipt is stored yet.
Stored(f, i, n)      == IF f[i] = None THEN [f EXCEPT ![i] = n] ELSE f

\* The receipt is recorded.  The event is then finalized, unless that update
\* fails or a newer event is in flight by now.
RecordReceipt(h) ==
    LET i == InvoiceOf(job[h][2])
    IN  /\ pc[h] = "submitted"
        /\ IF IsCredit(h)
           THEN creditNo' = Stored(creditNo, i, receipt[h]) /\ UNCHANGED ctrlNo
           ELSE ctrlNo' = Stored(ctrlNo, i, receipt[h]) /\ UNCHANGED creditNo
        /\ queued' \in {queued, queued \ {job[h]}}
        /\ Idle(h)
        /\ UNCHANGED <<statuses, booked, kra>>

\* The process dies: the event stays in flight and the reaper returns it.
Die(h) ==
    /\ pc[h] # "idle"
    /\ Idle(h)
    /\ UNCHANGED <<invoices, queued, kra>>

-----------------------------------------------------------------------------
Init ==
    /\ status = [i \in Invoices |-> "DRAFT"]
    /\ seen = [i \in Invoices |-> {"DRAFT"}]
    /\ booked = {}
    /\ ctrlNo = [i \in Invoices |-> None]
    /\ creditNo = [i \in Invoices |-> None]
    /\ queued = {}
    /\ pc = [h \in Handlers |-> "idle"]
    /\ job = [h \in Handlers |-> NoJob]
    /\ ref = [h \in Handlers |-> None]
    /\ receipt = [h \in Handlers |-> None]
    /\ kra = {}

Handle(h) ==
    \/ \E e \in queued : Take(h, e)
    \/ Load(h) \/ Reject(h) \/ Submit(h) \/ SubmitFails(h) \/ AnswerLost(h)
    \/ RecordReceipt(h) \/ Die(h)

Next ==
    \/ \E i \in Invoices : \/ Confirm(i) \/ VoidDraft(i) \/ VoidReleased(i)
                           \/ Pay(i) \/ TriggerSubmit(i)
    \/ \E n \in Notes : Issue(n)
    \/ \E h \in Handlers : Handle(h)

Spec == Init /\ [][Next]_vars

-----------------------------------------------------------------------------
TypeOK ==
    /\ status \in [Invoices -> Statuses] /\ seen \in [Invoices -> SUBSET Statuses]
    /\ booked \subseteq Sources
    /\ ctrlNo \in [Invoices -> Number \cup {None}]
    /\ creditNo \in [Invoices -> Number \cup {None}]
    /\ queued \subseteq Events
    /\ pc \in [Handlers -> {"idle", "taken", "loaded", "submitted"}]
    /\ job \in [Handlers -> Events \cup {NoJob}]
    /\ ref \in [Handlers -> Number \cup {None}]
    /\ receipt \in [Handlers -> Number \cup {None}]
    /\ kra \subseteq [type : {Sale, Credit}, source : Sources, ref : Number \cup {None},
                      no : Number]

DocsOf(type, i) == {d \in kra : d.type = type /\ InvoiceOf(d.source) = i}

\* A control number on an invoice is that of a document KRA holds for it, of
\* the right kind.
ReceiptsAreGenuine ==
    \A i \in Invoices :
      /\ ctrlNo[i] # None => \E d \in DocsOf(Sale, i) : d.no = ctrlNo[i]
      /\ creditNo[i] # None => \E d \in DocsOf(Credit, i) : d.no = creditNo[i]

\* Whatever is submitted twice, and in whatever order receipts come back,
\* every credit note at KRA refers to the control number the invoice shows.
CreditRefersToInvoice ==
    \A i \in Invoices : \A d \in DocsOf(Credit, i) : d.ref = ctrlNo[i]

\* "Reversing a released invoice is a credit note in KRA's eyes" (voidInvoice):
\* what KRA holds as a credit note is a void or a note that the ledger has,
\* however voids, payments and notes overlap on one invoice, and whatever the
\* invoice is by then.
CreditIsBooked ==
    \A d \in kra : d.type = Credit => d.source \in booked
=============================================================================
