---------------------------- MODULE CreditNotes ----------------------------
(***************************************************************************)
(* Credit notes (CreditNotesService) next to the sale invoices they refer  *)
(* to: issuing a note brings goods back, lowers what the invoice says was  *)
(* paid, posts CREDIT_NOTE and queues the note for KRA, all in one         *)
(* transaction.  Sales.tla supplies the invoices and the requests; a       *)
(* request that issues a note is one of its requests, in step "issue".     *)
(***************************************************************************)
EXTENDS Sales

CONSTANTS
    Notes,
    Reference,          \* note -> referenceInvoiceId, or None
    NoteItem, NoteQty,  \* note -> item and quantity of its tracked lines (0: none)
    NoteTotal, NoteTax  \* note -> total and taxTotal

ASSUME CreditNotesAssumption ==
    /\ Reference \in [Notes -> Invoices \cup {None}]
    /\ NoteItem \in [Notes -> Items]
    /\ NoteQty \in [Notes -> Nat]
    /\ NoteTotal \in [Notes -> Nat]
    /\ NoteTax \in [Notes -> Nat]
    /\ IsFiniteSet(Notes) /\ None \notin Notes /\ Notes \cap Invoices = {}

VARIABLES
    noteStatus,  \* CreditNote.status, or "NONE" before the draft is created
    noteBack,    \* VOID stock movements that a note caused
    handling     \* the note that each request issues

noteVars  == <<noteStatus, noteBack, handling>>
notedVars == <<vars, noteVars>>

NoteStatus == {"NONE", "DRAFT", "ISSUED", "CANCELLED"}

-----------------------------------------------------------------------------
\* createDraft: of a customer, or against an invoice that is not void now.
CreateNote(n) ==
    /\ noteStatus[n] = "NONE"
    /\ Reference[n] # None => status[Reference[n]] \notin {"NONE", "VOID"}
    /\ noteStatus' = [noteStatus EXCEPT ![n] = "DRAFT"]
    /\ UNCHANGED <<vars, noteBack, handling>>

\* cancel: one update, guarded by DRAFT.
CancelNote(n) ==
    /\ noteStatus[n] = "DRAFT"
    /\ noteStatus' = [noteStatus EXCEPT ![n] = "CANCELLED"]
    /\ UNCHANGED <<vars, noteBack, handling>>

\* A note without an invoice reads nothing else.
BeginFreely(r) ==
    /\ op' = [op EXCEPT ![r] = "issue"]
    /\ UNCHANGED <<inv, seen, amt>>

\* issue() reads the note and the invoice as it is now, void and draft included.
IssueRead(r, n) ==
    /\ op[r] = "idle"
    /\ noteStatus[n] = "DRAFT"
    /\ IF Reference[n] = None THEN BeginFreely(r) ELSE Begin(r, "issue", Reference[n], 0)
    /\ handling' = [handling EXCEPT ![r] = n]
    /\ UNCHANGED <<docs, goods, journal, kra, noteStatus, noteBack>>

\* Mutant: amountPaid is written without looking at it again.
InvoiceUnguarded(r) == TRUE
\* The compare-and-set on the invoice is on amountPaid alone.
InvoiceUnchanged(r) == inv[r] # None => SamePaid(r)

\* Mutant: the note is updated by id alone.
NoteUnguarded(n)  == TRUE
\* The where clause of the update of the note.
NoteStillDraft(n) == noteStatus[n] = "DRAFT"

PaidAfterNote(r, n) ==
    IF seen[r].paid > NoteTotal[n] THEN seen[r].paid - NoteTotal[n] ELSE 0

\* Mutant: an invoice that is still paid in part counts as unpaid.
StatusAlwaysConfirmed(r, newPaid) ==
    IF newPaid >= Total[inv[r]] THEN seen[r].status ELSE "CONFIRMED"
StatusAfterNote(r, newPaid) ==
    IF newPaid >= Total[inv[r]] THEN seen[r].status
    ELSE IF newPaid > 0 THEN "PARTIALLY_PAID" ELSE "CONFIRMED"

\* The invoice is rewritten from what was read of it, and the note is queued
\* for KRA; a note without an invoice does neither.
UnwindInvoice(r, n) ==
    LET i       == inv[r]
        newPaid == PaidAfterNote(r, n)
    IN  IF i = None
        THEN UNCHANGED <<status, paid, queued>>
        ELSE /\ paid' = [paid EXCEPT ![i] = newPaid]
             /\ status' = [status EXCEPT ![i] = StatusAfterNote(r, newPaid)]
             /\ queued' = queued \cup {<<CreditNote, n>>}

IssueCommit(r) ==
    LET n == handling[r]
    IN  /\ op[r] = "issue"
        /\ Finish(r)
        /\ handling' = [handling EXCEPT ![r] = None]
        /\ IF InvoiceUnchanged(r) /\ NoteStillDraft(n) /\ Postable(NoteTotal[n], NoteTax[n])
           THEN /\ stock' = [stock EXCEPT ![NoteItem[n]] = @ + NoteQty[n]]
                /\ noteBack' = [noteBack EXCEPT ![n] = @ + 1]
                /\ noteStatus' = [noteStatus EXCEPT ![n] = "ISSUED"]
                /\ journal' = Post(journal, "CREDIT_NOTE", n, NoteTotal[n])
                /\ UnwindInvoice(r, n)
                /\ UNCHANGED <<payments, price, out, back, submitted>>
           ELSE UNCHANGED <<docs, goods, journal, kra, noteStatus, noteBack>>

-----------------------------------------------------------------------------
NotedInit ==
    /\ Init
    /\ noteStatus = [n \in Notes |-> "NONE"]
    /\ noteBack = [n \in Notes |-> 0]
    /\ handling = [r \in Requests |-> None]

NoteNext ==
    \/ \E n \in Notes : CreateNote(n) \/ CancelNote(n)
    \/ \E r \in Requests, n \in Notes : IssueRead(r, n)
    \/ \E r \in Requests : IssueCommit(r)

NotedNext == (Next /\ UNCHANGED noteVars) \/ NoteNext

NotedSpec == NotedInit /\ [][NotedNext]_notedVars

-----------------------------------------------------------------------------
Issued(i) == {n \in Notes : Reference[n] = i /\ noteStatus[n] = "ISSUED"}
Received(i) == AmountOf(PaymentsOf(i))
Credited(i) == SumFunctionOnSet(NoteTotal, Issued(i))

\* "A concurrent issue loses here and the whole transaction rolls back"
\* (issue): however issues and cancellations race, the goods of a note come
\* back once, and the note is in the ledger, exactly when it is issued.
NoteCountsOnce ==
    \A n \in Notes :
      /\ noteBack[n] = (IF noteStatus[n] = "ISSUED" THEN 1 ELSE 0)
      /\ Posted(journal, "CREDIT_NOTE", n) <=> noteStatus[n] = "ISSUED"

\* Payments and notes that race on one invoice never lose each other:
\* amountPaid is what was received less what was credited, up to the amounts
\* by which a note exceeded what was paid when it was issued.
PaidAccountsForNotes ==
    \A i \in Invoices :
      /\ paid[i] <= Received(i)
      /\ paid[i] >= Received(i) - Credited(i)
=============================================================================
