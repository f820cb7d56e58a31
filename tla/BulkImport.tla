----------------------------- MODULE BulkImport -----------------------------
(***************************************************************************)
(* Capture of supplier eTIMS receipts: one by one, or in bulk from an      *)
(* uploaded ETR file (SupplierEtimsService, SupplierEtimsHandlerRegistrar) *)
(*                                                                         *)
(* An upload and its rows are inserted together; the outbox event that     *)
(* processes them is enqueued by a separate statement.  The handler works  *)
(* statement by statement, may die anywhere, and its event stays in flight *)
(* until it returns (Outbox.tla), so it may be called again, and by two    *)
(* workers at once.  Every row of an upload lists one receipt number.      *)
(***************************************************************************)
EXTENDS Integers, FiniteSets, FiniteSetsExt

CONSTANTS
    Uploads, Numbers,
    Rows,          \* rowIndex values of an upload, each one a number
    NumberOf,      \* row of an upload -> the receipt number it lists
    Importers,     \* handler calls in progress at the same time
    Clerks,        \* requests in progress at the same time
    Batch,         \* rows a handler call takes (500)
    Quiet,         \* numbers that no two captures look up at the same time
    Unhurried,     \* uploads handled by one call at a time, not retried meanwhile,
                   \* and none of whose requests dies
    MaxFaults,     \* bound on calls that die and statements that fail
    NoUpload, NoNumber

ASSUME BulkAssumption ==
    /\ Rows \subseteq Nat /\ IsFiniteSet(Rows) /\ NumberOf \in [Rows -> Numbers]
    /\ Batch \in Nat \ {0} /\ MaxFaults \in Nat
    /\ Quiet \subseteq Numbers /\ Unhurried \subseteq Uploads
    /\ NoUpload \notin Uploads /\ NoNumber \notin Numbers

VARIABLES
    upload,     \* SupplierEtimsUpload rows: status, processedItems
    item,       \* SupplierEtimsUploadItem rows: the status of each row
    captured,   \* SupplierEtimsInvoice rows of each receipt number
    known,      \* numbers whose supplier is on file
    event,      \* uploads with an ETIMS_BULK_IMPORT event in flight
    importer,   \* each handler call: where it is, its upload, rows left, rows done
    clerk,      \* each request: where it is and what it is about
    faults      \* faults so far

bulkVars == <<upload, item, captured, known, event, importer, clerk, faults>>

UploadStatus == {"NONE", "UPLOADED", "PROCESSING", "COMPLETED"}
ItemStatus   == {"NONE", "QUEUED", "PROCESSED", "DUPLICATE", "ERROR"}

NotImporting == [step |-> "idle", upload |-> NoUpload, todo |-> {}, done |-> 0]
AtDesk       == [step |-> "idle", upload |-> NoUpload, number |-> NoNumber]

RowsWith(u, s) == {r \in Rows : item[u][r] = s}
First(S)       == CHOOSE r \in S : \A q \in S : r <= q
FirstRows(S)   == {r \in S : Cardinality({q \in S : q < r}) < Batch}

Current(m) == First(importer[m].todo)

\* Numbers that some capture has looked up and is about to insert.
Pending == {clerk[k].number : k \in Clerks}
           \cup {NumberOf[Current(m)] : m \in {n \in Importers : importer[n].step = "insert"}}

Imports(u)  == \E m \in Importers : importer[m].upload = u
Retries(u)  == \E k \in Clerks : clerk[k].step = "retry" /\ clerk[k].upload = u

-----------------------------------------------------------------------------
(* Requests                                                                *)

Serve(k, task) ==
    /\ clerk[k] = AtDesk
    /\ clerk' = [clerk EXCEPT ![k] = task]

Served(k) == clerk' = [clerk EXCEPT ![k] = AtDesk]

\* create: the look-up of the number ...
CaptureRead(k, n) ==
    /\ captured[n] = 0
    /\ n \in Quiet => n \notin Pending
    /\ Serve(k, [AtDesk EXCEPT !.step = "capture", !.number = n])
    /\ UNCHANGED <<upload, item, captured, known, event, importer, faults>>

\* ... and the insert; no index keeps a second one out.
CaptureInsert(k) ==
    /\ clerk[k].step = "capture"
    /\ captured' = [captured EXCEPT ![clerk[k].number] = @ + 1]
    /\ Served(k)
    /\ UNCHANGED <<upload, item, known, event, importer, faults>>

\* createUpload: the upload with its rows.
Upload(k, u) ==
    /\ upload[u].status = "NONE"
    /\ upload' = [upload EXCEPT ![u].status = "UPLOADED"]
    /\ item' = [item EXCEPT ![u] = [r \in Rows |-> "QUEUED"]]
    /\ Serve(k, [AtDesk EXCEPT !.step = "enqueue", !.upload = u])
    /\ UNCHANGED <<captured, known, event, importer, faults>>

\* retryUpload: refused while the upload has not been looked at.
RetryRead(k, u) ==
    /\ upload[u].status \notin {"NONE", "UPLOADED"}
    /\ u \in Unhurried => ~Imports(u) /\ u \notin event
    /\ Serve(k, [AtDesk EXCEPT !.step = "retry", !.upload = u])
    /\ UNCHANGED <<upload, item, captured, known, event, importer, faults>>

\* Mutant: the rows are queued again but the upload stays completed.
StaysCompleted(u) == upload[u].status
\* The status of an upload that is retried.
Retried(u)        == "UPLOADED"

RetryCommit(k) ==
    LET u == clerk[k].upload
    IN  /\ clerk[k].step = "retry"
        /\ item' = [item EXCEPT ![u] =
                      [r \in Rows |-> IF @[r] = "ERROR" THEN "QUEUED" ELSE @[r]]]
        /\ upload' = [upload EXCEPT ![u].status = Retried(u)]
        /\ clerk' = [clerk EXCEPT ![k].step = "enqueue"]
        /\ UNCHANGED <<captured, known, event, importer, faults>>

\* The event is refused by the index when one is in flight.
EnqueueImport(k) ==
    /\ clerk[k].step = "enqueue"
    /\ event' = event \cup {clerk[k].upload}
    /\ Served(k)
    /\ UNCHANGED <<upload, item, captured, known, importer, faults>>

\* The supplier of a receipt is put on file (PartiesService.create).
KnowSupplier(n) ==
    /\ n \notin known
    /\ known' = known \cup {n}
    /\ UNCHANGED <<upload, item, captured, event, importer, clerk, faults>>

-----------------------------------------------------------------------------
(* The handler                                                             *)

Works(m, step) == importer' = [importer EXCEPT ![m].step = step]
Leaves(m)     == importer' = [importer EXCEPT ![m] = NotImporting]

\* A completed upload is not looked at again.
StartImport(m, u) ==
    /\ importer[m] = NotImporting /\ u \in event
    /\ u \in Unhurried => ~Imports(u) /\ ~Retries(u)
    /\ IF upload[u].status = "COMPLETED"
       THEN event' = event \ {u} /\ UNCHANGED <<upload, importer>>
       ELSE /\ upload' = [upload EXCEPT ![u].status = "PROCESSING"]
            /\ importer' = [importer EXCEPT ![m] =
                              [step |-> "read", upload |-> u, todo |-> {}, done |-> 0]]
            /\ UNCHANGED event
    /\ UNCHANGED <<item, captured, known, clerk, faults>>

ReadItems(m) ==
    /\ importer[m].step = "read"
    /\ importer' = [importer EXCEPT ![m].step = "check",
                      ![m].todo = FirstRows(RowsWith(importer[m].upload, "QUEUED"))]
    /\ UNCHANGED <<upload, item, captured, known, event, clerk, faults>>

\* The current row gets its final status.
Settle(m, status, counted) ==
    LET r == Current(m)
    IN  /\ item' = [item EXCEPT ![importer[m].upload][r] = status]
        /\ importer' = [importer EXCEPT ![m].step = "check", ![m].todo = @ \ {r},
                                        ![m].done = @ + (IF counted THEN 1 ELSE 0)]

\* Mutant: receipts that are captured already are not looked for.
NeverDuplicate(n) == FALSE
Duplicate(n)      == captured[n] > 0

CheckItem(m) ==
    LET n == NumberOf[Current(m)]
    IN  /\ importer[m].step = "check" /\ importer[m].todo # {}
        /\ n \in Quiet => n \notin Pending
        /\ IF Duplicate(n) THEN Settle(m, "DUPLICATE", TRUE)
           ELSE IF n \notin known THEN Settle(m, "ERROR", FALSE)
           ELSE Works(m, "insert") /\ UNCHANGED item
        /\ UNCHANGED <<upload, captured, known, event, clerk, faults>>

InsertReceipt(m) ==
    /\ importer[m].step = "insert"
    /\ captured' = [captured EXCEPT ![NumberOf[Current(m)]] = @ + 1]
    /\ Works(m, "mark")
    /\ UNCHANGED <<upload, item, known, event, clerk, faults>>

MarkItem(m) ==
    /\ importer[m].step = "mark"
    /\ Settle(m, "PROCESSED", TRUE)
    /\ UNCHANGED <<upload, captured, known, event, clerk, faults>>

\* A statement about the current row fails, the last one included: the row
\* is an error even when its receipt is captured.
ItemFails(m) ==
    /\ importer[m].step \in {"check", "insert", "mark"} /\ importer[m].todo # {}
    /\ faults < MaxFaults
    /\ faults' = faults + 1
    /\ Settle(m, "ERROR", FALSE)
    /\ UNCHANGED <<upload, captured, known, event, clerk>>

FinishImport(m) ==
    /\ importer[m].step = "check" /\ importer[m].todo = {}
    /\ upload' = [upload EXCEPT ![importer[m].upload].status = "COMPLETED",
                                ![importer[m].upload].processed = @ + importer[m].done]
    /\ Works(m, "done")
    /\ UNCHANGED <<item, captured, known, event, clerk, faults>>

\* The handler has returned and the worker finishes its event.
EventDone(m) ==
    /\ importer[m].step = "done"
    /\ event' = event \ {importer[m].upload}
    /\ Leaves(m)
    /\ UNCHANGED <<upload, item, captured, known, clerk, faults>>

\* The process dies, or a statement outside the loop fails; after too many
\* failures the event is given up.
ImporterDies(m) ==
    /\ importer[m] # NotImporting /\ faults < MaxFaults
    /\ faults' = faults + 1
    /\ event' \in {event, event \ {importer[m].upload}}
    /\ Leaves(m)
    /\ UNCHANGED <<upload, item, captured, known, clerk>>

\* The process of a request dies between its statements.
ClerkDies(k) ==
    /\ clerk[k] # AtDesk /\ clerk[k].upload \notin Unhurried
    /\ faults < MaxFaults
    /\ faults' = faults + 1
    /\ Served(k)
    /\ UNCHANGED <<upload, item, captured, known, event, importer>>

-----------------------------------------------------------------------------
BulkInit ==
    /\ upload = [u \in Uploads |-> [status |-> "NONE", processed |-> 0]]
    /\ item = [u \in Uploads |-> [r \in Rows |-> "NONE"]]
    /\ captured = [n \in Numbers |-> 0]
    /\ known = {}
    /\ event = {}
    /\ importer = [m \in Importers |-> NotImporting]
    /\ clerk = [k \in Clerks |-> AtDesk]
    /\ faults = 0

Importing(m) ==
    \/ \E u \in Uploads : StartImport(m, u)
    \/ ReadItems(m) \/ CheckItem(m) \/ InsertReceipt(m) \/ MarkItem(m) \/ ItemFails(m)
    \/ FinishImport(m) \/ EventDone(m) \/ ImporterDies(m)

BulkNext ==
    \/ \E n \in Numbers : KnowSupplier(n)
    \/ \E k \in Clerks, n \in Numbers : CaptureRead(k, n)
    \/ \E k \in Clerks, u \in Uploads : Upload(k, u) \/ RetryRead(k, u)
    \/ \E k \in Clerks : CaptureInsert(k) \/ RetryCommit(k) \/ EnqueueImport(k) \/ ClerkDies(k)
    \/ \E m \in Importers : Importing(m)

BulkSpec == BulkInit /\ [][BulkNext]_bulkVars

-----------------------------------------------------------------------------
BulkTypeOK ==
    /\ upload \in [Uploads -> [status : UploadStatus, processed : Nat]]
    /\ item \in [Uploads -> [Rows -> ItemStatus]]
    /\ captured \in [Numbers -> Nat]
    /\ known \subseteq Numbers /\ event \subseteq Uploads
    /\ importer \in [Importers -> [step : {"idle", "read", "check", "insert", "mark", "done"},
                                   upload : Uploads \cup {NoUpload},
                                   todo : SUBSET Rows, done : Nat]]
    /\ clerk \in [Clerks -> [step : {"idle", "capture", "retry", "enqueue"},
                             upload : Uploads \cup {NoUpload},
                             number : Numbers \cup {NoNumber}]]
    /\ faults \in 0..MaxFaults

\* "A receipt with KRA number ... is already captured" (create) and
\* DUPLICATE rows (bulkImport): unless two captures look a number up at once,
\* it is captured at most once, in whatever order uploads, retries, faults
\* between the insert and the mark, and calls of the handler come; and a row
\* that counts as handled has its receipt.
CapturedOnce ==
    /\ \A n \in Quiet : captured[n] <= 1
    /\ \A u \in Uploads, r \in Rows :
         item[u][r] \in {"PROCESSED", "DUPLICATE"} => captured[NumberOf[r]] >= 1

Handled(u) == Cardinality(RowsWith(u, "PROCESSED")) + Cardinality(RowsWith(u, "DUPLICATE"))

\* COMPLETED (bulkImport, retryUpload): a completed upload leaves no row of
\* its batch queued, and never claims more rows than were handled, when its
\* calls do not overlap with each other or with a retry; and one that waits,
\* which retryUpload refuses to queue again, is queued.  (A call that dies
\* takes its count along, and rows past the batch stay queued.)
UploadsAccount ==
    \A u \in Unhurried :
      /\ upload[u].processed <= Handled(u)
      /\ upload[u].status = "COMPLETED" /\ Cardinality(Rows) <= Batch
           => RowsWith(u, "QUEUED") = {}
      /\ upload[u].status = "UPLOADED"
           => u \in event \/ \E k \in Clerks : clerk[k] = [AtDesk EXCEPT !.step = "enqueue",
                                                                    !.upload = u]
=============================================================================
