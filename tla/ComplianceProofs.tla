------------------------- MODULE ComplianceProofs -------------------------
(***************************************************************************)
(* What overlapping requests, calls of the handlers and faults cannot      *)
(* break in submissions to KRA, journal entries, bank statements, turnover *)
(* tax and the receipts of suppliers, for any rows, documents, accounts,   *)
(* codes, months and requests.                                             *)
(***************************************************************************)
EXTENDS MCCompliance, Sums

-----------------------------------------------------------------------------
(* Submissions to KRA                                                      *)

\* The numbers KRA gives out do not exceed the documents it holds.
KraBounded == IsFiniteSet(kra) /\ Cardinality(kra) <= MaxDocs

\* What a handler call knows stays true while it waits for KRA: the control
\* number it read is never replaced, and its answer is a document at KRA.
CallKnows(h) ==
    /\ pc[h] # "idle" => job[h] \in Events
    /\ pc[h] \in {"loaded", "submitted"} /\ ref[h] # None => ref[h] = ctrlNo[InvoiceOf(job[h][2])]
    /\ pc[h] = "submitted" =>
         \E d \in DocsOf(job[h][1], InvoiceOf(job[h][2])) : d.no = receipt[h]

\* A credit note is in flight, with the outbox or with a handler, for what the
\* ledger has only.
CreditUnderWay ==
    /\ \A x \in Sources : <<Credit, x>> \in queued => x \in booked
    /\ \A h \in Handlers : pc[h] # "idle" /\ job[h][1] = Credit => job[h][2] \in booked

\* No credit note at KRA is without a reference.
CreditsHaveReference == \A i \in Invoices : \A d \in DocsOf(Credit, i) : d.ref # None

EInv ==
    /\ TypeOK
    /\ KraBounded
    /\ \A h \in Handlers : CallKnows(h)
    /\ CreditUnderWay
    /\ CreditsHaveReference
    /\ ReceiptsAreGenuine
    /\ CreditRefersToInvoice
    /\ CreditIsBooked

-----------------------------------------------------------------------------
\* KRA holds nothing and nothing is in flight.
LEMMA EInvInit == Init => EInv
  <1> SUFFICES ASSUME Init PROVE EInv
    OBVIOUS
  <1>1. KraBounded
    BY FS_EmptySet, EtimsAssumption DEF Init, KraBounded
  <1>2. TypeOK
    BY DEF Init, TypeOK, Statuses
  <1>3. QED
    BY <1>1, <1>2 DEF Init, EInv, CallKnows, CreditUnderWay, CreditsHaveReference,
                ReceiptsAreGenuine, CreditRefersToInvoice, CreditIsBooked, DocsOf

\* An event is about an invoice.
LEMMA EventsAre ==
  ASSUME NEW e \in Events
  PROVE  /\ e[1] \in {Sale, Credit} /\ e[2] \in Sources /\ InvoiceOf(e[2]) \in Invoices
  BY EtimsAssumption DEF Events, Sources, InvoiceOf

\* Producers touch neither numbers nor handlers; what the ledger has it keeps.
LEMMA ProducerKeeps ==
  ASSUME EInv, UNCHANGED <<ctrlNo, creditNo, calls, kra>>,
         \/ UNCHANGED statuses
         \/ \E i \in Invoices, s \in Statuses : Becomes(i, s),
         booked \subseteq booked', booked' \subseteq Sources,
         \E e \in Events : /\ queued' \in {queued, queued \cup {e}}
                           /\ e[1] = Credit => e[2] \in booked'
  PROVE  EInv'
  <1>1. PICK e \in Events : /\ queued' \in {queued, queued \cup {e}}
                            /\ e[1] = Credit => e[2] \in booked'
    OBVIOUS
  <1>2. status' \in [Invoices -> Statuses] /\ seen' \in [Invoices -> SUBSET Statuses]
    BY DEF EInv, TypeOK, statuses, Becomes
  <1>3. TypeOK'
    BY <1>1, <1>2 DEF EInv, TypeOK, calls
  <1>4. KraBounded' /\ (\A h \in Handlers : CallKnows(h)')
    BY DEF EInv, KraBounded, CallKnows, DocsOf, calls
  <1>5. CreditUnderWay'
    <2>1. ASSUME NEW x \in Sources, <<Credit, x>> \in queued' PROVE x \in booked'
      BY <1>1, <2>1 DEF EInv, CreditUnderWay
    <2>2. ASSUME NEW h \in Handlers, pc[h] # "idle", job[h][1] = Credit
          PROVE  job[h][2] \in booked'
      BY <2>2 DEF EInv, CreditUnderWay
    <2>3. QED
      BY <2>1, <2>2 DEF CreditUnderWay, calls
  <1>6. /\ CreditsHaveReference' /\ ReceiptsAreGenuine' /\ CreditRefersToInvoice'
        /\ CreditIsBooked'
    BY DEF EInv, CreditsHaveReference, ReceiptsAreGenuine, CreditRefersToInvoice,
           CreditIsBooked, DocsOf
  <1>7. QED
    BY <1>3, <1>4, <1>5, <1>6 DEF EInv

\* A handler call that ends without a receipt leaves its event queued or not.
LEMMA EndingKeeps ==
  ASSUME EInv, NEW h \in Handlers, pc[h] # "idle", Idle(h),
         queued' \in {queued, queued \cup {job[h]}, queued \ {job[h]}},
         UNCHANGED <<invoices, kra>>
  PROVE  EInv'
  <1>1. job[h] \in Events /\ (job[h][1] = Credit => job[h][2] \in booked)
    BY DEF EInv, CallKnows, CreditUnderWay
  <1>2. TypeOK'
    BY <1>1 DEF EInv, TypeOK, Idle, invoices, statuses
  <1>3. KraBounded' /\ CreditsHaveReference' /\ ReceiptsAreGenuine' /\ CreditRefersToInvoice'
        /\ CreditIsBooked'
    BY DEF EInv, KraBounded, CreditsHaveReference, ReceiptsAreGenuine,
           CreditRefersToInvoice, CreditIsBooked, DocsOf, invoices
  <1>4. \A g \in Handlers : CallKnows(g)'
    BY DEF EInv, TypeOK, CallKnows, Idle, DocsOf, invoices
  <1>5. CreditUnderWay'
    BY <1>1 DEF EInv, TypeOK, CreditUnderWay, Idle, invoices
  <1>6. QED
    BY <1>2, <1>3, <1>4, <1>5 DEF EInv

-----------------------------------------------------------------------------
\* Every producer, every step of a handler and every failure keep the invariant.
LEMMA EInvNext == EInv /\ [Next]_vars => EInv'
  <1> SUFFICES ASSUME EInv, [Next]_vars PROVE EInv'
    OBVIOUS
  <1> USE EtimsAssumption
  <1>0. /\ \A i \in Invoices : /\ <<Sale, i>> \in Events /\ <<Sale, i>>[1] # Credit
                               /\ <<Credit, i>> \in Events /\ i \in Sources
        /\ \A n \in Notes : <<Credit, n>> \in Events /\ n \in Sources /\ Reference[n] \in Invoices
        /\ booked \subseteq Sources
    BY DEF Events, Sources, Sale, Credit, EInv, TypeOK
  <1>1. ASSUME NEW i \in Invoices, Confirm(i) PROVE EInv'
    BY <1>0, <1>1, ProducerKeeps DEF Confirm, Enqueue, Statuses
  <1>2. ASSUME NEW i \in Invoices, VoidDraft(i) \/ VoidReleased(i) \/ Pay(i) PROVE EInv'
    <2>1. CASE VoidDraft(i) \/ Pay(i)
      BY <1>0, <2>1, ProducerKeeps DEF VoidDraft, Pay, Statuses
    <2>2. CASE VoidReleased(i)
      <3>1. booked' = booked \cup {i} /\ queued' = queued \cup {<<Credit, i>>}
        BY <2>2 DEF VoidReleased, Enqueue
      <3>2. <<Credit, i>> \in Events /\ <<Credit, i>>[2] \in booked'
        BY <1>0, <3>1
      <3>3. QED
        BY <1>0, <2>2, <3>1, <3>2, ProducerKeeps DEF VoidReleased, Statuses
    <2>3. QED
      BY <1>2, <2>1, <2>2
  <1>3. ASSUME NEW i \in Invoices, TriggerSubmit(i) PROVE EInv'
    BY <1>0, <1>3, ProducerKeeps DEF TriggerSubmit, Enqueue, invoices
  <1>12. ASSUME NEW n \in Notes, Issue(n) PROVE EInv'
    <2>1. booked' = booked \cup {n} /\ queued' = queued \cup {<<Credit, n>>}
      BY <1>12 DEF Issue, Enqueue
    <2>2. <<Credit, n>> \in Events /\ <<Credit, n>>[2] \in booked'
      BY <1>0, <2>1
    <2>3. \E s \in Statuses : Becomes(Reference[n], s)
      <3>1. seen[Reference[n]] \subseteq Statuses
        BY <1>0 DEF EInv, TypeOK
      <3>2. QED
        BY <1>12, <3>1 DEF Issue, Statuses
    <2>4. QED
      BY <1>0, <1>12, <2>1, <2>2, <2>3, ProducerKeeps DEF Issue
  <1>4. ASSUME NEW h \in Handlers, NEW e \in queued, Take(h, e) PROVE EInv'
    <2>1. e \in Events /\ (e[1] = Credit => e[2] \in booked)
      BY EventsAre DEF EInv, TypeOK, CreditUnderWay, Events, Sources
    <2>2. TypeOK'
      BY <1>4, <2>1 DEF Take, EInv, TypeOK, invoices, statuses
    <2>3. \A g \in Handlers : CallKnows(g)'
      BY <1>4, <2>1 DEF Take, EInv, TypeOK, CallKnows, DocsOf, invoices
    <2>4. CreditUnderWay'
      BY <1>4, <2>1 DEF Take, EInv, TypeOK, CreditUnderWay, invoices
    <2>5. QED
      BY <1>4, <2>2, <2>3, <2>4
      DEF Take, EInv, KraBounded, CreditsHaveReference, ReceiptsAreGenuine,
          CreditRefersToInvoice, CreditIsBooked, DocsOf, invoices
  <1>5. ASSUME NEW h \in Handlers, Load(h) PROVE EInv'
    <2>1. job[h] \in Events
      BY <1>5 DEF Load, EInv, CallKnows
    <2>2. TypeOK'
      BY <1>5, <2>1, EventsAre DEF Load, EInv, TypeOK, invoices, statuses
    <2>3. \A g \in Handlers : CallKnows(g)'
      BY <1>5, <2>1 DEF Load, EInv, TypeOK, CallKnows, DocsOf, invoices
    <2>4. CreditUnderWay'
      BY <1>5 DEF Load, EInv, TypeOK, CreditUnderWay, invoices
    <2>5. QED
      BY <1>5, <2>2, <2>3, <2>4
      DEF Load, EInv, KraBounded, CreditsHaveReference, ReceiptsAreGenuine,
          CreditRefersToInvoice, CreditIsBooked, DocsOf, invoices
  <1>6. ASSUME NEW h \in Handlers, Reject(h) \/ SubmitFails(h) \/ AnswerLost(h) PROVE EInv'
    BY <1>6, EndingKeeps DEF Reject, SubmitFails, AnswerLost, Throw
  <1>7. ASSUME NEW h \in Handlers, Submit(h) PROVE EInv'
    <2> DEFINE doc == [type |-> job[h][1], source |-> job[h][2], ref |-> ref[h],
                       no |-> NextNumber]
    <2>1. /\ pc[h] = "loaded" /\ job[h] \in Events
          /\ job[h][1] = Credit => /\ ref[h] # None /\ ref[h] = ctrlNo[InvoiceOf(job[h][2])]
                                   /\ job[h][2] \in booked
      BY <1>7 DEF Submit, IsCredit, EInv, CallKnows, CreditUnderWay
    <2>2. /\ job[h][1] \in {Sale, Credit} /\ job[h][2] \in Sources
          /\ InvoiceOf(job[h][2]) \in Invoices
      BY <2>1, EventsAre
    <2>3. /\ IsFiniteSet(kra) /\ Cardinality(kra) \in Nat /\ Cardinality(kra) < MaxDocs
          /\ kra' = kra \cup {doc}
      BY <1>7, FS_CardinalityType DEF Submit, EInv, KraBounded
    <2>4. KraBounded'
      <3> HIDE DEF doc
      <3>1. /\ IsFiniteSet(kra \cup {doc})
            /\ Cardinality(kra \cup {doc}) \in {Cardinality(kra), Cardinality(kra) + 1}
        BY <2>3, FS_AddElement
      <3>2. QED
        BY <2>3, <3>1 DEF KraBounded
    <2>5. NextNumber \in Number
      BY <2>3 DEF NextNumber, Number
    <2>6. TypeOK'
      BY <1>7, <2>2, <2>3, <2>5 DEF Submit, EInv, TypeOK, invoices, statuses
    <2>7. /\ doc.type = job[h][1] /\ doc.source = job[h][2]
          /\ doc.ref = ref[h] /\ doc.no = NextNumber
      OBVIOUS
    <2> HIDE DEF doc
    <2>8. \A t, i : DocsOf(t, i)' =
            IF t = job[h][1] /\ i = InvoiceOf(job[h][2]) THEN DocsOf(t, i) \cup {doc} ELSE DocsOf(t, i)
      BY <2>3, <2>7 DEF DocsOf
    <2>9. \A g \in Handlers : CallKnows(g)'
      <3>1. ASSUME NEW g \in Handlers PROVE CallKnows(g)'
        <4>1. CallKnows(g)
          BY DEF EInv
        <4>2. CASE g = h
          BY <1>7, <2>1, <2>7, <2>8, <4>1, <4>2 DEF Submit, EInv, TypeOK, CallKnows, invoices
        <4>3. CASE g # h
          BY <1>7, <2>8, <4>1, <4>3 DEF Submit, EInv, TypeOK, CallKnows, invoices
        <4>4. QED
          BY <4>2, <4>3
      <3>2. QED
        BY <3>1
    <2>10. CreditUnderWay'
      BY <1>7, <2>1 DEF Submit, EInv, TypeOK, CreditUnderWay, invoices
    <2>11. CreditsHaveReference' /\ CreditRefersToInvoice' /\ CreditIsBooked'
      BY <1>7, <2>1, <2>3, <2>7, <2>8
      DEF Submit, EInv, CreditsHaveReference, CreditRefersToInvoice, CreditIsBooked, invoices
    <2>12. ReceiptsAreGenuine'
      BY <1>7, <2>8 DEF Submit, EInv, ReceiptsAreGenuine, invoices
    <2>13. QED
      BY <2>4, <2>6, <2>9, <2>10, <2>11, <2>12 DEF EInv
  <1>8. ASSUME NEW h \in Handlers, RecordReceipt(h) PROVE EInv'
    <2>1. /\ pc[h] = "submitted" /\ job[h] \in Events
          /\ \E d \in DocsOf(job[h][1], InvoiceOf(job[h][2])) : d.no = receipt[h]
          /\ UNCHANGED <<status, seen, booked, kra>> /\ Idle(h)
          /\ queued' \in {queued, queued \ {job[h]}}
      BY <1>8 DEF RecordReceipt, EInv, CallKnows, statuses
    <2>2. job[h][1] \in {Sale, Credit} /\ InvoiceOf(job[h][2]) \in Invoices
      BY <2>1, EventsAre
    <2>3. receipt[h] \in Number
      BY <2>1 DEF EInv, TypeOK, DocsOf
    <2>4. \A i \in Invoices : ctrlNo[i] # None => ctrlNo'[i] = ctrlNo[i]
      BY <1>8, <2>2 DEF RecordReceipt, Stored, EInv, TypeOK
    <2>5. TypeOK'
      BY <1>8, <2>1, <2>2, <2>3 DEF RecordReceipt, Stored, Idle, EInv, TypeOK
    <2>6. \A g \in Handlers : CallKnows(g)'
      <3>1. ASSUME NEW g \in Handlers PROVE CallKnows(g)'
        <4>1. CallKnows(g)
          BY DEF EInv
        <4>2. CASE g = h
          BY <2>1, <4>2 DEF Idle, EInv, TypeOK, CallKnows
        <4>3. CASE g # h
          <5>1. /\ pc'[g] = pc[g] /\ job'[g] = job[g] /\ ref'[g] = ref[g]
                /\ receipt'[g] = receipt[g]
            BY <2>1, <4>3 DEF Idle, EInv, TypeOK
          <5>2. pc[g] # "idle" => InvoiceOf(job[g][2]) \in Invoices
            BY <4>1, EventsAre DEF CallKnows
          <5>3. QED
            BY <2>1, <2>4, <4>1, <5>1, <5>2 DEF CallKnows, DocsOf
        <4>4. QED
          BY <4>2, <4>3
      <3>2. QED
        BY <3>1
    <2>7. CreditUnderWay'
      BY <2>1 DEF Idle, EInv, TypeOK, CreditUnderWay
    <2>8. ReceiptsAreGenuine'
      BY <1>8, <2>1, <2>2 DEF RecordReceipt, IsCredit, Stored, EInv, TypeOK, ReceiptsAreGenuine, DocsOf
    <2>9. CreditsHaveReference' /\ CreditRefersToInvoice' /\ CreditIsBooked'
      BY <2>1, <2>4 DEF EInv, CreditsHaveReference, CreditRefersToInvoice,
                        CreditIsBooked, DocsOf
    <2>10. QED
      BY <2>1, <2>5, <2>6, <2>7, <2>8, <2>9 DEF EInv, KraBounded
  <1>9. ASSUME NEW h \in Handlers, Die(h) PROVE EInv'
    BY <1>9, EndingKeeps DEF Die
  <1>10. CASE UNCHANGED vars
    BY <1>10 DEF vars, invoices, statuses, calls, EInv, TypeOK, KraBounded, CallKnows, CreditUnderWay,
                 CreditsHaveReference, ReceiptsAreGenuine, CreditRefersToInvoice,
                 CreditIsBooked, DocsOf
  <1>11. QED
    BY <1>1, <1>2, <1>3, <1>4, <1>5, <1>6, <1>7, <1>8, <1>9, <1>10, <1>12 DEF Next, Handle

-----------------------------------------------------------------------------
\* The invariant holds of every behaviour.
LEMMA EtimsInvariant == Spec => []EInv
  <1>1. QED
    BY EInvInit, EInvNext, PTL DEF Spec

\* Every variable keeps its type; KRA's numbers stay in range.
THEOREM EtimsTypes == Spec => []TypeOK
  <1>1. EInv => TypeOK
    BY DEF EInv
  <1>2. QED
    BY <1>1, EtimsInvariant, PTL

\* Whatever is lost, repeated or reordered, the number on an invoice is that
\* of a document KRA holds for it (recordReceipt).
THEOREM EtimsReceiptsAreGenuine == Spec => []ReceiptsAreGenuine
  <1>1. EInv => ReceiptsAreGenuine
    BY DEF EInv
  <1>2. QED
    BY <1>1, EtimsInvariant, PTL

\* Every credit note at KRA refers to the number the invoice shows (submit,
\* recordReceipt).
THEOREM EtimsCreditRefersToInvoice == Spec => []CreditRefersToInvoice
  <1>1. EInv => CreditRefersToInvoice
    BY DEF EInv
  <1>2. QED
    BY <1>1, EtimsInvariant, PTL

\* KRA holds credit notes only for voids and notes that the ledger has, however
\* voids, payments and notes overlap (voidInvoice, recordPayment, issue, submit).
THEOREM EtimsCreditIsBooked == Spec => []CreditIsBooked
  <1>1. EInv => CreditIsBooked
    BY DEF EInv
  <1>2. QED
    BY <1>1, EtimsInvariant, PTL

-----------------------------------------------------------------------------
(* Journal entries                                                         *)

\* A request that creates an entry is about accounts.
CreatesOnAccounts ==
    \A k \in Bookkeepers :
      keeping[k].step \in {"create", "insert"} => keeping[k].about \subseteq Accounts

BooksTypeOK ==
    /\ account \in [Accounts -> [active : BOOLEAN, deleted : BOOLEAN]]
    /\ voucher \in [Vouchers -> [status : VoucherStatus,
                                 debit : Accounts \cup {NoAccount},
                                 credit : Accounts \cup {NoAccount}]]
    /\ mirrors \in [Vouchers -> Nat]
    /\ keeping \in [Bookkeepers -> [step : KeepingSteps,
                                    about : SUBSET (Accounts \cup Vouchers)]]

JournalsInv == BooksTypeOK /\ CreatesOnAccounts /\ MirroredOnce

\* A step of a report.
Reporting == (\E step \in {"trial", "sheet"} : ReportRead(step))
             \/ TrialBalance \/ BalanceSheet \/ ProfitRead \/ ProfitLoss \/ Answer

\* Reports change nothing.
LEMMA ReportsOnlyRead == Reporting => UNCHANGED <<account, voucher, mirrors, keeping>>
  BY DEF Reporting, ReportRead, TrialBalance, BalanceSheet, ProfitRead, ProfitLoss, Answer, books

LEMMA JournalsInitInv == JournalsInit => JournalsInv
  <1> SUFFICES ASSUME JournalsInit PROVE JournalsInv
    OBVIOUS
  <1>1. BooksTypeOK
    BY DEF JournalsInit, BooksTypeOK, NoVoucher, NotKeeping, VoucherStatus, KeepingSteps
  <1>2. CreatesOnAccounts
    BY DEF JournalsInit, CreatesOnAccounts, NotKeeping
  <1>3. MirroredOnce
    BY DEF JournalsInit, MirroredOnce, NoVoucher
  <1>4. QED
    BY <1>1, <1>2, <1>3 DEF JournalsInv

KeepingType ==
    keeping \in [Bookkeepers -> [step : KeepingSteps, about : SUBSET (Accounts \cup Vouchers)]]

LEMMA BegunKeeping ==
  ASSUME KeepingType, CreatesOnAccounts, NEW k \in Bookkeepers, NEW step \in KeepingSteps,
         NEW about \in SUBSET (Accounts \cup Vouchers),
         step \in {"create", "insert"} => about \subseteq Accounts,
         BeginKeeping(k, step, about)
  PROVE  KeepingType' /\ CreatesOnAccounts'
  BY DEF BeginKeeping, KeepingType, CreatesOnAccounts, books

LEMMA FinishedKeeping ==
  ASSUME KeepingType, CreatesOnAccounts, NEW k \in Bookkeepers, FinishKeeping(k)
  PROVE  KeepingType' /\ CreatesOnAccounts'
  BY DEF FinishKeeping, KeepingType, CreatesOnAccounts, NotKeeping, KeepingSteps

LEMMA JournalsStepInv == JournalsInv /\ [JournalsNext]_journalVars => JournalsInv'
  <1> SUFFICES ASSUME JournalsInv, [JournalsNext]_journalVars PROVE JournalsInv'
    OBVIOUS
  <1> USE DEF JournalsInv
  <1>0. KeepingType
    BY DEF BooksTypeOK, KeepingType
  <1>1. ASSUME NEW a \in Accounts, Reopen(a) PROVE JournalsInv'
    BY <1>1 DEF Reopen, BooksTypeOK, CreatesOnAccounts, MirroredOnce
  <1>2. ASSUME NEW e \in Vouchers, NEW d \in Automatic, NEW c \in Automatic, AutoPost(e, d, c)
        PROVE  JournalsInv'
    <2>1. d \in Accounts /\ c \in Accounts
      BY JournalsAssumption
    <2>2. BooksTypeOK' /\ CreatesOnAccounts'
      BY <1>2, <2>1 DEF AutoPost, Entry, BooksTypeOK, CreatesOnAccounts, VoucherStatus
    <2>3. MirroredOnce'
      BY <1>2 DEF AutoPost, Entry, MirroredOnce, BooksTypeOK
    <2>4. QED
      BY <2>2, <2>3
  <1>3. ASSUME NEW k \in Bookkeepers, Keeping(k) PROVE JournalsInv'
    <2>1. ASSUME NEW a \in Accounts, NEW step \in KeepingSteps, CloseRead(k, a, step)
          PROVE  JournalsInv'
      <3>1. step \notin {"create", "insert"} /\ {a} \in SUBSET (Accounts \cup Vouchers)
        BY <2>1 DEF CloseRead
      <3>2. KeepingType' /\ CreatesOnAccounts'
        BY <1>0, <2>1, <3>1, BegunKeeping DEF CloseRead
      <3>3. QED
        BY <2>1, <3>2 DEF CloseRead, BeginKeeping, KeepingType, BooksTypeOK, MirroredOnce, books
    <2>2. ASSUME NEW d \in Accounts, NEW c \in Accounts, CreateRead(k, d, c)
          PROVE  JournalsInv'
      <3>1. KeepingType' /\ CreatesOnAccounts'
        BY <1>0, <2>2, BegunKeeping DEF CreateRead, KeepingSteps
      <3>2. QED
        BY <2>2, <3>1 DEF CreateRead, BeginKeeping, KeepingType, BooksTypeOK, MirroredOnce, books
    <2>3. ASSUME NEW a \in Accounts, CloseCommit(k, a) PROVE JournalsInv'
      <3>1. KeepingType' /\ CreatesOnAccounts'
        BY <1>0, <2>3, FinishedKeeping DEF CloseCommit
      <3>2. account' \in [Accounts -> [active : BOOLEAN, deleted : BOOLEAN]]
        BY <2>3 DEF CloseCommit, BooksTypeOK
      <3>3. QED
        BY <2>3, <3>1, <3>2 DEF CloseCommit, KeepingType, BooksTypeOK, MirroredOnce
    <2>4. ASSUME NEW e \in Vouchers, Insert(k, e) PROVE JournalsInv'
      <3>1. KeepingType' /\ CreatesOnAccounts'
        BY <1>0, <2>4, FinishedKeeping DEF Insert
      <3>2. PICK d, c \in keeping[k].about :
              d # c /\ voucher' = [voucher EXCEPT ![e] = Entry("DRAFT", d, c)]
        BY <2>4 DEF Insert
      <3>3. d \in Accounts /\ c \in Accounts
        BY <2>4 DEF Insert, CreatesOnAccounts
      <3>4. QED
        BY <2>4, <3>1, <3>2, <3>3
        DEF Insert, Entry, KeepingType, BooksTypeOK, MirroredOnce, VoucherStatus
    <2>5. ASSUME NEW e \in Vouchers, ApproveRead(k, e) \/ ReverseRead(k, e) PROVE JournalsInv'
      <3>1. KeepingType' /\ CreatesOnAccounts'
        BY <1>0, <2>5, BegunKeeping DEF ApproveRead, ReverseRead, KeepingSteps
      <3>2. QED
        BY <2>5, <3>1
        DEF ApproveRead, ReverseRead, BeginKeeping, KeepingType, BooksTypeOK, MirroredOnce, books
    <2>6. ASSUME NEW e \in Vouchers, ApproveCommit(k, e) PROVE JournalsInv'
      <3>1. KeepingType' /\ CreatesOnAccounts'
        BY <1>0, <2>6, FinishedKeeping DEF ApproveCommit
      <3>2. BooksTypeOK'
        BY <2>6, <3>1 DEF ApproveCommit, KeepingType, BooksTypeOK, VoucherStatus
      <3>3. MirroredOnce'
        BY <2>6 DEF ApproveCommit, BooksTypeOK, MirroredOnce
      <3>4. QED
        BY <3>1, <3>2, <3>3
    <2>7. ASSUME NEW e \in Vouchers, ReverseCommit(k, e) PROVE JournalsInv'
      <3>1. KeepingType' /\ CreatesOnAccounts'
        BY <1>0, <2>7, FinishedKeeping DEF ReverseCommit
      <3>2. CASE Reversible(e)
        <4>1. /\ mirrors[e] = 0
              /\ mirrors' = [mirrors EXCEPT ![e] = @ + 1]
              /\ voucher' = [voucher EXCEPT ![e].status = "REVERSED"]
              /\ UNCHANGED account
          BY <2>7, <3>2 DEF ReverseCommit, Reversible
        <4>2. BooksTypeOK'
          <5>1. mirrors' \in [Vouchers -> Nat]
            BY <4>1 DEF BooksTypeOK
          <5>2. voucher' \in [Vouchers -> [status : VoucherStatus,
                                          debit : Accounts \cup {NoAccount},
                                          credit : Accounts \cup {NoAccount}]]
            BY <4>1 DEF BooksTypeOK, VoucherStatus
          <5>3. QED
            BY <3>1, <4>1, <5>1, <5>2 DEF KeepingType, BooksTypeOK
        <4>3. MirroredOnce'
          BY <4>1 DEF BooksTypeOK, MirroredOnce
        <4>4. QED
          BY <3>1, <4>2, <4>3
      <3>3. CASE ~Reversible(e)
        BY <2>7, <3>1, <3>3 DEF ReverseCommit, KeepingType, BooksTypeOK, MirroredOnce
      <3>4. QED
        BY <3>2, <3>3
    <2>8. ASSUME Resolve(k) PROVE JournalsInv'
      BY <2>8 DEF Resolve, BooksTypeOK, CreatesOnAccounts, MirroredOnce, NotKeeping, KeepingSteps, books
    <2>9. QED
      BY <1>3, <2>1, <2>2, <2>3, <2>4, <2>5, <2>6, <2>7, <2>8 DEF Keeping
  <1>4. CASE UNCHANGED journalVars
    BY <1>4 DEF journalVars, books, BooksTypeOK, CreatesOnAccounts, MirroredOnce
  <1>5. CASE Reporting
    BY <1>5, ReportsOnlyRead DEF BooksTypeOK, CreatesOnAccounts, MirroredOnce
  <1>6. QED
    BY <1>1, <1>2, <1>3, <1>4, <1>5 DEF JournalsNext, Reporting

\* However approvals and reversals race (approveEntry, reverseEntry), an entry
\* is mirrored at most once, and one that says it is reversed is.
THEOREM JournalsMirroredOnce == JournalsSpec => []MirroredOnce
  <1>1. JournalsInv => MirroredOnce
    BY DEF JournalsInv
  <1>2. QED
    BY <1>1, JournalsInitInv, JournalsStepInv, PTL DEF JournalsSpec

-----------------------------------------------------------------------------
(* What an entry is on                                                     *)

\* An entry is on two accounts, and a request that approves or reverses one
\* has read it.
VouchersKnown ==
    /\ IsFiniteSet(Entered)
    /\ \A e \in Vouchers :
         IF voucher[e] = NoVoucher THEN mirrors[e] = 0
         ELSE voucher[e].debit \in Accounts /\ voucher[e].credit \in Accounts
    /\ \A k \in Bookkeepers : keeping[k].step \in {"approve", "reverse"} =>
         \A e \in keeping[k].about \cap Vouchers : voucher[e] # NoVoucher

\* A steady account is kept while it has lines, and while an entry on it is
\* created; and it has neither while it is closed.
SteadyKept ==
    \A a \in Steady : /\ Lines(a) # {} \/ Opening(a) => Kept(a)
                      /\ Closing(a) => Lines(a) = {} /\ ~Opening(a)

VouchersInv == VouchersKnown /\ SteadyKept

LEMMA VouchersInit == JournalsInit => VouchersInv
  <1> SUFFICES ASSUME JournalsInit PROVE VouchersInv
    OBVIOUS
  <1>1. Entered = {} /\ \A a \in Accounts : Lines(a) = {}
    BY JournalsAssumption DEF JournalsInit, Entered, Lines, AccountsOf, NoVoucher
  <1>2. VouchersKnown
    BY <1>1, FS_EmptySet DEF JournalsInit, VouchersKnown, NotKeeping
  <1>3. SteadyKept
    BY <1>1, JournalsAssumption DEF JournalsInit, SteadyKept, Opening, Closing, NotKeeping
  <1> QED
    BY <1>2, <1>3 DEF VouchersInv

LEMMA LinesAre ==
  ASSUME JournalsInv, NEW a \in Accounts
  PROVE  Lines(a) = {e \in Vouchers : voucher[e].debit = a \/ voucher[e].credit = a}
  BY DEF Lines, AccountsOf

\* A request that begins to close no account, or ends.
LEMMA VouchersSame ==
  ASSUME JournalsInv, VouchersInv, NEW k \in Bookkeepers, UNCHANGED <<account, voucher, mirrors>>,
         \A q \in Bookkeepers \ {k} : keeping'[q] = keeping[q],
         \/ keeping'[k] = NotKeeping
         \/ /\ keeping'[k].step \in {"approve", "reverse"}
            /\ \A e \in keeping'[k].about \cap Vouchers : voucher[e] # NoVoucher
         \/ /\ keeping'[k].step \in {"create", "insert"}
            /\ \A a \in keeping'[k].about \cap Steady : Kept(a) /\ ~Closing(a)
         \/ /\ keeping'[k].step \in {"deactivate", "delete"}
            /\ \A a \in keeping'[k].about \cap Steady : Lines(a) = {} /\ ~Opening(a)
  PROVE  VouchersInv'
  <1>1. Entered' = Entered /\ \A a : Lines(a)' = Lines(a) /\ Kept(a)' = Kept(a)
    BY DEF Entered, Lines, AccountsOf, Kept
  <1>2. VouchersKnown'
    BY <1>1 DEF VouchersInv, VouchersKnown, NotKeeping
  <1>3. SteadyKept'
    BY <1>1 DEF VouchersInv, SteadyKept, Opening, Closing, NotKeeping
  <1> QED
    BY <1>2, <1>3 DEF VouchersInv

\* An entry is made on accounts that stay.
LEMMA VoucherMade ==
  ASSUME JournalsInv, VouchersInv, NEW e \in Vouchers, NEW d \in Accounts, NEW c \in Accounts,
         NEW mark, voucher[e] = NoVoucher, voucher' = [voucher EXCEPT ![e] = Entry(mark, d, c)],
         \A a \in {d, c} \cap Steady : Kept(a) /\ ~Closing(a),
         UNCHANGED <<account, mirrors>>,
         \A q \in Bookkeepers : keeping'[q] = keeping[q] \/ keeping'[q] = NotKeeping
  PROVE  VouchersInv'
  <1>1. /\ voucher'[e].debit = d /\ voucher'[e].credit = c /\ voucher'[e] # NoVoucher
        /\ \A o \in Vouchers : o # e => voucher'[o] = voucher[o]
    BY JournalsAssumption DEF Entry, JournalsInv, BooksTypeOK, NoVoucher
  <1>2. IsFiniteSet(Entered')
    <2>1. Entered' \subseteq Entered \cup {e}
      BY <1>1 DEF Entered
    <2> QED
      BY <2>1, FS_Subset, FS_AddElement DEF VouchersInv, VouchersKnown
  <1>3. VouchersKnown'
    BY <1>1, <1>2 DEF VouchersInv, VouchersKnown, NotKeeping
  <1>4. \A a \in Accounts : Lines(a)' # {} => Lines(a) # {} \/ a \in {d, c}
    BY <1>1 DEF Lines, AccountsOf
  <1>5. \A a : /\ Kept(a)' = Kept(a) /\ (Opening(a)' => Opening(a)) /\ (Closing(a)' => Closing(a))
    BY DEF Kept, Opening, Closing, NotKeeping
  <1>6. SteadyKept'
    BY <1>4, <1>5, JournalsAssumption DEF VouchersInv, SteadyKept
  <1> QED
    BY <1>3, <1>6 DEF VouchersInv

\* An entry is approved or reversed by a request that has read it.
LEMMA VoucherStands ==
  ASSUME JournalsInv, VouchersInv, NEW k \in Bookkeepers, NEW e \in Vouchers,
         ApproveCommit(k, e) \/ (ReverseCommit(k, e) /\ Reversible(e))
  PROVE  VouchersInv'
  <1>0. /\ keeping[k].step \in {"approve", "reverse"} /\ keeping[k].about = {e}
        /\ FinishKeeping(k) /\ UNCHANGED account
        /\ \A o \in Vouchers : o # e => mirrors'[o] = mirrors[o]
    BY DEF ApproveCommit, ReverseCommit, JournalsInv, BooksTypeOK
  <1> PICK mark : voucher' = [voucher EXCEPT ![e].status = mark]
    BY DEF ApproveCommit, ReverseCommit
  <1>1. voucher[e] # NoVoucher
    BY <1>0 DEF VouchersInv, VouchersKnown
  <1>2. voucher[e].debit \in Accounts /\ voucher[e].credit \in Accounts
    BY <1>1 DEF VouchersInv, VouchersKnown
  <1>3. /\ voucher'[e].debit = voucher[e].debit /\ voucher'[e].credit = voucher[e].credit
        /\ \A o \in Vouchers : o # e => voucher'[o] = voucher[o]
    BY DEF JournalsInv, BooksTypeOK
  <1>4. voucher'[e] # NoVoucher
    BY <1>2, <1>3, JournalsAssumption DEF NoVoucher
  <1>5. /\ Entered' = Entered /\ \A a : Lines(a)' = Lines(a) /\ Kept(a)' = Kept(a)
    BY <1>0, <1>1, <1>3, <1>4 DEF Entered, Lines, AccountsOf, Kept
  <1>6. \A q \in Bookkeepers : keeping'[q] = keeping[q] \/ keeping'[q] = NotKeeping
    BY <1>0 DEF FinishKeeping, JournalsInv, BooksTypeOK
  <1>7. \A a : (Opening(a)' => Opening(a)) /\ (Closing(a)' => Closing(a))
    BY <1>6 DEF Opening, Closing, NotKeeping
  <1>8. VouchersKnown'
    BY <1>0, <1>2, <1>3, <1>4, <1>5, <1>6 DEF VouchersInv, VouchersKnown, NotKeeping
  <1>9. SteadyKept'
    BY <1>5, <1>7 DEF VouchersInv, SteadyKept
  <1> QED
    BY <1>8, <1>9 DEF VouchersInv

LEMMA AccountCloses ==
  ASSUME JournalsInv, VouchersInv, NEW k \in Bookkeepers, NEW a \in Accounts, CloseCommit(k, a)
  PROVE  VouchersInv'
  <1>1. /\ Closing(a) /\ \A b \in Accounts : b # a => account'[b] = account[b]
        /\ UNCHANGED <<voucher, mirrors>>
    BY DEF CloseCommit, Closing, JournalsInv, BooksTypeOK
  <1>2. \A q \in Bookkeepers : keeping'[q] = keeping[q] \/ keeping'[q] = NotKeeping
    BY DEF CloseCommit, FinishKeeping, JournalsInv, BooksTypeOK
  <1>3. \A b : (Opening(b)' => Opening(b)) /\ (Closing(b)' => Closing(b))
    BY <1>2 DEF Opening, Closing, NotKeeping
  <1>4. Entered' = Entered /\ \A b : Lines(b)' = Lines(b)
    BY <1>1 DEF Entered, Lines, AccountsOf
  <1>5. VouchersKnown'
    BY <1>1, <1>2, <1>4 DEF VouchersInv, VouchersKnown, NotKeeping
  <1>6. SteadyKept'
    <2> SUFFICES ASSUME NEW b \in Steady
                 PROVE  /\ Lines(b)' # {} \/ Opening(b)' => Kept(b)'
                        /\ Closing(b)' => Lines(b)' = {} /\ ~Opening(b)'
      BY DEF SteadyKept
    <2>1. /\ Lines(b) # {} \/ Opening(b) => Kept(b)
          /\ Closing(b) => Lines(b) = {} /\ ~Opening(b)
      BY DEF VouchersInv, SteadyKept
    <2>2. b # a => Kept(b)' = Kept(b)
      BY <1>1, JournalsAssumption DEF Kept
    <2> QED
      BY <1>1, <1>3, <1>4, <2>1, <2>2
  <1> QED
    BY <1>5, <1>6 DEF VouchersInv

LEMMA VouchersNext == JournalsInv /\ VouchersInv /\ [JournalsNext]_journalVars => VouchersInv'
  <1> SUFFICES ASSUME JournalsInv, VouchersInv, [JournalsNext]_journalVars PROVE VouchersInv'
    OBVIOUS
  <1>1. ASSUME NEW a \in Accounts, Reopen(a) PROVE VouchersInv'
    <2>1. \A b \in Accounts : Kept(b) => Kept(b)'
      BY <1>1 DEF Reopen, Kept, JournalsInv, BooksTypeOK
    <2>2. Entered' = Entered
          /\ \A b : Lines(b)' = Lines(b) /\ Opening(b)' = Opening(b) /\ Closing(b)' = Closing(b)
      BY <1>1 DEF Reopen, Entered, Lines, AccountsOf, Opening, Closing
    <2>3. VouchersKnown'
      BY <1>1, <2>2 DEF Reopen, VouchersInv, VouchersKnown
    <2>4. SteadyKept'
      BY <2>1, <2>2, JournalsAssumption DEF VouchersInv, SteadyKept
    <2> QED
      BY <2>3, <2>4 DEF VouchersInv
  <1>2. ASSUME NEW e \in Vouchers, NEW d \in Automatic, NEW c \in Automatic, AutoPost(e, d, c)
        PROVE  VouchersInv'
    BY <1>2, VoucherMade, JournalsAssumption DEF AutoPost
  <1>3. ASSUME NEW k \in Bookkeepers, Keeping(k) PROVE VouchersInv'
    <2>0. \A step, about : BeginKeeping(k, step, about) =>
            /\ UNCHANGED <<account, voucher, mirrors>>
            /\ keeping'[k].step = step /\ keeping'[k].about = about
            /\ \A q \in Bookkeepers \ {k} : keeping'[q] = keeping[q]
      BY DEF BeginKeeping, JournalsInv, BooksTypeOK, books
    <2>1. ASSUME NEW a \in Accounts, NEW step \in KeepingSteps, CloseRead(k, a, step)
          PROVE  VouchersInv'
      BY <2>0, <2>1, VouchersSame DEF CloseRead
    <2>2. ASSUME NEW d \in Accounts, NEW c \in Accounts, CreateRead(k, d, c)
          PROVE  VouchersInv'
      BY <2>0, <2>2, VouchersSame DEF CreateRead, MayBeEntered
    <2>3. ASSUME NEW e \in Vouchers, ApproveRead(k, e) \/ ReverseRead(k, e) PROVE VouchersInv'
      BY <2>0, <2>3, VouchersSame DEF ApproveRead, ReverseRead, NoVoucher
    <2>4. ASSUME NEW e \in Vouchers, Insert(k, e) PROVE VouchersInv'
      <3>1. PICK d, c \in keeping[k].about :
              d # c /\ voucher' = [voucher EXCEPT ![e] = Entry("DRAFT", d, c)]
        BY <2>4 DEF Insert
      <3>2. d \in Accounts /\ c \in Accounts
        BY <2>4 DEF Insert, JournalsInv, CreatesOnAccounts
      <3>3. \A q \in Bookkeepers : keeping'[q] = keeping[q] \/ keeping'[q] = NotKeeping
        BY <2>4 DEF Insert, FinishKeeping, JournalsInv, BooksTypeOK
      <3>4. \A a \in {d, c} \cap Steady : Kept(a) /\ ~Closing(a)
        BY <2>4 DEF Insert, VouchersInv, SteadyKept, Opening
      <3> QED
        <4>1. voucher[e] = NoVoucher /\ UNCHANGED <<account, mirrors>>
          BY <2>4 DEF Insert
        <4> QED
          BY <3>1, <3>2, <3>3, <3>4, <4>1, VoucherMade
    <2>5. ASSUME NEW e \in Vouchers, ApproveCommit(k, e) PROVE VouchersInv'
      BY <2>5, VoucherStands
    <2>6. ASSUME NEW e \in Vouchers, ReverseCommit(k, e) PROVE VouchersInv'
      <3>1. CASE Reversible(e)
        BY <2>6, <3>1, VoucherStands
      <3>2. CASE ~Reversible(e)
        <4>1. /\ UNCHANGED <<account, voucher, mirrors>> /\ keeping'[k] = NotKeeping
              /\ \A q \in Bookkeepers \ {k} : keeping'[q] = keeping[q]
          BY <2>6, <3>2 DEF ReverseCommit, FinishKeeping, JournalsInv, BooksTypeOK
        <4> QED
          BY <4>1, VouchersSame
      <3> QED
        BY <3>1, <3>2
    <2>7. ASSUME Resolve(k) PROVE VouchersInv'
      <3>1. /\ UNCHANGED <<account, voucher, mirrors>>
            /\ \A q \in Bookkeepers \ {k} : keeping'[q] = keeping[q]
            /\ keeping[k].step = "create"
            /\ \/ keeping'[k] = NotKeeping
               \/ keeping'[k].step = "insert" /\ keeping'[k].about = keeping[k].about
        BY <2>7 DEF Resolve, JournalsInv, BooksTypeOK, books
      <3>2. \A a \in keeping[k].about \cap Steady : Kept(a) /\ ~Closing(a)
        BY <3>1 DEF VouchersInv, SteadyKept, Opening
      <3> QED
        BY <3>1, <3>2, VouchersSame
    <2> QED
      BY <1>3, <2>1, <2>2, <2>3, <2>4, <2>5, <2>6, <2>7, AccountCloses DEF Keeping
  <1>4. CASE UNCHANGED journalVars
    BY <1>4 DEF journalVars, books, VouchersInv, VouchersKnown, SteadyKept, Entered, Lines,
                AccountsOf, Opening, Closing, Kept
  <1>5. CASE Reporting
    BY <1>5, ReportsOnlyRead DEF VouchersInv, VouchersKnown, SteadyKept, Entered, Lines,
                AccountsOf, Opening, Closing, Kept
  <1> QED
    BY <1>1, <1>2, <1>3, <1>4, <1>5 DEF JournalsNext, Reporting

-----------------------------------------------------------------------------
(* What the reports add up                                                 *)

\* The debits, and the credits, of every account.
Left(b)  == [a \in Accounts |-> b[a].debit]
Right(b) == [a \in Accounts |-> b[a].credit]

BalancesType == [Accounts -> [debit : Nat, credit : Nat]]

\* What an aggregate returns: debits equal credits, and an account that is not
\* zero has lines.
Fair(b) ==
    /\ b \in BalancesType
    /\ SumFunctionOnSet(Left(b), Accounts) = SumFunctionOnSet(Right(b), Accounts)
    /\ \A a \in Accounts : b[a].debit # 0 \/ b[a].credit # 0 => Lines(a) # {}

OnSteady == \A e \in Entered : AccountsOf(e) \subseteq Steady

\* All accounts of some types, listed or not.
Of(types)         == {a \in Accounts : AccountType[a] \in types}
NetOver(b, types) == SumFunctionOnSet(Left(b), Of(types)) - SumFunctionOnSet(Right(b), Of(types))

OtherSide == {"LIABILITY", "EQUITY"}

\* A report that is under way, or done, has the totals of all accounts.
Figures ==
    /\ report.step = "trialDone" => report.left = report.right
    /\ report.step \in {"profit", "income"} =>
         /\ report.left = NetOver(report.balances, {"ASSET"})
         /\ report.right = -NetOver(report.balances, OtherSide)
    /\ report.step = "sheetDone" =>
         /\ report.left = NetOver(report.balances, {"ASSET"})
         /\ report.right = -NetOver(report.balances, OtherSide)
                           - NetOver(report.later, ProfitTypes)

ReportType == report \in [step : ReportSteps, left : Int, right : Int,
                          balances : BalancesType, later : BalancesType]

ReportInv ==
    /\ ReportType
    /\ Fair(report.balances) /\ Fair(report.later)
    /\ OnSteady => Figures

-----------------------------------------------------------------------------
\* Every entry adds to one account of each side.
SideOf(h) == \A e \in Entered : h[e] \in Accounts

LEMMA EntriesAreFinite ==
  ASSUME JournalsInv, VouchersInv
  PROVE  /\ IsFiniteSet(Entered) /\ IsFiniteSet(PostedEntries)
         /\ PostedEntries \subseteq Entered
         /\ \A e \in Entered : mirrors[e] \in Nat
  <1>1. PostedEntries \subseteq Entered
    BY DEF PostedEntries, Entered, NoVoucher
  <1>2. \A e \in Entered : mirrors[e] \in Nat
    BY DEF Entered, JournalsInv, BooksTypeOK
  <1> QED
    BY <1>1, <1>2, FS_Subset DEF VouchersInv, VouchersKnown

LEMMA PostedByAccount ==
  ASSUME JournalsInv, VouchersInv, NEW h, SideOf(h), NEW g,
         \A a \in Accounts : g[a] = Cardinality(Fibre(h, PostedEntries, a))
  PROVE  SumFunctionOnSet(g, Accounts) = Cardinality(PostedEntries)
  <1> PICK P : P = PostedEntries
    OBVIOUS
  <1> DEFINE one == [e \in P |-> 1]
  <1>1. IsFiniteSet(P) /\ IsFiniteSet(Accounts) /\ \A e \in P : h[e] \in Accounts
    BY EntriesAreFinite, JournalsAssumption DEF SideOf
  <1>2. \A e \in P : one[e] = 1
    OBVIOUS
  <1> HIDE DEF one
  <1>3. Numeric(one, P)
    BY <1>2 DEF Numeric
  <1>4. \A a \in Accounts : g[a] = SumFunctionOnSet(one, Fibre(h, P, a))
    <2>1. \A a \in Accounts : Fibre(h, P, a) \subseteq P
      BY DEF Fibre
    <2>2. \A a \in Accounts : IsFiniteSet(Fibre(h, P, a)) /\ \A e \in Fibre(h, P, a) : one[e] = 1
      BY <1>1, <1>2, <2>1, FS_Subset
    <2> QED
      BY <2>2, SumOfOnes
  <1>5. SumFunctionOnSet(g, Accounts) = SumFunctionOnSet(one, P)
    BY <1>1, <1>3, <1>4, SumByFibres
  <1>6. SumFunctionOnSet(one, P) = Cardinality(P)
    BY <1>1, <1>2, SumOfOnes
  <1> QED
    BY <1>5, <1>6

LEMMA MirrorsByAccount ==
  ASSUME JournalsInv, VouchersInv, NEW h, SideOf(h), NEW g,
         \A a \in Accounts : g[a] = SumFunctionOnSet(mirrors, Fibre(h, Entered, a))
  PROVE  SumFunctionOnSet(g, Accounts) = SumFunctionOnSet(mirrors, Entered)
  <1>1. /\ IsFiniteSet(Entered) /\ IsFiniteSet(Accounts) /\ Numeric(mirrors, Entered)
        /\ \A e \in Entered : h[e] \in Accounts
    BY EntriesAreFinite, JournalsAssumption DEF SideOf, Numeric
  <1> QED
    BY <1>1, SumByFibres

DebitSide  == [e \in Vouchers |-> voucher[e].debit]
CreditSide == [e \in Vouchers |-> voucher[e].credit]

\* One side of the accounts: what is posted to it, and the reversals of what
\* is on the other.
ColumnOf(h, k) == [a \in Accounts |->
                     Cardinality(Fibre(h, PostedEntries, a))
                     + SumFunctionOnSet(mirrors, Fibre(k, Entered, a))]

LEMMA ColumnAddsUp ==
  ASSUME JournalsInv, VouchersInv, NEW h, NEW k, SideOf(h), SideOf(k)
  PROVE  /\ \A a \in Accounts : ColumnOf(h, k)[a] \in Nat
         /\ SumFunctionOnSet(ColumnOf(h, k), Accounts) =
              Cardinality(PostedEntries) + SumFunctionOnSet(mirrors, Entered)
  <1> DEFINE p == [a \in Accounts |-> Cardinality(Fibre(h, PostedEntries, a))]
             m == [a \in Accounts |-> SumFunctionOnSet(mirrors, Fibre(k, Entered, a))]
  <1>1. \A a \in Accounts : p[a] \in Nat /\ m[a] \in Nat
    <2>1. \A a : Fibre(h, PostedEntries, a) \subseteq PostedEntries /\ Fibre(k, Entered, a) \subseteq Entered
      BY DEF Fibre
    <2>2. \A a : /\ IsFiniteSet(Fibre(h, PostedEntries, a)) /\ IsFiniteSet(Fibre(k, Entered, a))
                 /\ \A e \in Fibre(k, Entered, a) : mirrors[e] \in Nat
      BY <2>1, EntriesAreFinite, FS_Subset
    <2>3. \A a : /\ Cardinality(Fibre(h, PostedEntries, a)) \in Nat
                 /\ SumFunctionOnSet(mirrors, Fibre(k, Entered, a)) \in Nat
      BY <2>2, FS_CardinalityType, SumIsNat
    <2> QED
      BY <2>3
  <1>2. /\ \A a \in Accounts : p[a] = Cardinality(Fibre(h, PostedEntries, a))
        /\ \A a \in Accounts : m[a] = SumFunctionOnSet(mirrors, Fibre(k, Entered, a))
        /\ \A a \in Accounts : ColumnOf(h, k)[a] = p[a] + m[a]
    BY DEF ColumnOf
  <1> HIDE DEF p, m
  <1>3. SumFunctionOnSet(p, Accounts) = Cardinality(PostedEntries)
    BY <1>2, PostedByAccount
  <1>4. SumFunctionOnSet(m, Accounts) = SumFunctionOnSet(mirrors, Entered)
    BY <1>2, MirrorsByAccount
  <1>5. SumFunctionOnSet(ColumnOf(h, k), Accounts)
          = SumFunctionOnSet(p, Accounts) + SumFunctionOnSet(m, Accounts)
    BY <1>1, <1>2, JournalsAssumption, SumPlus DEF Numeric
  <1> QED
    BY <1>1, <1>2, <1>3, <1>4, <1>5

LEMMA SidesAre ==
  ASSUME JournalsInv, VouchersInv, NEW a \in Accounts
  PROVE  /\ Debits(a) = Cardinality(Fibre(DebitSide, PostedEntries, a))
                        + SumFunctionOnSet(mirrors, Fibre(CreditSide, Entered, a))
         /\ Credits(a) = Cardinality(Fibre(CreditSide, PostedEntries, a))
                         + SumFunctionOnSet(mirrors, Fibre(DebitSide, Entered, a))
  <1>1. /\ {e \in PostedEntries : voucher[e].debit = a} = Fibre(DebitSide, PostedEntries, a)
        /\ {e \in PostedEntries : voucher[e].credit = a} = Fibre(CreditSide, PostedEntries, a)
    BY DEF PostedEntries, Fibre, DebitSide, CreditSide
  <1>2. /\ {e \in Vouchers : voucher[e].credit = a} = Fibre(CreditSide, Entered, a)
        /\ {e \in Vouchers : voucher[e].debit = a} = Fibre(DebitSide, Entered, a)
    BY JournalsAssumption DEF Entered, Fibre, DebitSide, CreditSide, NoVoucher
  <1> QED
    BY <1>1, <1>2 DEF Debits, Credits, Mirrored

\* An aggregate made now.
LEMMA BalancesAreFair ==
  ASSUME JournalsInv, VouchersInv
  PROVE  Fair(Balances)
  <1>1. SideOf(DebitSide) /\ SideOf(CreditSide)
    BY DEF SideOf, DebitSide, CreditSide, Entered, VouchersInv, VouchersKnown
  <1>2. \A a \in Accounts : /\ Debits(a) = ColumnOf(DebitSide, CreditSide)[a]
                            /\ Credits(a) = ColumnOf(CreditSide, DebitSide)[a]
    BY SidesAre DEF ColumnOf
  <1>3. \A a \in Accounts : Debits(a) \in Nat /\ Credits(a) \in Nat
    BY <1>1, <1>2, ColumnAddsUp
  <1>4. Balances \in BalancesType
    BY <1>3 DEF Balances, BalancesType
  <1>5. \A a \in Accounts : Balances[a].debit = Debits(a) /\ Balances[a].credit = Credits(a)
    BY DEF Balances
  <1>6. /\ Left(Balances) = ColumnOf(DebitSide, CreditSide)
        /\ Right(Balances) = ColumnOf(CreditSide, DebitSide)
    <2>1. \A a \in Accounts : /\ Balances[a].debit = ColumnOf(DebitSide, CreditSide)[a]
                              /\ Balances[a].credit = ColumnOf(CreditSide, DebitSide)[a]
      BY <1>2, <1>5
    <2>2. QED
      BY <2>1 DEF Left, Right, ColumnOf
  <1>7. SumFunctionOnSet(Left(Balances), Accounts) = SumFunctionOnSet(Right(Balances), Accounts)
    BY <1>1, <1>6, ColumnAddsUp
  <1>8. ASSUME NEW a \in Accounts, Lines(a) = {}
        PROVE  Debits(a) = 0 /\ Credits(a) = 0
    <2>1. /\ Fibre(DebitSide, PostedEntries, a) = {} /\ Fibre(CreditSide, PostedEntries, a) = {}
          /\ Fibre(DebitSide, Entered, a) = {} /\ Fibre(CreditSide, Entered, a) = {}
      BY <1>8, LinesAre DEF Fibre, DebitSide, CreditSide, PostedEntries, Entered
    <2>2. QED
      BY <2>1, SidesAre, SumOfNothing, FS_EmptySet
  <1>9. QED
    BY <1>4, <1>5, <1>7, <1>8 DEF Fair

LEMMA NothingIsFair == Fair(NoBalances) /\ NoBalances \in BalancesType
  <1>1. /\ NoBalances \in BalancesType
        /\ \A a \in Accounts : NoBalances[a].debit = 0 /\ NoBalances[a].credit = 0
    BY DEF NoBalances, BalancesType
  <1>2. \A a \in Accounts : Left(NoBalances)[a] = 0 /\ Right(NoBalances)[a] = 0
    BY <1>1 DEF Left, Right
  <1>3. /\ SumFunctionOnSet(Left(NoBalances), Accounts) = 0
        /\ SumFunctionOnSet(Right(NoBalances), Accounts) = 0
    BY <1>2, JournalsAssumption, SumOfZeros
  <1>4. QED
    BY <1>1, <1>3 DEF Fair

-----------------------------------------------------------------------------
LEMMA ColumnsAreNumeric ==
  ASSUME NEW b \in BalancesType, NEW S \in SUBSET Accounts
  PROVE  /\ IsFiniteSet(S) /\ Numeric(Left(b), S) /\ Numeric(Right(b), S)
         /\ SumFunctionOnSet(Left(b), S) \in Int /\ SumFunctionOnSet(Right(b), S) \in Int
  <1>1. IsFiniteSet(S)
    BY JournalsAssumption, FS_Subset
  <1>2. Numeric(Left(b), S) /\ Numeric(Right(b), S)
    BY DEF Numeric, Left, Right, BalancesType
  <1>3. QED
    BY <1>1, <1>2, SumIsInt

\* As long as entries are on steady accounts, what a report does not list is zero.
LEMMA ListedIsAll ==
  ASSUME JournalsInv, VouchersInv, OnSteady, NEW b, Fair(b), NEW types
  PROVE  /\ TotalDebit(b, Listed(types)) = SumFunctionOnSet(Left(b), Of(types))
         /\ TotalCredit(b, Listed(types)) = SumFunctionOnSet(Right(b), Of(types))
  <1> DEFINE S == Of(types)
             T == Listed(types)
  <1>1. T \subseteq S /\ S \subseteq Accounts
    BY DEF Of, Listed
  <1>2. ASSUME NEW a \in S \ T PROVE Left(b)[a] = 0 /\ Right(b)[a] = 0
    <2>1. a \in Accounts /\ ~Kept(a)
      BY <1>2 DEF Of, Listed
    <2>2. Lines(a) = {}
      <3> SUFFICES ASSUME NEW e \in Lines(a) PROVE FALSE
        OBVIOUS
      <3>1. e \in Entered /\ a \in AccountsOf(e)
        BY <2>1, JournalsAssumption DEF Lines, AccountsOf, Entered, NoVoucher
      <3>2. a \in Steady
        BY <3>1 DEF OnSteady
      <3>3. QED
        BY <2>1, <3>2 DEF VouchersInv, SteadyKept
    <2>3. QED
      BY <2>1, <2>2 DEF Fair, Left, Right
  <1>3. b \in BalancesType
    BY DEF Fair
  <1> HIDE DEF S, T
  <1>4. /\ SumFunctionOnSet(Left(b), S)
             = SumFunctionOnSet(Left(b), T) + SumFunctionOnSet(Left(b), S \ T)
        /\ SumFunctionOnSet(Right(b), S)
             = SumFunctionOnSet(Right(b), T) + SumFunctionOnSet(Right(b), S \ T)
    BY <1>1, <1>3, ColumnsAreNumeric, SumInParts
  <1>5. SumFunctionOnSet(Left(b), S \ T) = 0 /\ SumFunctionOnSet(Right(b), S \ T) = 0
    <2>1. IsFiniteSet(S \ T)
      BY <1>1, JournalsAssumption, FS_Subset
    <2>2. QED
      BY <1>2, <2>1, SumOfZeros
  <1>6. SumFunctionOnSet(Left(b), T) \in Int /\ SumFunctionOnSet(Right(b), T) \in Int
    BY <1>1, <1>3, ColumnsAreNumeric
  <1>7. /\ TotalDebit(b, T) = SumFunctionOnSet(Left(b), T)
        /\ TotalCredit(b, T) = SumFunctionOnSet(Right(b), T)
    BY DEF TotalDebit, TotalCredit, Left, Right
  <1>8. QED
    BY <1>4, <1>5, <1>6, <1>7 DEF S, T

\* Assets are what the other side and the profit leave.
LEMMA FairInParts ==
  ASSUME NEW b, Fair(b)
  PROVE  /\ NetOver(b, {"ASSET"}) + NetOver(b, OtherSide) + NetOver(b, ProfitTypes) = 0
         /\ NetOver(b, {"ASSET"}) \in Int /\ NetOver(b, OtherSide) \in Int
         /\ NetOver(b, ProfitTypes) \in Int
  <1> DEFINE A == Of({"ASSET"})
             B == Of(OtherSide)
             C == Of(ProfitTypes)
  <1>1. /\ A \subseteq Accounts /\ B \subseteq Accounts \ A /\ C = (Accounts \ A) \ B
    BY JournalsAssumption DEF Of, OtherSide, ProfitTypes
  <1>2. /\ NetOver(b, {"ASSET"}) = SumFunctionOnSet(Left(b), A) - SumFunctionOnSet(Right(b), A)
        /\ NetOver(b, OtherSide) = SumFunctionOnSet(Left(b), B) - SumFunctionOnSet(Right(b), B)
        /\ NetOver(b, ProfitTypes) = SumFunctionOnSet(Left(b), C) - SumFunctionOnSet(Right(b), C)
    BY DEF NetOver
  <1>3. /\ b \in BalancesType
        /\ SumFunctionOnSet(Left(b), Accounts) = SumFunctionOnSet(Right(b), Accounts)
    BY DEF Fair
  <1> HIDE DEF A, B, C
  <1>4. \A S \in SUBSET Accounts :
          /\ IsFiniteSet(S) /\ Numeric(Left(b), S) /\ Numeric(Right(b), S)
          /\ SumFunctionOnSet(Left(b), S) \in Int /\ SumFunctionOnSet(Right(b), S) \in Int
    BY <1>3, ColumnsAreNumeric
  <1>5. ASSUME NEW f, Numeric(f, Accounts)
        PROVE  SumFunctionOnSet(f, Accounts)
                 = SumFunctionOnSet(f, A) + (SumFunctionOnSet(f, B) + SumFunctionOnSet(f, C))
    <2>1. Numeric(f, Accounts \ A) /\ IsFiniteSet(Accounts \ A)
      BY <1>4, <1>5 DEF Numeric
    <2>2. SumFunctionOnSet(f, Accounts) = SumFunctionOnSet(f, A) + SumFunctionOnSet(f, Accounts \ A)
      BY <1>1, <1>5, JournalsAssumption, SumInParts
    <2>3. SumFunctionOnSet(f, Accounts \ A) = SumFunctionOnSet(f, B) + SumFunctionOnSet(f, C)
      BY <1>1, <2>1, SumInParts
    <2>4. QED
      BY <2>2, <2>3
  <1>6. /\ SumFunctionOnSet(Left(b), Accounts)
             = SumFunctionOnSet(Left(b), A) + (SumFunctionOnSet(Left(b), B) + SumFunctionOnSet(Left(b), C))
        /\ SumFunctionOnSet(Right(b), Accounts)
             = SumFunctionOnSet(Right(b), A) + (SumFunctionOnSet(Right(b), B) + SumFunctionOnSet(Right(b), C))
    BY <1>4, <1>5
  <1>7. /\ A \in SUBSET Accounts /\ B \in SUBSET Accounts /\ C \in SUBSET Accounts
    BY <1>1
  <1>8. /\ SumFunctionOnSet(Left(b), A) \in Int /\ SumFunctionOnSet(Right(b), A) \in Int
        /\ SumFunctionOnSet(Left(b), B) \in Int /\ SumFunctionOnSet(Right(b), B) \in Int
        /\ SumFunctionOnSet(Left(b), C) \in Int /\ SumFunctionOnSet(Right(b), C) \in Int
    BY <1>4, <1>7
  <1>9. \A d, e, f, x, y, z \in Int :
          /\ d + (e + f) = x + (y + z) => (d - x) + (e - y) + (f - z) = 0
          /\ d - x \in Int
    OBVIOUS
  <1>10. SumFunctionOnSet(Left(b), A) + (SumFunctionOnSet(Left(b), B) + SumFunctionOnSet(Left(b), C))
         = SumFunctionOnSet(Right(b), A) + (SumFunctionOnSet(Right(b), B) + SumFunctionOnSet(Right(b), C))
    BY <1>3, <1>6
  <1>11. /\ (SumFunctionOnSet(Left(b), A) - SumFunctionOnSet(Right(b), A))
              + (SumFunctionOnSet(Left(b), B) - SumFunctionOnSet(Right(b), B))
              + (SumFunctionOnSet(Left(b), C) - SumFunctionOnSet(Right(b), C)) = 0
         /\ SumFunctionOnSet(Left(b), A) - SumFunctionOnSet(Right(b), A) \in Int
         /\ SumFunctionOnSet(Left(b), B) - SumFunctionOnSet(Right(b), B) \in Int
         /\ SumFunctionOnSet(Left(b), C) - SumFunctionOnSet(Right(b), C) \in Int
    BY <1>8, <1>9, <1>10
  <1>12. QED
    BY <1>2, <1>11

-----------------------------------------------------------------------------
LEMMA ReportInitInv == JournalsInit => ReportInv
  <1> SUFFICES ASSUME JournalsInit PROVE ReportInv
    OBVIOUS
  <1>1. report = NotReporting
    BY DEF JournalsInit
  <1>2. ReportType
    BY <1>1, NothingIsFair DEF ReportType, NotReporting, ReportSteps
  <1>3. QED
    BY <1>1, <1>2, NothingIsFair DEF ReportInv, Figures, NotReporting

\* Entries stay, on their accounts.
EntriesStay ==
    \A e \in Entered : /\ e \in Entered'
                       /\ voucher'[e].debit = voucher[e].debit
                       /\ voucher'[e].credit = voucher[e].credit

LEMMA EntriesDoStay ==
  ASSUME JournalsInv, VouchersInv, [JournalsNext]_journalVars
  PROVE  EntriesStay
  <1>1. CASE UNCHANGED voucher
    BY <1>1 DEF EntriesStay, Entered
  <1>2. ASSUME NEW e \in Vouchers, NEW d, NEW c, NEW mark, voucher[e] = NoVoucher,
               voucher' = [voucher EXCEPT ![e] = Entry(mark, d, c)]
        PROVE  EntriesStay
    BY <1>2 DEF EntriesStay, Entered, JournalsInv, BooksTypeOK
  <1>3. ASSUME NEW e \in Vouchers, NEW mark, voucher' = [voucher EXCEPT ![e].status = mark]
        PROVE  EntriesStay
    <2>1. \A o \in Vouchers : /\ voucher'[o].debit = voucher[o].debit
                              /\ voucher'[o].credit = voucher[o].credit
      BY <1>3 DEF JournalsInv, BooksTypeOK
    <2>2. \A o \in Entered : o \in Vouchers /\ voucher[o].debit # NoAccount
      BY JournalsAssumption DEF Entered, VouchersInv, VouchersKnown
    <2>3. QED
      BY <2>1, <2>2 DEF EntriesStay, Entered, NoVoucher
  <1>4. ASSUME NEW k \in Bookkeepers, Keeping(k) PROVE EntriesStay
    <2>1. ASSUME NEW e \in Vouchers, Insert(k, e) PROVE EntriesStay
      BY <1>2, <2>1 DEF Insert
    <2>2. ASSUME NEW e \in Vouchers, ApproveCommit(k, e) PROVE EntriesStay
      BY <1>3, <2>2 DEF ApproveCommit
    <2>3. ASSUME NEW e \in Vouchers, ReverseCommit(k, e) PROVE EntriesStay
      BY <1>1, <1>3, <2>3 DEF ReverseCommit
    <2>4. ASSUME NEW a \in Accounts, CloseCommit(k, a) PROVE EntriesStay
      BY <1>1, <2>4 DEF CloseCommit
    <2>5. \A step, about : BeginKeeping(k, step, about) => UNCHANGED voucher
      BY DEF BeginKeeping, books
    <2>6. ASSUME NEW a \in Accounts, NEW step \in KeepingSteps, CloseRead(k, a, step)
          PROVE  EntriesStay
      BY <1>1, <2>5, <2>6 DEF CloseRead
    <2>7. ASSUME NEW d \in Accounts, NEW c \in Accounts, CreateRead(k, d, c) PROVE EntriesStay
      BY <1>1, <2>5, <2>7 DEF CreateRead
    <2>8. ASSUME NEW e \in Vouchers, ApproveRead(k, e) \/ ReverseRead(k, e) PROVE EntriesStay
      BY <1>1, <2>5, <2>8 DEF ApproveRead, ReverseRead
    <2>9. ASSUME Resolve(k) PROVE EntriesStay
      BY <1>1, <2>9 DEF Resolve, books
    <2>10. QED
      BY <1>4, <2>1, <2>2, <2>3, <2>4, <2>6, <2>7, <2>8, <2>9 DEF Keeping
  <1>5. ASSUME NEW e \in Vouchers, NEW d \in Automatic, NEW c \in Automatic, AutoPost(e, d, c)
        PROVE  EntriesStay
    BY <1>2, <1>5 DEF AutoPost
  <1>6. ASSUME NEW a \in Accounts, Reopen(a) PROVE EntriesStay
    BY <1>1, <1>6 DEF Reopen
  <1>7. CASE Reporting
    BY <1>1, <1>7, ReportsOnlyRead
  <1>8. CASE UNCHANGED journalVars
    BY <1>1, <1>8 DEF journalVars, books
  <1>9. QED
    BY <1>4, <1>5, <1>6, <1>7, <1>8 DEF JournalsNext, Reporting

\* What was fair and steady before.
LEMMA StaysFair ==
  ASSUME JournalsInv, VouchersInv, EntriesStay
  PROVE  /\ OnSteady' => OnSteady
         /\ \A b : Fair(b) => Fair(b)'
  <1>1. OnSteady' => OnSteady
    BY DEF OnSteady, EntriesStay, AccountsOf
  <1>2. \A a \in Accounts : Lines(a) # {} => Lines(a)' # {}
    <2> SUFFICES ASSUME NEW a \in Accounts, NEW e \in Lines(a) PROVE e \in Lines(a)'
      OBVIOUS
    <2>1. e \in Entered
      BY JournalsAssumption DEF Lines, AccountsOf, Entered, NoVoucher
    <2>2. QED
      BY <2>1 DEF EntriesStay, Lines, AccountsOf
  <1>3. ASSUME NEW b, Fair(b) PROVE Fair(b)'
    BY <1>2, <1>3 DEF Fair, Left, Right
  <1>4. QED
    BY <1>1, <1>3

\* The books change under a report.
LEMMA ReportWaits ==
  ASSUME JournalsInv, VouchersInv, ReportInv, [JournalsNext]_journalVars, UNCHANGED report
  PROVE  ReportInv'
  <1>1. EntriesStay
    BY EntriesDoStay
  <1>2. (OnSteady' => OnSteady) /\ \A b : Fair(b) => Fair(b)'
    BY <1>1, StaysFair
  <1>3. Fair(report.balances)' /\ Fair(report.later)'
    <2>1. Fair(report.balances) /\ Fair(report.later)
      BY DEF ReportInv
    <2>2. QED
      BY <1>2, <2>1 DEF Fair
  <1>4. Figures => Figures'
    BY DEF Figures, NetOver, Left, Right, Of
  <1>5. QED
    BY <1>2, <1>3, <1>4 DEF ReportInv, ReportType

LEMMA ReportMoves ==
  ASSUME JournalsInv, VouchersInv, ReportInv, Reporting
  PROVE  ReportInv'
  <1> USE DEF ReportInv
  <1>1. (OnSteady' <=> OnSteady) /\ \A a : Lines(a)' = Lines(a)
    BY ReportsOnlyRead DEF OnSteady, Entered, AccountsOf, Lines
  <1>2. \A b : Fair(b) => b \in BalancesType
    BY DEF Fair
  <1>3. \A b, types : Fair(b) /\ OnSteady =>
          /\ TotalDebit(b, Listed(types)) = SumFunctionOnSet(Left(b), Of(types))
          /\ TotalCredit(b, Listed(types)) = SumFunctionOnSet(Right(b), Of(types))
          /\ TotalNet(b, types) = NetOver(b, types)
    BY ListedIsAll DEF TotalNet, NetOver
  <1>4. \A b, types : Fair(b) =>
          /\ TotalDebit(b, Listed(types)) \in Int /\ TotalCredit(b, Listed(types)) \in Int
          /\ TotalNet(b, types) \in Int
    <2>1. ASSUME NEW b, Fair(b), NEW S \in SUBSET Accounts
          PROVE  TotalDebit(b, S) \in Int /\ TotalCredit(b, S) \in Int
      BY <1>2, <2>1, ColumnsAreNumeric DEF TotalDebit, TotalCredit, Left, Right
    <2>2. \A types : Listed(types) \in SUBSET Accounts
      BY DEF Listed
    <2>3. QED
      BY <2>1, <2>2 DEF TotalNet
  <1>5. ASSUME NEW step \in {"trial", "sheet"}, ReportRead(step) PROVE ReportInv'
    <2>1. report' = [NotReporting EXCEPT !.step = step, !.balances = Balances]
      BY <1>5 DEF ReportRead
    <2>2. Fair(Balances) /\ Balances \in BalancesType
      BY <1>2, BalancesAreFair
    <2>3. /\ report'.step = step /\ report'.balances = Balances
          /\ report'.later = NoBalances /\ report'.left = 0 /\ report'.right = 0
          /\ ReportType'
      <3>1. report' = [step |-> step, balances |-> Balances, later |-> NoBalances,
                       left |-> 0, right |-> 0]
        BY <2>1 DEF NotReporting
      <3>2. step \in ReportSteps /\ NoBalances \in BalancesType
        BY NothingIsFair DEF ReportSteps
      <3>3. QED
        BY <2>2, <3>1, <3>2 DEF ReportType
    <2>4. Fair(report.balances)' /\ Fair(report.later)'
      BY <1>1, <2>2, <2>3, NothingIsFair DEF Fair, Left, Right
    <2>5. Figures'
      BY <2>3 DEF Figures
    <2>6. QED
      BY <2>3, <2>4, <2>5
  <1>6. CASE TrialBalance
    <2>1. /\ report' = [report EXCEPT !.step = "trialDone",
                          !.left  = TotalDebit(report.balances, Listed(AllTypes)),
                          !.right = TotalCredit(report.balances, Listed(AllTypes))]
      BY <1>6 DEF TrialBalance
    <2>2. ReportType'
      BY <1>4, <2>1 DEF ReportType, ReportSteps
    <2>3. /\ report'.step = "trialDone"
          /\ report'.balances = report.balances /\ report'.later = report.later
          /\ report'.left = TotalDebit(report.balances, Listed(AllTypes))
          /\ report'.right = TotalCredit(report.balances, Listed(AllTypes))
      BY <2>1 DEF ReportType
    <2>4. Of(AllTypes) = Accounts
      BY JournalsAssumption DEF Of, AllTypes
    <2>5. OnSteady => report'.left = report'.right
      BY <1>3, <2>3, <2>4 DEF Fair
    <2>6. QED
      BY <1>1, <2>2, <2>3, <2>5 DEF Figures, Fair, Left, Right
  <1>7. CASE BalanceSheet
    <2>1. report' = [report EXCEPT !.step = "profit",
                       !.left  = TotalNet(report.balances, {"ASSET"}),
                       !.right = -TotalNet(report.balances, {"LIABILITY", "EQUITY"})]
      BY <1>7 DEF BalanceSheet
    <2>2. ReportType'
      <3>1. /\ TotalNet(report.balances, {"ASSET"}) \in Int
            /\ TotalNet(report.balances, {"LIABILITY", "EQUITY"}) \in Int
        BY <1>4
      <3>2. -TotalNet(report.balances, {"LIABILITY", "EQUITY"}) \in Int
        BY <3>1
      <3>3. QED
        BY <2>1, <3>1, <3>2 DEF ReportType, ReportSteps
    <2>3. /\ report'.step = "profit"
          /\ report'.balances = report.balances /\ report'.later = report.later
          /\ report'.left = TotalNet(report.balances, {"ASSET"})
          /\ report'.right = -TotalNet(report.balances, OtherSide)
      BY <2>1 DEF ReportType, OtherSide
    <2>4. OnSteady => /\ report'.left = NetOver(report.balances, {"ASSET"})
                      /\ report'.right = -NetOver(report.balances, OtherSide)
      BY <1>3, <2>3
    <2>5. \A types : NetOver(report.balances, types)' = NetOver(report.balances, types)
      BY <2>3 DEF NetOver, Left, Right, Of
    <2>6. QED
      BY <1>1, <2>2, <2>3, <2>4, <2>5 DEF Figures, Fair, Left, Right
  <1>8. CASE ProfitRead
    <2>1. report.step = "profit" /\ report' = [report EXCEPT !.step = "income", !.later = Balances]
      BY <1>8 DEF ProfitRead
    <2>2. Fair(Balances) /\ Balances \in BalancesType
      BY <1>2, BalancesAreFair
    <2>3. /\ ReportType'
          /\ report'.step = "income" /\ report'.left = report.left /\ report'.right = report.right
          /\ report'.balances = report.balances /\ report'.later = Balances
      BY <2>1, <2>2 DEF ReportType, ReportSteps
    <2>4. Fair(report.balances)' /\ Fair(report.later)'
      BY <1>1, <2>2, <2>3 DEF Fair, Left, Right
    <2>5. Figures => Figures'
      BY <2>1, <2>3 DEF Figures, NetOver, Left, Right, Of
    <2>6. QED
      BY <1>1, <2>3, <2>4, <2>5
  <1>9. CASE ProfitLoss
    <2>1. /\ report.step = "income"
          /\ report' = [report EXCEPT !.step = "sheetDone",
                          !.right = @ - TotalNet(report.later, ProfitTypes)]
      BY <1>9 DEF ProfitLoss
    <2>2. /\ ReportType'
          /\ report'.step = "sheetDone" /\ report'.left = report.left
          /\ report'.right = report.right - TotalNet(report.later, ProfitTypes)
          /\ report'.balances = report.balances /\ report'.later = report.later
      <3>1. /\ TotalNet(report.later, ProfitTypes) \in Int
            /\ report.right \in Int
        BY <1>4 DEF ReportType
      <3>2. report.right - TotalNet(report.later, ProfitTypes) \in Int
        BY <3>1
      <3>3. QED
        BY <2>1, <3>2 DEF ReportType, ReportSteps
    <2>3. OnSteady /\ Figures => Figures'
      BY <1>3, <2>1, <2>2 DEF Figures, NetOver, Left, Right, Of
    <2>4. QED
      BY <1>1, <2>2, <2>3 DEF Fair, Left, Right
  <1>10. CASE Answer
    <2>1. report' = NotReporting
      BY <1>10 DEF Answer
    <2>2. ReportType'
      BY <2>1, NothingIsFair DEF ReportType, NotReporting, ReportSteps
    <2>3. Fair(report.balances)' /\ Fair(report.later)'
      BY <1>1, <2>1, NothingIsFair DEF NotReporting, Fair, Left, Right
    <2>4. QED
      BY <2>1, <2>2, <2>3 DEF Figures, NotReporting
  <1>11. QED
    BY <1>5, <1>6, <1>7, <1>8, <1>9, <1>10 DEF Reporting

LEMMA ReportStepInv ==
  JournalsInv /\ VouchersInv /\ ReportInv /\ [JournalsNext]_journalVars => ReportInv'
  <1> SUFFICES ASSUME JournalsInv, VouchersInv, ReportInv, [JournalsNext]_journalVars
               PROVE  ReportInv'
    OBVIOUS
  <1>1. CASE Reporting
    BY <1>1, ReportMoves
  <1>2. CASE ~Reporting
    <2>1. UNCHANGED report
      BY <1>2 DEF Reporting, JournalsNext, journalVars, Reopen, AutoPost, Keeping, CloseRead,
                  CreateRead, CloseCommit, Insert, ApproveRead, ApproveCommit, ReverseRead,
                  ReverseCommit, Resolve, BeginKeeping
    <2>2. QED
      BY <2>1, ReportWaits
  <1>3. QED
    BY <1>1, <1>2

\* What a report compares, when it is done.
LEMMA ReportsBalance == ReportInv => BooksBalance
  <1> SUFFICES ASSUME ReportInv, OnSteady
               PROVE  /\ report.step = "trialDone" => report.left = report.right
                      /\ report.step = "sheetDone" /\ SameProfit => report.left = report.right
    BY DEF BooksBalance, OnSteady
  <1>1. Figures /\ Fair(report.balances) /\ Fair(report.later)
    BY DEF ReportInv
  <1>2. ASSUME SameProfit
        PROVE  NetOver(report.later, ProfitTypes) = NetOver(report.balances, ProfitTypes)
    <2>1. \A a \in Of(ProfitTypes) : /\ Left(report.later)[a] = Left(report.balances)[a]
                                     /\ Right(report.later)[a] = Right(report.balances)[a]
      BY <1>2 DEF SameProfit, Of, Left, Right
    <2>2. IsFiniteSet(Of(ProfitTypes))
      BY JournalsAssumption, FS_Subset DEF Of
    <2>3. QED
      BY <2>1, <2>2, SumAgrees DEF NetOver
  <1>3. /\ NetOver(report.balances, {"ASSET"}) + NetOver(report.balances, OtherSide)
             + NetOver(report.balances, ProfitTypes) = 0
        /\ NetOver(report.balances, {"ASSET"}) \in Int /\ NetOver(report.balances, OtherSide) \in Int
        /\ NetOver(report.balances, ProfitTypes) \in Int
    BY <1>1, FairInParts
  <1>4. QED
    BY <1>1, <1>2, <1>3 DEF Figures

BooksInv == JournalsInv /\ VouchersInv /\ ReportInv

LEMMA JournalsInvariant == JournalsSpec => []BooksInv
  <1>1. JournalsInit => BooksInv
    BY JournalsInitInv, VouchersInit, ReportInitInv DEF BooksInv
  <1>2. BooksInv /\ [JournalsNext]_journalVars => BooksInv'
    BY JournalsStepInv, VouchersNext, ReportStepInv DEF BooksInv
  <1>3. QED
    BY <1>1, <1>2, PTL DEF JournalsSpec

\* Every variable of the books keeps its type.
THEOREM JournalsTypes == JournalsSpec => []JournalsTypeOK
  <1>1. BooksInv => JournalsTypeOK
    BY DEF BooksInv, JournalsInv, BooksTypeOK, ReportInv, ReportType, BalancesType, JournalsTypeOK
  <1>2. QED
    BY <1>1, JournalsInvariant, PTL

\* Whatever is approved, reversed, posted or closed between the reads of a
\* report, a trial balance (trialBalance) balances when no entry is on an
\* account that was closed while the entry was made; and so does a balance
\* sheet (balanceSheet), unless an income or an expense was posted or reversed
\* between its two aggregates.
THEOREM JournalsBooksBalance == JournalsSpec => []BooksBalance
  <1>1. BooksInv => BooksBalance
    BY ReportsBalance DEF BooksInv
  <1>2. QED
    BY <1>1, JournalsInvariant, PTL

-----------------------------------------------------------------------------
(* Bank lines                                                              *)

Claiming(t) == banking[t].step = "claim"

\* What a reconciliation asked for is still there when it claims it.
ClaimKnows ==
    \A t \in Tellers : Claiming(t) =>
      /\ banking[t].bank \in BankAccounts
      /\ \A l \in banking[t].lines :
           /\ line[l].bank = banking[t].bank
           /\ banking[t].bank \in Exclusive => line[l].run = 0

ClaimAlone ==
    \A t, u \in Tellers :
      Claiming(t) /\ Claiming(u) /\ banking[t].bank = banking[u].bank
      /\ banking[t].bank \in Exclusive => t = u

RunsNumbered == IsFiniteSet(runs) /\ \A n \in runs : n.id \in Nat \ {0}

BankInv == BankTypeOK /\ ClaimKnows /\ ClaimAlone /\ RunsNumbered /\ ClaimedOnce

LEMMA BankInitInv == BankInit => BankInv
  <1> SUFFICES ASSUME BankInit PROVE BankInv
    OBVIOUS
  <1>1. BankTypeOK
    <2>1. \A b \in BankAccounts : bank[b].code = NoBank
      BY DEF BankInit, NoBankRow
    <2>2. QED
      BY <2>1 DEF BankInit, BankTypeOK, NoBankRow, NoLine, NotBanking, BankSteps
  <1>2. ClaimKnows /\ ClaimAlone
    BY DEF BankInit, ClaimKnows, ClaimAlone, Claiming, NotBanking
  <1>3. RunsNumbered /\ ClaimedOnce
    BY FS_EmptySet DEF BankInit, RunsNumbered, ClaimedOnce
  <1>4. QED
    BY <1>1, <1>2, <1>3 DEF BankInv

BankingType ==
    banking \in [Tellers -> [step : BankSteps, bank : BankAccounts \cup {NoBank},
                             code : Codes \cup {NoBank}, lines : SUBSET StatementLines]]

\* A request that starts changes nothing else.
LEMMA BegunBanking ==
  ASSUME BankInv, NEW t \in Tellers, NEW task, BeginBanking(t, task),
         task \in [step : BankSteps, bank : BankAccounts \cup {NoBank},
                   code : Codes \cup {NoBank}, lines : SUBSET StatementLines],
         task.step # "claim"
  PROVE  BankInv'
  <1> USE DEF BankInv
  <1>1. banking' = [banking EXCEPT ![t] = task] /\ UNCHANGED <<bank, line, runs>>
    BY DEF BeginBanking
  <1>2. BankTypeOK'
    BY <1>1 DEF BankTypeOK
  <1>3. ClaimKnows' /\ ClaimAlone'
    BY <1>1 DEF ClaimKnows, ClaimAlone, Claiming, BankTypeOK
  <1>4. RunsNumbered' /\ ClaimedOnce'
    BY <1>1 DEF RunsNumbered, ClaimedOnce
  <1>5. QED
    BY <1>2, <1>3, <1>4

\* One that finishes claims nothing any more.
LEMMA FinishedBanking ==
  ASSUME BankInv, NEW t \in Tellers, FinishBanking(t), UNCHANGED <<line, runs>>,
         bank' \in [BankAccounts -> [status : {"NONE", "LIVE", "DELETED"},
                                     code : Codes \cup {NoBank}]],
         \A b, o \in BankAccounts :
           bank'[b].code = bank'[o].code /\ bank'[b].code # NoBank => b = o
  PROVE  BankInv'
  <1> USE DEF BankInv
  <1>1. banking' = [banking EXCEPT ![t] = NotBanking]
    BY DEF FinishBanking
  <1>2. BankTypeOK'
    BY <1>1 DEF BankTypeOK, NotBanking, BankSteps
  <1>3. ClaimKnows' /\ ClaimAlone'
    BY <1>1 DEF ClaimKnows, ClaimAlone, Claiming, BankTypeOK, NotBanking
  <1>4. RunsNumbered' /\ ClaimedOnce'
    BY DEF RunsNumbered, ClaimedOnce
  <1>5. QED
    BY <1>2, <1>3, <1>4

LEMMA ImportedLine ==
  ASSUME BankInv, NEW t \in Tellers, NEW l \in StatementLines, NEW x \in LineAmounts,
         ImportLine(t, l, x)
  PROVE  BankInv'
  <1> USE DEF BankInv
  <1>1. /\ line' = [line EXCEPT ![l] = [bank |-> banking[t].bank, amount |-> x, run |-> 0]]
        /\ banking' = [banking EXCEPT ![t] = NotBanking]
        /\ line[l].bank = NoBank /\ NoBank \notin BankAccounts
        /\ UNCHANGED <<bank, runs>>
    BY BankingAssumption DEF ImportLine, FinishBanking, NoLine
  <1>2. BankTypeOK'
    BY <1>1 DEF BankTypeOK, NotBanking, BankSteps
  <1>3. ClaimKnows' /\ ClaimAlone'
    BY <1>1 DEF ClaimKnows, ClaimAlone, Claiming, BankTypeOK, NotBanking
  <1>4. ClaimedOnce'
    BY <1>1 DEF ClaimedOnce, BankTypeOK
  <1>5. QED
    BY <1>1, <1>2, <1>3, <1>4 DEF RunsNumbered

LEMMA BegunClaim ==
  ASSUME BankInv, NEW t \in Tellers, NEW b \in BankAccounts, NEW ls \in SUBSET StatementLines,
         ReconcileRead(t, b, ls)
  PROVE  BankInv'
  <1> USE DEF BankInv
  <1>1. /\ banking' = [banking EXCEPT ![t] = Task("claim", b, NoBank, ls)]
        /\ UNCHANGED <<bank, line, runs>>
    BY DEF ReconcileRead, BeginBanking
  <1>2. BankTypeOK'
    BY <1>1 DEF BankTypeOK, Task, BankSteps
  <1>3. ClaimKnows'
    BY <1>1 DEF ReconcileRead, Claimable, ClaimKnows, Claiming, BankTypeOK, Task
  <1>4. ClaimAlone'
    BY <1>1 DEF ReconcileRead, ClaimAlone, Claiming, BankTypeOK, Task
  <1>5. QED
    BY <1>1, <1>2, <1>3, <1>4 DEF RunsNumbered, ClaimedOnce

LEMMA CommittedClaim ==
  ASSUME BankInv, NEW t \in Tellers, ReconcileCommit(t)
  PROVE  BankInv'
  <1> DEFINE run == Cardinality(runs) + 1
             ls  == banking[t].lines
             b   == banking[t].bank
             new == [id |-> run, bank |-> b, lines |-> ls]
  <1> USE DEF BankInv
  <1>1. run \in Nat \ {0}
    BY FS_CardinalityType DEF RunsNumbered
  <1>2. /\ runs' = runs \cup {new}
        /\ line' = [l \in StatementLines |->
                      IF l \in ls THEN [line[l] EXCEPT !.run = run] ELSE line[l]]
        /\ banking' = [banking EXCEPT ![t] = NotBanking]
        /\ UNCHANGED bank
        /\ Claiming(t)
    BY DEF ReconcileCommit, FinishBanking, Claiming
  <1> HIDE DEF run
  <1>3. /\ b \in BankAccounts /\ ls \subseteq StatementLines
        /\ \A l \in ls : line[l].bank = b /\ (b \in Exclusive => line[l].run = 0)
    BY <1>2 DEF ClaimKnows, BankTypeOK
  <1>4. BankTypeOK'
    BY <1>1, <1>2, <1>3 DEF BankTypeOK, NotBanking, BankSteps
  <1>5. \A l \in StatementLines : /\ line'[l].bank = line[l].bank
                                  /\ l \notin ls => line'[l].run = line[l].run
                                  /\ l \in ls => line'[l].run = run
    BY <1>2 DEF BankTypeOK
  <1>6. ClaimAlone'
    BY <1>2 DEF ClaimAlone, Claiming, BankTypeOK, NotBanking
  <1>7. ClaimKnows'
    <2> SUFFICES ASSUME NEW u \in Tellers, Claiming(u)'
                 PROVE  /\ banking'[u].bank \in BankAccounts
                        /\ \A l \in banking'[u].lines :
                             /\ line'[l].bank = banking'[u].bank
                             /\ banking'[u].bank \in Exclusive => line'[l].run = 0
      BY DEF ClaimKnows
    <2>1. u # t /\ Claiming(u) /\ banking'[u] = banking[u]
      BY <1>2 DEF Claiming, BankTypeOK, NotBanking
    <2>2. banking[u].lines \subseteq StatementLines /\ banking[u].bank \in BankAccounts
      BY <2>1 DEF ClaimKnows, BankTypeOK
    <2>3. ASSUME NEW l \in banking[u].lines, banking[u].bank \in Exclusive
          PROVE  l \notin ls
      BY <1>2, <1>3, <2>1, <2>3 DEF ClaimKnows, ClaimAlone
    <2>4. QED
      BY <1>5, <2>1, <2>2, <2>3 DEF ClaimKnows
  <1>8. ClaimedOnce'
    <2> SUFFICES ASSUME NEW n \in runs', n.bank \in Exclusive, NEW l \in n.lines
                 PROVE  line'[l].bank = n.bank /\ line'[l].run = n.id
      BY DEF ClaimedOnce
    <2>1. CASE n = new
      BY <1>3, <1>5, <2>1
    <2>2. CASE n \in runs
      <3>1. n.lines \subseteq StatementLines /\ n.id # 0 /\ n.bank \in BankAccounts
        BY <2>2 DEF BankTypeOK, RunsNumbered
      <3>2. line[l].bank = n.bank /\ line[l].run = n.id
        BY <2>2 DEF ClaimedOnce
      <3>3. l \notin ls
        BY <1>3, <3>1, <3>2
      <3>4. QED
        BY <1>5, <3>1, <3>2, <3>3
    <2>3. QED
      BY <1>2, <2>1, <2>2
  <1>9. RunsNumbered'
    <2>1. IsFiniteSet(runs')
      BY <1>2, FS_AddElement DEF RunsNumbered
    <2>2. ASSUME NEW n \in runs' PROVE n.id \in Nat \ {0}
      BY <1>1, <1>2, <2>2 DEF RunsNumbered
    <2>3. QED
      BY <2>1, <2>2 DEF RunsNumbered
  <1>10. QED
    BY <1>4, <1>6, <1>7, <1>8, <1>9

LEMMA BankStepInv == BankInv /\ [BankNext]_bankVars => BankInv'
  <1> SUFFICES ASSUME BankInv, [BankNext]_bankVars PROVE BankInv'
    OBVIOUS
  <1>1. ASSUME NEW b \in BankAccounts, RemoveAccount(b) PROVE BankInv'
    <2>1. /\ bank' \in [BankAccounts -> [status : {"NONE", "LIVE", "DELETED"},
                                         code : Codes \cup {NoBank}]]
          /\ \A o \in BankAccounts : bank'[o].code = bank[o].code
      BY <1>1 DEF RemoveAccount, BankInv, BankTypeOK
    <2>2. BankTypeOK'
      BY <1>1, <2>1 DEF RemoveAccount, BankInv, BankTypeOK
    <2>3. QED
      BY <1>1, <2>2 DEF BankInv, RemoveAccount, ClaimKnows, ClaimAlone, Claiming,
                        RunsNumbered, ClaimedOnce
  <1>2. ASSUME NEW t \in Tellers, AtTheBank(t) PROVE BankInv'
    <2>1. ASSUME NEW b \in BankAccounts, NEW c \in Codes \cup {NoBank},
                 OpenRead(t, b, c) \/ RecodeRead(t, b, c)
          PROVE  BankInv'
      BY <2>1, BegunBanking DEF OpenRead, RecodeRead, Task, BankSteps
    <2>2. ASSUME NEW b \in BankAccounts, ImportRead(t, b) PROVE BankInv'
      BY <2>2, BegunBanking DEF ImportRead, Task, BankSteps
    <2>3. ASSUME SaveAccount(t) PROVE BankInv'
      <3>1. banking[t].code \in Codes \cup {NoBank}
        BY DEF BankInv, BankTypeOK
      <3>2. bank' \in [BankAccounts -> [status : {"NONE", "LIVE", "DELETED"},
                                        code : Codes \cup {NoBank}]]
        BY <2>3, <3>1 DEF SaveAccount, BankInv, BankTypeOK
      <3>3. \A b, o \in BankAccounts :
              bank'[b].code = bank'[o].code /\ bank'[b].code # NoBank => b = o
        <4> DEFINE x == banking[t].bank
                   c == banking[t].code
        <4>1. CASE bank' = bank
          BY <4>1 DEF BankInv, BankTypeOK
        <4>2. CASE /\ Indexable(x, c)
                   /\ bank' = [bank EXCEPT ![x].code = c,
                                           ![x].status = IF @ = "NONE" THEN "LIVE" ELSE @]
          <5>1. \A b \in BankAccounts : bank'[b].code = IF b = x THEN c ELSE bank[b].code
            BY <4>2 DEF BankInv, BankTypeOK
          <5>2. QED
            BY <4>2, <5>1 DEF Indexable, BankInv, BankTypeOK
        <4>3. QED
          BY <2>3, <4>1, <4>2 DEF SaveAccount
      <3>4. QED
        BY <2>3, <3>2, <3>3, FinishedBanking DEF SaveAccount
    <2>4. QED
      BY <1>2, <2>1, <2>2, <2>3, ImportedLine, BegunClaim, CommittedClaim DEF AtTheBank
  <1>3. CASE UNCHANGED bankVars
    BY <1>3 DEF bankVars, BankInv, BankTypeOK, ClaimKnows, ClaimAlone, Claiming,
                RunsNumbered, ClaimedOnce
  <1>4. QED
    BY <1>1, <1>2, <1>3 DEF BankNext

\* Every variable of banking keeps its type.
THEOREM BankingTypes == BankSpec => []BankTypeOK
  <1>1. BankInv => BankTypeOK
    BY DEF BankInv
  <1>2. QED
    BY <1>1, BankInitInv, BankStepInv, PTL DEF BankSpec

\* The lines of an account whose reconciliations do not overlap (reconcile)
\* belong to the one that asked for them, whatever the others do.
THEOREM BankingClaimedOnce == BankSpec => []ClaimedOnce
  <1>1. BankInv => ClaimedOnce
    BY DEF BankInv
  <1>2. QED
    BY <1>1, BankInitInv, BankStepInv, PTL DEF BankSpec

-----------------------------------------------------------------------------
(* Turnover tax                                                            *)

Filed(m)   == period[m].status # "NONE"
PaidFor(m) == period[m].status = "PAID" \/ \E w \in Payers : payer[w].start = m /\ payer[w].step = "mark"

\* The amounts that a listing is about to insert.
Dues == UNION {[S -> Nat] : S \in SUBSET Starts}

FilerType == filer \in [Filers -> [step : {"idle", "insert", "pay"}, due : Dues,
                                  start : Starts \cup {NoStart}, amount : Nat]]

\* What requests, events and handler calls carry is what the period was filed with.
FiledAmounts ==
    /\ \A m \in Starts : /\ Filed(m) \/ period[m] = NoPeriod
                         /\ Filed(m) \/ collected[m] = 0
                         /\ push[m] # 0 => Filed(m) /\ push[m] = period[m].due
    /\ \A f \in Filers : filer[f].step = "pay" =>
                           /\ filer[f].start \in Starts
                           /\ Filed(filer[f].start)
                           /\ filer[f].amount = period[filer[f].start].due
    /\ \A w \in Payers : payer[w].step # "idle" =>
                           /\ payer[w].start \in Starts
                           /\ Filed(payer[w].start)
                           /\ payer[w].amount = period[payer[w].start].due
    /\ \A w \in Payers : payer[w].step = "idle" => payer[w] = NotPaying

\* The money is taken before the period is marked.
TakenFirst == \A m \in Starts : PaidFor(m) => collected[m] >= period[m].due

\* The period of calls that do not overlap has been paid for, or not at all.
TakenOnce ==
    \A m \in Steadfast \cap Starts :
      /\ ~PaidFor(m) => collected[m] = 0
      /\ PaidFor(m) => collected[m] = period[m].due
      /\ \A v, w \in Payers : payer[v].start = m /\ payer[w].start = m => v = w
      /\ \A w \in Payers : payer[w].start = m /\ payer[w].step = "push" => ~PaidFor(m)

TurnoverInv == TurnoverTypeOK /\ FilerType /\ FiledAmounts /\ TakenFirst /\ TakenOnce

\* Nothing is due to nobody.
LEMMA NoDues == NotFiling \in [step : {"idle", "insert", "pay"}, due : Dues,
                              start : Starts \cup {NoStart}, amount : Nat]
  <1>1. <<>> \in [{} -> Nat]
    OBVIOUS
  <1>2. <<>> \in Dues
    BY <1>1 DEF Dues
  <1>3. QED
    BY <1>2 DEF NotFiling

LEMMA DuesAre == \A d \in Dues : DOMAIN d \subseteq Starts /\ \A m \in DOMAIN d : d[m] \in Nat
  BY DEF Dues

LEMMA TurnoverInitInv == TurnoverInit => TurnoverInv
  <1> SUFFICES ASSUME TurnoverInit PROVE TurnoverInv
    OBVIOUS
  <1> USE TurnoverAssumption
  <1>1. TurnoverTypeOK
    BY DEF TurnoverInit, TurnoverTypeOK, NoPeriod, NotFiling, NotPaying, Regimes
  <1>2. FiledAmounts
    BY DEF TurnoverInit, FiledAmounts, Filed, NoPeriod, NotFiling, NotPaying
  <1>3. \A m \in Starts : ~PaidFor(m) /\ collected[m] = 0
    BY DEF TurnoverInit, PaidFor, NoPeriod, NotPaying
  <1>4. TakenFirst /\ TakenOnce
    BY <1>3 DEF TurnoverInit, TakenFirst, TakenOnce, NotPaying
  <1>5. FilerType
    BY NoDues DEF TurnoverInit, FilerType
  <1>6. QED
    BY <1>1, <1>2, <1>4, <1>5 DEF TurnoverInv

\* A step that leaves periods, money and handler calls alone.
LEMMA PaymentsKeep ==
  ASSUME TurnoverInv, UNCHANGED <<period, collected, payer>>
  PROVE  TakenFirst' /\ TakenOnce'
  BY DEF TurnoverInv, TakenFirst, TakenOnce, PaidFor

\* A handler call that ends without marking anything.
LEMMA CallEnds ==
  ASSUME TurnoverInv, NEW w \in Payers, payer[w].step # "mark",
         payer' = [payer EXCEPT ![w] = NotPaying], UNCHANGED <<period, collected>>
  PROVE  TakenFirst' /\ TakenOnce'
  <1>1. \A v \in Payers : payer'[v] = IF v = w THEN NotPaying ELSE payer[v]
    BY DEF TurnoverInv, TurnoverTypeOK
  <1>2. \A m \in Starts : PaidFor(m)' <=> PaidFor(m)
    BY <1>1 DEF PaidFor, NotPaying
  <1>3. \A m \in Starts : NotPaying.start # m
    BY TurnoverAssumption DEF NotPaying
  <1>4. TakenFirst'
    BY <1>2 DEF TurnoverInv, TakenFirst
  <1>5. TakenOnce'
    BY <1>1, <1>2, <1>3 DEF TurnoverInv, TakenOnce
  <1>6. QED
    BY <1>4, <1>5

\* The type of the handler calls when one ends.
LEMMA PayerType ==
  ASSUME TurnoverInv, NEW w \in Payers, payer' = [payer EXCEPT ![w] = NotPaying]
  PROVE  payer' \in [Payers -> [step : {"idle", "push", "mark", "done"},
                                start : Starts \cup {NoStart}, amount : Nat]]
  BY DEF TurnoverInv, TurnoverTypeOK, NotPaying

\* An event that stays or is given up.
LEMMA FailedPush ==
  ASSUME TurnoverInv, NEW w \in Payers, PushFails(w), UNCHANGED <<period, filer>>,
         collected' \in [Starts -> Nat], \A m \in Starts : ~Filed(m) => collected'[m] = 0
  PROVE  /\ FiledAmounts' /\ FilerType'
         /\ push' \in [Starts -> Nat]
         /\ payer' = [payer EXCEPT ![w] = NotPaying]
  <1>1. payer' = [payer EXCEPT ![w] = NotPaying]
    BY DEF PushFails
  <1>2. /\ push' \in [Starts -> Nat]
        /\ \A m \in Starts : push'[m] \in {0, push[m]}
    BY DEF PushFails, TurnoverInv, TurnoverTypeOK
  <1>3. FiledAmounts'
    BY <1>1, <1>2 DEF TurnoverInv, TurnoverTypeOK, FiledAmounts, Filed, NotPaying
  <1>4. QED
    BY <1>1, <1>2, <1>3 DEF TurnoverInv, FilerType

\* The sales of a period are added up.
LEMMA TurnoverIsNat ==
  ASSUME TurnoverInv, NEW p \in Starts
  PROVE  Turnover(p) \in Nat
  <1> DEFINE days == {q \in Starts : q[1] = p[1] /\ NotBefore(q, p)}
  <1>1. days \subseteq {p[1]} \X Days
    BY DEF Starts
  <1>2. IsFiniteSet({p[1]} \X Days)
    BY FS_Product, FS_Singleton, TurnoverAssumption
  <1>3. IsFiniteSet(days)
    BY <1>1, <1>2, FS_Subset
  <1>4. \A q \in days : sales[q] \in Nat
    BY TurnoverAssumption DEF TurnoverInv, TurnoverTypeOK
  <1> HIDE DEF days
  <1>5. SumFunctionOnSet(sales, days) \in Nat
    BY <1>3, <1>4, SumIsNat
  <1>6. QED
    BY <1>5 DEF days, Turnover

LEMMA FilingKeeps ==
  ASSUME TurnoverInv, NEW f \in Filers, Filing(f)
  PROVE  TurnoverInv'
  <1> USE TurnoverAssumption
  <1>1. ASSUME NEW from \in Starts, NEW to \in Starts, ListRead(f, from, to)
        PROVE  TurnoverInv'
    <2> DEFINE due == [p \in Computed(from, to) |-> Turnover(p) * profile.rate]
    <2>1. /\ filer' = [filer EXCEPT ![f].step = "insert", ![f].due = due]
          /\ UNCHANGED <<profile, sales, period, push, collected, payer, unclear>>
          /\ filer[f] = NotFiling
      BY <1>1 DEF ListRead
    <2>2. Computed(from, to) \subseteq Starts
      BY DEF Computed, Cursors
    <2>3. \A x, y \in Nat : x * y \in Nat
      OBVIOUS
    <2>4. due \in [Computed(from, to) -> Nat]
      <3>1. profile.rate \in Nat
        BY DEF TurnoverInv, TurnoverTypeOK
      <3>2. \A p \in Computed(from, to) : Turnover(p) * profile.rate \in Nat
        BY <2>2, <2>3, <3>1, TurnoverIsNat
      <3>3. QED
        BY <3>2
    <2>5. due \in Dues
      BY <2>2, <2>4 DEF Dues
    <2> HIDE DEF due
    <2>6. FilerType'
      BY <2>1, <2>5 DEF TurnoverInv, FilerType
    <2>7. TurnoverTypeOK' /\ FiledAmounts'
      <3>1. TurnoverTypeOK'
        BY <2>1, <2>6, DuesAre DEF TurnoverInv, TurnoverTypeOK, FilerType
      <3>2. filer'[f].step = "insert" /\ \A g \in Filers \ {f} : filer'[g] = filer[g]
        BY <2>1 DEF TurnoverInv, FilerType
      <3>3. FiledAmounts'
        BY <2>1, <3>2, ZenonT(30) DEF TurnoverInv, FiledAmounts, Filed
      <3>4. QED
        BY <3>1, <3>3
    <2>8. QED
      BY <2>1, <2>6, <2>7, PaymentsKeep DEF TurnoverInv
  <1>2. ASSUME NEW m \in Starts, PayPeriodRead(f, m) PROVE TurnoverInv'
    <2> DEFINE asked == [step |-> "pay", due |-> <<>>, start |-> m, amount |-> period[m].due]
    <2>1. /\ filer' = [filer EXCEPT ![f] = asked]
          /\ UNCHANGED <<profile, sales, period, push, collected, payer, unclear>>
          /\ Filed(m)
      BY <1>2 DEF PayPeriodRead, Filed
    <2>2. <<>> \in Dues
      BY NoDues DEF NotFiling
    <2>3. FilerType'
      BY <2>1, <2>2 DEF TurnoverInv, TurnoverTypeOK, FilerType
    <2>4. TurnoverTypeOK'
      BY <2>1, <2>3, DuesAre DEF TurnoverInv, TurnoverTypeOK, FilerType
    <2>5. FiledAmounts'
      BY <2>1 DEF TurnoverInv, FilerType, FiledAmounts, Filed
    <2>6. QED
      BY <2>1, <2>3, <2>4, <2>5, PaymentsKeep DEF TurnoverInv
  <1>3. ASSUME ListInsert(f) PROVE TurnoverInv'
    <2> DEFINE due == filer[f].due
    <2>1. /\ filer' = [filer EXCEPT ![f] = NotFiling]
          /\ UNCHANGED <<profile, sales, push, collected, payer, unclear>>
      BY <1>3 DEF ListInsert
    <2>2. \A m \in Starts : \/ period'[m] = period[m]
                            \/ /\ period[m] = NoPeriod
                               /\ m \in DOMAIN due
                               /\ period'[m] = [status |-> "PENDING", due |-> due[m]]
      BY <1>3 DEF ListInsert
    <2>0. DOMAIN due \subseteq Starts /\ \A m \in DOMAIN due : due[m] \in Nat
      BY DuesAre DEF TurnoverInv, FilerType
    <2> HIDE DEF due
    <2>3. period' \in [Starts -> [status : {"NONE", "PENDING", "PAID"}, due : Nat]]
      <3>1. \A m \in Starts : period'[m] \in [status : {"NONE", "PENDING", "PAID"}, due : Nat]
        <4> SUFFICES ASSUME NEW m \in Starts
                     PROVE  period'[m] \in [status : {"NONE", "PENDING", "PAID"}, due : Nat]
          OBVIOUS
        <4>1. CASE period'[m] = period[m]
          BY <4>1 DEF TurnoverInv, TurnoverTypeOK
        <4>2. CASE m \in DOMAIN due /\ period'[m] = [status |-> "PENDING", due |-> due[m]]
          BY <2>0, <4>2
        <4>3. QED
          BY <2>2, <4>1, <4>2
      <3>2. \/ period' = period
            \/ period' = [m \in Starts |-> period'[m]]
        BY <1>3 DEF ListInsert
      <3>3. QED
        BY <3>1, <3>2 DEF TurnoverInv, TurnoverTypeOK
    <2>4. \A m \in Starts : /\ Filed(m) => period'[m] = period[m]
                            /\ period'[m].status = "PAID" <=> period[m].status = "PAID"
                            /\ ~Filed(m) => period[m] = NoPeriod /\ collected[m] = 0 /\ push[m] = 0
                            /\ Filed(m)' \/ period'[m] = NoPeriod
      <3> SUFFICES ASSUME NEW m \in Starts
                   PROVE  /\ Filed(m) => period'[m] = period[m]
                          /\ period'[m].status = "PAID" <=> period[m].status = "PAID"
                          /\ ~Filed(m) => period[m] = NoPeriod /\ collected[m] = 0 /\ push[m] = 0
                          /\ Filed(m)' \/ period'[m] = NoPeriod
        OBVIOUS
      <3>1. /\ ~Filed(m) => period[m] = NoPeriod /\ collected[m] = 0 /\ push[m] = 0
            /\ Filed(m) \/ period[m] = NoPeriod
        BY DEF TurnoverInv, FiledAmounts
      <3>2. CASE period'[m] = period[m]
        BY <3>1, <3>2 DEF Filed
      <3>3. CASE period[m] = NoPeriod /\ period'[m] = [status |-> "PENDING", due |-> due[m]]
        BY <3>1, <3>3 DEF Filed, NoPeriod
      <3>4. QED
        BY <2>2, <3>2, <3>3
    <2>5. FilerType' /\ TurnoverTypeOK'
      <3>1. FilerType'
        BY <2>1, NoDues DEF TurnoverInv, FilerType
      <3>2. QED
        BY <2>1, <2>3, <3>1, DuesAre DEF TurnoverInv, TurnoverTypeOK, FilerType
    <2>6. FiledAmounts'
      <3>1. \A g \in Filers : filer'[g] = IF g = f THEN NotFiling ELSE filer[g]
        BY <2>1 DEF TurnoverInv, FilerType
      <3>2. \A g \in Filers : filer'[g].step = "pay" =>
              /\ filer'[g].start \in Starts
              /\ period'[filer'[g].start].status # "NONE"
              /\ filer'[g].amount = period'[filer'[g].start].due
        <4> SUFFICES ASSUME NEW g \in Filers, filer'[g].step = "pay"
                     PROVE  /\ filer'[g].start \in Starts
                            /\ period'[filer'[g].start].status # "NONE"
                            /\ filer'[g].amount = period'[filer'[g].start].due
          OBVIOUS
        <4>1. filer'[g] = filer[g]
          BY <3>1 DEF NotFiling
        <4>2. /\ filer[g].start \in Starts /\ Filed(filer[g].start)
              /\ filer[g].amount = period[filer[g].start].due
          BY <4>1 DEF TurnoverInv, FiledAmounts
        <4>3. period'[filer[g].start] = period[filer[g].start]
          BY <2>4, <4>2
        <4>4. QED
          BY <4>1, <4>2, <4>3 DEF Filed
      <3>3. \A m \in Starts : Filed(m) => Filed(m)'
        BY <2>4 DEF Filed
      <3>4. \A w \in Payers : payer'[w].step # "idle" =>
                           /\ payer'[w].start \in Starts
                           /\ period'[payer'[w].start].status # "NONE"
                           /\ payer'[w].amount = period'[payer'[w].start].due
        <4> SUFFICES ASSUME NEW w \in Payers, payer[w].step # "idle"
                     PROVE  /\ payer[w].start \in Starts
                            /\ period'[payer[w].start].status # "NONE"
                            /\ payer[w].amount = period'[payer[w].start].due
          BY <2>1
        <4>1. /\ payer[w].start \in Starts /\ Filed(payer[w].start)
              /\ payer[w].amount = period[payer[w].start].due
          BY DEF TurnoverInv, FiledAmounts
        <4>2. period'[payer[w].start] = period[payer[w].start]
          BY <2>4, <4>1
        <4>3. QED
          BY <4>1, <4>2 DEF Filed
      <3>5. \A m \in Starts :
              /\ period'[m].status # "NONE" \/ period'[m] = NoPeriod
              /\ period'[m].status # "NONE" \/ collected'[m] = 0
              /\ push'[m] # 0 => period'[m].status # "NONE" /\ push'[m] = period'[m].due
        BY <2>1, <2>4, <3>3 DEF TurnoverInv, FiledAmounts, Filed
      <3>6. \A w \in Payers : payer'[w].step = "idle" => payer'[w] = NotPaying
        BY <2>1 DEF TurnoverInv, FiledAmounts
      <3>7. QED
        BY <3>2, <3>4, <3>5, <3>6, Zenon DEF FiledAmounts, Filed, NoPeriod, NotPaying
    <2>7. \A m \in Starts : PaidFor(m)' <=> PaidFor(m)
      BY <2>1, <2>4 DEF PaidFor
    <2>8. \A m \in Starts : PaidFor(m) => Filed(m)
      BY DEF PaidFor, Filed, TurnoverInv, FiledAmounts
    <2>9. TakenFirst' /\ TakenOnce'
      BY <2>1, <2>4, <2>7, <2>8 DEF TurnoverInv, TakenFirst, TakenOnce
    <2>10. QED
      BY <2>5, <2>6, <2>9 DEF TurnoverInv
  <1>4. ASSUME PayPeriodCommit(f) PROVE TurnoverInv'
    <2>1. /\ filer' = [filer EXCEPT ![f] = NotFiling]
          /\ push' = [push EXCEPT ![filer[f].start] = Pushed(filer[f].start, filer[f].amount)]
          /\ UNCHANGED <<profile, sales, period, collected, payer, unclear>>
          /\ filer[f].step = "pay"
      BY <1>4 DEF PayPeriodCommit
    <2>0. FilerType'
      BY <2>1, NoDues DEF TurnoverInv, FilerType
    <2>2. TurnoverTypeOK'
      <3>1. push' \in [Starts -> Nat]
        BY <2>1 DEF TurnoverInv, TurnoverTypeOK, Pushed
      <3>2. QED
        BY <2>0, <2>1, <3>1, DuesAre DEF TurnoverInv, TurnoverTypeOK, FilerType
    <2>3. FiledAmounts'
      BY <2>1 DEF TurnoverInv, TurnoverTypeOK, FilerType, FiledAmounts, Filed, Pushed, NotFiling
    <2>4. QED
      BY <2>0, <2>1, <2>2, <2>3, PaymentsKeep DEF TurnoverInv
  <1>5. QED
    BY <1>1, <1>2, <1>3, <1>4 DEF Filing

LEMMA TakePushKeeps ==
  ASSUME TurnoverInv, NEW w \in Payers, NEW m \in Starts, TakePush(w, m)
  PROVE  TurnoverInv'
  <1> USE TurnoverAssumption
  <1> DEFINE taken == [step |-> IF Payable(m) THEN "push" ELSE "done",
                       start |-> m, amount |-> push[m]]
  <1>1. /\ payer' = [payer EXCEPT ![w] = taken]
        /\ push[m] # 0
        /\ payer[w] = NotPaying
        /\ m \in Steadfast => \A v \in Payers : payer[v].start # m
        /\ UNCHANGED <<profile, sales, period, push, collected, filer, unclear>>
    BY DEF TakePush
  <1>2. taken.step \in {"push", "done"} /\ taken.start = m /\ taken.amount = push[m]
    OBVIOUS
  <1>3. taken.step = "push" <=> period[m].status # "PAID"
    BY DEF Payable
  <1>4. taken \in [step : {"idle", "push", "mark", "done"},
                   start : Starts \cup {NoStart}, amount : Nat]
    BY DEF TurnoverInv, TurnoverTypeOK
  <1> HIDE DEF taken
  <1>5. TurnoverTypeOK'
    BY <1>1, <1>4 DEF TurnoverInv, TurnoverTypeOK
  <1>6. \A v \in Payers : payer'[v] = IF v = w THEN taken ELSE payer[v]
    BY <1>1 DEF TurnoverInv, TurnoverTypeOK
  <1>7. FiledAmounts'
    BY <1>1, <1>2, <1>6 DEF TurnoverInv, FiledAmounts, Filed
  <1>8. \A x \in Starts : PaidFor(x)' <=> PaidFor(x)
    BY <1>1, <1>2, <1>6 DEF PaidFor, NotPaying
  <1>9. TakenFirst'
    BY <1>1, <1>8 DEF TurnoverInv, TakenFirst
  <1>10. TakenOnce'
    <2>1. m \in Steadfast /\ taken.step = "push" => ~PaidFor(m)
      BY <1>1, <1>3 DEF PaidFor
    <2>2. QED
      <3> SUFFICES ASSUME NEW x \in Steadfast \cap Starts
                   PROVE  /\ ~PaidFor(x)' => collected'[x] = 0
                          /\ PaidFor(x)' => collected'[x] = period'[x].due
                          /\ \A v, u \in Payers : payer'[v].start = x /\ payer'[u].start = x => v = u
                          /\ \A v \in Payers : payer'[v].start = x /\ payer'[v].step = "push"
                                            => ~PaidFor(x)'
        BY DEF TakenOnce
      <3>1. /\ ~PaidFor(x) => collected[x] = 0
            /\ PaidFor(x) => collected[x] = period[x].due
            /\ \A v, u \in Payers : payer[v].start = x /\ payer[u].start = x => v = u
            /\ \A v \in Payers : payer[v].start = x /\ payer[v].step = "push" => ~PaidFor(x)
        BY DEF TurnoverInv, TakenOnce
      <3>2. CASE x = m
        BY <1>1, <1>2, <1>6, <1>8, <2>1, <3>1, <3>2
      <3>3. CASE x # m
        BY <1>1, <1>2, <1>6, <1>8, <3>1, <3>3
      <3>4. QED
        BY <3>2, <3>3
  <1>11. QED
    BY <1>1, <1>5, <1>7, <1>9, <1>10 DEF TurnoverInv, FilerType

\* The provider takes the amount.
LEMMA MoneyTaken ==
  ASSUME TurnoverInv, NEW w \in Payers, payer[w].step # "idle",
         collected' = [collected EXCEPT ![payer[w].start] = @ + payer[w].amount]
  PROVE  /\ collected' \in [Starts -> Nat]
         /\ payer[w].start \in Starts
         /\ \A m \in Starts : /\ ~Filed(m) => collected'[m] = 0
                              /\ collected'[m] >= collected[m]
                              /\ m # payer[w].start => collected'[m] = collected[m]
         /\ collected'[payer[w].start] = collected[payer[w].start] + period[payer[w].start].due
  BY DEF TurnoverInv, TurnoverTypeOK, FiledAmounts, Filed

LEMMA PushKeeps ==
  ASSUME TurnoverInv, NEW w \in Payers, Push(w)
  PROVE  TurnoverInv'
  <1>1. payer[w].step = "push" /\ UNCHANGED <<profile, sales, period, filer, unclear>>
    BY DEF Push
  <1>2. CASE PushFails(w) /\ UNCHANGED collected
    <2>1. FiledAmounts' /\ FilerType' /\ push' \in [Starts -> Nat] /\ payer' = [payer EXCEPT ![w] = NotPaying]
      BY <1>1, <1>2, FailedPush DEF TurnoverInv, TurnoverTypeOK, FiledAmounts
    <2>2. TurnoverTypeOK'
      BY <1>1, <1>2, <2>1, PayerType DEF TurnoverInv, TurnoverTypeOK
    <2>3. QED
      BY <1>1, <1>2, <2>1, <2>2, CallEnds DEF TurnoverInv, FilerType
  <1>3. CASE /\ collected' = [collected EXCEPT ![payer[w].start] = @ + payer[w].amount]
             /\ payer' = [payer EXCEPT ![w].step = "mark"]
             /\ UNCHANGED push
    <2> DEFINE m == payer[w].start
    <2>1. /\ collected' \in [Starts -> Nat] /\ m \in Starts
          /\ \A x \in Starts : /\ ~Filed(x) => collected'[x] = 0
                               /\ collected'[x] >= collected[x]
                               /\ x # m => collected'[x] = collected[x]
          /\ collected'[m] = collected[m] + period[m].due
      BY <1>1, <1>3, MoneyTaken
    <2>2. \A v \in Payers : /\ payer'[v].start = payer[v].start
                            /\ payer'[v].amount = payer[v].amount
                            /\ payer'[v].step = IF v = w THEN "mark" ELSE payer[v].step
                            /\ v # w => payer'[v] = payer[v]
      BY <1>3 DEF TurnoverInv, TurnoverTypeOK
    <2>3. TurnoverTypeOK'
      BY <1>1, <1>3, <2>1 DEF TurnoverInv, TurnoverTypeOK
    <2>4. FiledAmounts'
      BY <1>1, <1>3, <2>1, <2>2 DEF TurnoverInv, FiledAmounts, Filed
    <2>5. \A x \in Starts : PaidFor(x)' <=> PaidFor(x) \/ x = m
      BY <1>1, <2>2 DEF PaidFor
    <2>6. TakenFirst'
      BY <1>1, <2>1, <2>5 DEF TurnoverInv, TurnoverTypeOK, TakenFirst
    <2>7. m \in Steadfast => ~PaidFor(m) /\ collected[m] = 0
      BY <1>1, <2>1 DEF TurnoverInv, TakenOnce
    <2>8. TakenOnce'
      <3> SUFFICES ASSUME NEW x \in Steadfast \cap Starts
                   PROVE  /\ ~PaidFor(x)' => collected'[x] = 0
                          /\ PaidFor(x)' => collected'[x] = period'[x].due
                          /\ \A v, u \in Payers : payer'[v].start = x /\ payer'[u].start = x => v = u
                          /\ \A v \in Payers : payer'[v].start = x /\ payer'[v].step = "push"
                                            => ~PaidFor(x)'
        BY DEF TakenOnce
      <3>1. /\ ~PaidFor(x) => collected[x] = 0
            /\ PaidFor(x) => collected[x] = period[x].due
            /\ \A v, u \in Payers : payer[v].start = x /\ payer[u].start = x => v = u
            /\ \A v \in Payers : payer[v].start = x /\ payer[v].step = "push" => ~PaidFor(x)
        BY DEF TurnoverInv, TakenOnce
      <3>2. CASE x = m
        <4>1. collected'[x] = period'[x].due
          BY <1>1, <2>1, <2>7, <3>2 DEF TurnoverInv, TurnoverTypeOK
        <4>2. QED
          BY <1>1, <2>2, <2>5, <3>1, <3>2, <4>1
      <3>3. CASE x # m
        BY <1>1, <2>1, <2>2, <2>5, <3>1, <3>3
      <3>4. QED
        BY <3>2, <3>3
    <2>9. QED
      BY <1>1, <2>3, <2>4, <2>6, <2>8 DEF TurnoverInv, FilerType
  <1>4. QED
    BY <1>2, <1>3 DEF Push

LEMMA PushUnansweredKeeps ==
  ASSUME TurnoverInv, NEW w \in Payers, PushUnanswered(w)
  PROVE  TurnoverInv'
  <1> USE TurnoverAssumption
  <1> DEFINE m == payer[w].start
  <1>1. /\ payer[w].step = "push" /\ m \notin Steadfast
        /\ unclear < MaxUnclear /\ unclear' = unclear + 1
        /\ collected' = [collected EXCEPT ![m] = @ + payer[w].amount]
        /\ PushFails(w)
        /\ UNCHANGED <<profile, sales, period, filer>>
    BY DEF PushUnanswered
  <1>2. /\ collected' \in [Starts -> Nat] /\ m \in Starts
        /\ \A x \in Starts : /\ ~Filed(x) => collected'[x] = 0
                             /\ collected'[x] >= collected[x]
                             /\ x # m => collected'[x] = collected[x]
    BY <1>1, MoneyTaken
  <1>3. FiledAmounts' /\ FilerType' /\ push' \in [Starts -> Nat] /\ payer' = [payer EXCEPT ![w] = NotPaying]
    BY <1>1, <1>2, FailedPush
  <1>4. TurnoverTypeOK'
    <2>1. unclear' \in 0..MaxUnclear
      BY <1>1 DEF TurnoverInv, TurnoverTypeOK
    <2>2. payer' \in [Payers -> [step : {"idle", "push", "mark", "done"},
                                start : Starts \cup {NoStart}, amount : Nat]]
      BY <1>3, PayerType
    <2>3. QED
      BY <1>1, <1>2, <1>3, <2>1, <2>2 DEF TurnoverInv, TurnoverTypeOK
  <1>5. \A v \in Payers : payer'[v] = IF v = w THEN NotPaying ELSE payer[v]
    BY <1>3 DEF TurnoverInv, TurnoverTypeOK
  <1>6. \A x \in Starts : PaidFor(x)' <=> PaidFor(x)
    BY <1>1, <1>5 DEF PaidFor, NotPaying
  <1>7. TakenFirst'
    BY <1>1, <1>2, <1>6 DEF TurnoverInv, TurnoverTypeOK, TakenFirst
  <1>8. NotPaying.start = NoStart
    BY DEF NotPaying
  <1>9. TakenOnce'
    BY <1>1, <1>2, <1>5, <1>6, <1>8 DEF TurnoverInv, TakenOnce
  <1>10. QED
    BY <1>3, <1>4, <1>7, <1>9 DEF TurnoverInv

LEMMA MarkPaidKeeps ==
  ASSUME TurnoverInv, NEW w \in Payers, MarkPaid(w)
  PROVE  TurnoverInv'
  <1> DEFINE m == payer[w].start
  <1>1. /\ payer[w].step = "mark"
        /\ period' = [period EXCEPT ![m].status = "PAID"]
        /\ payer' = [payer EXCEPT ![w].step = "done"]
        /\ UNCHANGED <<profile, sales, push, collected, filer, unclear>>
    BY DEF MarkPaid
  <1>2. m \in Starts /\ Filed(m) /\ PaidFor(m)
    BY <1>1 DEF TurnoverInv, FiledAmounts, PaidFor
  <1>3. TurnoverTypeOK'
    BY <1>1, ZenonT(30) DEF TurnoverInv, TurnoverTypeOK
  <1>4. \A v \in Payers : /\ payer'[v].start = payer[v].start
                          /\ payer'[v].amount = payer[v].amount
                          /\ payer'[v].step = IF v = w THEN "done" ELSE payer[v].step
                          /\ v # w => payer'[v] = payer[v]
    BY <1>1 DEF TurnoverInv, TurnoverTypeOK
  <1>5. \A x \in Starts : /\ period'[x].due = period[x].due
                          /\ period'[x].status = IF x = m THEN "PAID" ELSE period[x].status
                          /\ x # m => period'[x] = period[x]
    BY <1>1 DEF TurnoverInv, TurnoverTypeOK
  <1>6. FiledAmounts'
    BY <1>1, <1>2, <1>4, <1>5 DEF TurnoverInv, FiledAmounts, Filed
  <1>7. \A x \in Starts : PaidFor(x)' <=> PaidFor(x)
    BY <1>1, <1>2, <1>4, <1>5 DEF PaidFor
  <1>8. TakenFirst' /\ TakenOnce'
    BY <1>1, <1>4, <1>5, <1>7 DEF TurnoverInv, TakenFirst, TakenOnce
  <1>9. QED
    BY <1>1, <1>3, <1>6, <1>8 DEF TurnoverInv, FilerType

LEMMA PayingKeeps ==
  ASSUME TurnoverInv, NEW w \in Payers, Paying(w)
  PROVE  TurnoverInv'
  <1> USE TurnoverAssumption
  <1>1. ASSUME PushDone(w) PROVE TurnoverInv'
    <2>1. /\ payer[w].step = "done" /\ payer' = [payer EXCEPT ![w] = NotPaying]
          /\ push' = [push EXCEPT ![payer[w].start] = 0]
          /\ UNCHANGED <<profile, sales, period, collected, filer, unclear>>
      BY <1>1 DEF PushDone
    <2>2. TurnoverTypeOK'
      BY <2>1, PayerType DEF TurnoverInv, TurnoverTypeOK
    <2>3. FiledAmounts'
      BY <2>1 DEF TurnoverInv, TurnoverTypeOK, FiledAmounts, Filed, NotPaying
    <2>4. QED
      BY <2>1, <2>2, <2>3, CallEnds DEF TurnoverInv, FilerType
  <1>2. ASSUME PayerDies(w) PROVE TurnoverInv'
    <2>1. /\ payer[w] # NotPaying /\ payer[w].start \notin Steadfast
          /\ unclear < MaxUnclear /\ unclear' = unclear + 1
          /\ PushFails(w)
          /\ UNCHANGED <<profile, sales, period, collected, filer>>
      BY <1>2 DEF PayerDies
    <2>2. FiledAmounts' /\ FilerType' /\ push' \in [Starts -> Nat] /\ payer' = [payer EXCEPT ![w] = NotPaying]
      BY <2>1, FailedPush DEF TurnoverInv, TurnoverTypeOK, FiledAmounts
    <2>3. TurnoverTypeOK'
      <3>1. unclear' \in 0..MaxUnclear
        BY <2>1 DEF TurnoverInv, TurnoverTypeOK
      <3>2. payer' \in [Payers -> [step : {"idle", "push", "mark", "done"},
                                  start : Starts \cup {NoStart}, amount : Nat]]
        BY <2>2, PayerType
      <3>3. QED
        BY <2>1, <2>2, <3>1, <3>2 DEF TurnoverInv, TurnoverTypeOK
    <2>4. \A v \in Payers : payer'[v] = IF v = w THEN NotPaying ELSE payer[v]
      BY <2>2 DEF TurnoverInv, TurnoverTypeOK
    <2>5. /\ \A x \in Starts : PaidFor(x)' => PaidFor(x)
          /\ \A x \in Starts \cap Steadfast : PaidFor(x)' <=> PaidFor(x)
      BY <2>1, <2>4 DEF PaidFor, NotPaying
    <2>6. TakenFirst'
      BY <2>1, <2>5 DEF TurnoverInv, TakenFirst
    <2>7. NotPaying.start = NoStart
      BY DEF NotPaying
    <2>8. TakenOnce'
      <3>1. /\ UNCHANGED <<period, collected>> /\ \A m \in Starts : NotPaying.start # m
            /\ NotPaying.step # "push"
        BY <2>1, <2>7 DEF NotPaying
      <3>2. \A m \in Steadfast \cap Starts :
              /\ \A v, x \in Payers : payer'[v].start = m /\ payer'[x].start = m => v = x
              /\ \A x \in Payers : payer'[x].start = m /\ payer'[x].step = "push" => ~PaidFor(m)
        BY <2>4, <3>1 DEF TurnoverInv, TakenOnce
      <3>3. QED
        BY <2>5, <3>1, <3>2 DEF TurnoverInv, TakenOnce
    <2>9. QED
      BY <2>2, <2>3, <2>6, <2>8 DEF TurnoverInv
  <1>3. QED
    BY <1>1, <1>2, TakePushKeeps, PushKeeps, PushUnansweredKeeps, MarkPaidKeeps DEF Paying

LEMMA TurnoverStepInv == TurnoverInv /\ [TurnoverNext]_turnoverVars => TurnoverInv'
  <1> SUFFICES ASSUME TurnoverInv, [TurnoverNext]_turnoverVars PROVE TurnoverInv'
    OBVIOUS
  <1>1. ASSUME NEW g \in Regimes, NEW t \in Rates, UpdateProfile(g, t) PROVE TurnoverInv'
    <2>1. TurnoverTypeOK'
      BY <1>1 DEF UpdateProfile, TurnoverInv, TurnoverTypeOK
    <2>2. FiledAmounts'
      BY <1>1 DEF UpdateProfile, TurnoverInv, FiledAmounts, Filed
    <2>3. QED
      BY <1>1, <2>1, <2>2, PaymentsKeep DEF UpdateProfile, TurnoverInv, FilerType
  <1>2. ASSUME NEW m \in Starts, NEW n \in Turnovers, SalesChange(m, n) PROVE TurnoverInv'
    <2>1. TurnoverTypeOK'
      BY <1>2 DEF SalesChange, TurnoverInv, TurnoverTypeOK
    <2>2. FiledAmounts'
      BY <1>2 DEF SalesChange, TurnoverInv, FiledAmounts, Filed
    <2>3. QED
      BY <1>2, <2>1, <2>2, PaymentsKeep DEF SalesChange, TurnoverInv, FilerType
  <1>3. CASE UNCHANGED turnoverVars
    <2>1. TurnoverTypeOK' /\ FiledAmounts'
      BY <1>3 DEF turnoverVars, TurnoverInv, TurnoverTypeOK, FiledAmounts, Filed
    <2>2. QED
      BY <1>3, <2>1, PaymentsKeep DEF turnoverVars, TurnoverInv, FilerType
  <1>4. QED
    BY <1>1, <1>2, <1>3, FilingKeeps, PayingKeeps DEF TurnoverNext

\* Every variable of the turnover tax keeps its type.
THEOREM TurnoverTypes == TurnoverSpec => []TurnoverTypeOK
  <1>1. TurnoverInv => TurnoverTypeOK
    BY DEF TurnoverInv
  <1>2. QED
    BY <1>1, TurnoverInitInv, TurnoverStepInv, PTL DEF TurnoverSpec

\* However pay requests, listings and handler calls overlap, and whatever they
\* lose (payPeriod, TotPaymentHandlerRegistrar), a period is charged once, what
\* it was filed with, and marked paid only when it was.
THEOREM TurnoverChargedOnce == TurnoverSpec => []ChargedOnce
  <1>1. TurnoverInv => ChargedOnce
    BY DEF TurnoverInv, TakenFirst, TakenOnce, PaidFor, ChargedOnce
  <1>2. QED
    BY <1>1, TurnoverInitInv, TurnoverStepInv, PTL DEF TurnoverSpec

-----------------------------------------------------------------------------
(* Receipts of suppliers                                                   *)

OfficeTask == [step : {"idle", "return", "record", "certify"},
               credit : Returns \cup {Nothing}, slip : Slips \cup {Nothing},
               bill : Bills \cup {Nothing}, payout : Payouts \cup {Nothing},
               copy : 0..MaxCopies, number : Nat]

BillRow == [recorded : BOOLEAN, unmatched : BOOLEAN, mismatch : BOOLEAN]

LEMMA FlagsSet ==
  ASSUME NEW row \in BillRow, NEW odd \in BOOLEAN
  PROVE  /\ [row EXCEPT !.unmatched = odd] \in BillRow
         /\ [row EXCEPT !.mismatch = odd] \in BillRow
  <1>1. [row EXCEPT !.unmatched = odd] \in BillRow
    BY DEF BillRow
  <1>2. [row EXCEPT !.mismatch = odd] \in BillRow
    BY DEF BillRow
  <1> QED
    BY <1>1, <1>2

CreditNote == [status : {"NONE", "UNMATCHED", "MATCHED"},
               slip : Slips \cup {Nothing}, bill : Bills \cup {Nothing},
               payout : Payouts \cup {Nothing}, copy : 0..MaxCopies, offset : Nat]

LEMMA NoTaskIs ==
  /\ NoTask \in OfficeTask /\ NoTask.step = "idle"
  /\ NoTask.credit = Nothing /\ NoTask.payout = Nothing
  BY SupplierAssumption DEF NoTask, OfficeTask

\* The calm payment and the calm credit note that a request is about.
CalmOf(f) == {office[f].credit, office[f].payout} \cap Calm

TasksApart ==
    /\ \A f \in Officers : /\ office[f].step = "return" => office[f].credit \in Returns
                           /\ office[f].step = "record" => office[f].payout \in Payouts
    /\ \A f, g \in Officers : CalmOf(f) \cap CalmOf(g) # {} => f = g

\* A credit note that is calm is matched by the request that found it unmatched.
NotesUnmatched ==
    \A f \in Officers : office[f].step = "return" /\ office[f].credit \in Calm =>
      credit[office[f].credit].status = "UNMATCHED"

\* A purchase without an open flag is supported.
SupportKept ==
    Returns \subseteq Calm =>
    \A b \in Bills : bill[b].recorded /\ ~bill[b].unmatched /\ ~bill[b].mismatch =>
      Supported(b) \/ BillTotal[b] = 0

\* A calm payment has one deduction, offset by one credit note.
DeductedOnce ==
    \A p \in Calm \cap Payouts :
      /\ \A d, e \in Deductions(p) : d = e /\ d.copy = 1
      /\ \A f \in Officers : office[f].payout = p =>
           /\ office[f].step = "record" => Deductions(p) = {}
           /\ office[f].step = "return" =>
                Deductions(p) # {} /\ Offsets(p) = {} /\ office[f].copy = 1
      /\ \A c \in Offsets(p) : /\ Deductions(p) # {} /\ credit[c].copy = 1
                               /\ credit[c].offset <= Withheld[p]
                               /\ \A e \in Offsets(p) : e = c

NotesCaptured == {c \in Returns : credit[c].status # "NONE"}

SupplierInv ==
    /\ SupplierTypeOK /\ IsFiniteSet(withholding) /\ IsFiniteSet(NotesCaptured)
    /\ TasksApart /\ NotesUnmatched /\ SupportKept /\ DeductedOnce

LEMMA SupplierInitInv == SupplierInit => SupplierInv
  <1> SUFFICES ASSUME SupplierInit PROVE SupplierInv
    OBVIOUS
  <1> USE SupplierAssumption
  <1>1. SupplierTypeOK
    <2>1. NoCredit \in CreditNote
      BY DEF NoCredit, CreditNote
    <2> QED
      BY <2>1, NoTaskIs DEF SupplierInit, SupplierTypeOK, NoBill, NoSlip, OfficeTask, CreditNote
  <1>2. NotesCaptured = {} /\ withholding = {}
    BY DEF SupplierInit, NotesCaptured, NoCredit
  <1>3. \A f \in Officers : office[f].step = "idle" /\ CalmOf(f) = {}
    BY DEF SupplierInit, NoTask, CalmOf
  <1>4. \A p \in Payouts : Deductions(p) = {} /\ Offsets(p) = {}
    BY DEF SupplierInit, Deductions, Offsets, NoCredit
  <1>5. TasksApart /\ NotesUnmatched
    BY <1>3 DEF TasksApart, NotesUnmatched
  <1>6. DeductedOnce
    BY <1>3, <1>4 DEF DeductedOnce
  <1>7. SupportKept
    BY DEF SupplierInit, SupportKept, NoBill
  <1> QED
    BY <1>1, <1>2, <1>5, <1>6, <1>7, FS_EmptySet DEF SupplierInv

\* What supports a purchase stays while no receipt is lost and no credit note
\* is matched again; a scan may change an amount only from zero.
LEMMA SupportStays ==
  ASSUME SupplierTypeOK, NEW b \in Bills, Supported(b),
         \A s \in Slips : Captured(s) => Captured(s)',
         \A s \in Slips : \/ slip'[s].amount = slip[s].amount
                          \/ slip[s].amount = 0 /\ slip'[s].amount \in Nat,
         \A c \in Returns : credit[c].status = "MATCHED" => credit'[c] = credit[c]
  PROVE  Supported(b)' \/ BillTotal[b] = 0
  <1> USE SupplierAssumption
  <1>1. CASE \E s \in Slips : Captured(s) /\ slip[s].amount = BillTotal[b]
    BY <1>1 DEF Supported
  <1>2. CASE \E c \in Returns : /\ credit[c].status = "MATCHED" /\ credit[c].bill = b
                                /\ credit[c].slip # Nothing /\ Bridges(credit[c].slip, c, b)
    <2> PICK c \in Returns : /\ credit[c].status = "MATCHED" /\ credit[c].bill = b
                             /\ credit[c].slip # Nothing /\ Bridges(credit[c].slip, c, b)
      BY <1>2
    <2> PICK s \in Slips : s = credit[c].slip
      BY DEF SupplierTypeOK
    <2>1. slip[s].amount \in Nat /\ slip'[s].amount \in Nat /\ slip'[s].amount >= slip[s].amount
      BY DEF SupplierTypeOK
    <2>2. slip'[s].amount + ReturnAmount[c] >= BillTotal[b]
      BY <2>1 DEF Bridges
    <2>3. Bridges(credit[c].slip, c, b)'
      BY <2>2 DEF Bridges
    <2> QED
      BY <2>3 DEF Supported
  <1> QED
    BY <1>1, <1>2 DEF Supported

\* A step that opens the flags of a purchase, or supports it.
LEMMA SupportStep ==
  ASSUME SupplierInv, Returns \subseteq Calm =>
           \A c \in Returns : credit[c].status = "MATCHED" => credit'[c] = credit[c],
         \A s \in Slips : Captured(s) => Captured(s)',
         \A s \in Slips : \/ slip'[s].amount = slip[s].amount
                          \/ slip[s].amount = 0 /\ slip'[s].amount \in Nat,
         \A b \in Bills : bill'[b].recorded /\ ~bill'[b].unmatched /\ ~bill'[b].mismatch =>
           (bill[b].recorded /\ ~bill[b].unmatched /\ ~bill[b].mismatch) \/ Supported(b)'
  PROVE  SupportKept'
  <1> SUFFICES ASSUME Returns \subseteq Calm, NEW b \in Bills,
                      bill'[b].recorded, ~bill'[b].unmatched, ~bill'[b].mismatch
               PROVE  Supported(b)' \/ BillTotal[b] = 0
    BY DEF SupportKept
  <1>1. CASE bill[b].recorded /\ ~bill[b].unmatched /\ ~bill[b].mismatch
    <2>1. Supported(b) \/ BillTotal[b] = 0
      BY <1>1 DEF SupplierInv, SupportKept
    <2>2. SupplierTypeOK
      BY DEF SupplierInv
    <2>3. ASSUME Supported(b) PROVE Supported(b)' \/ BillTotal[b] = 0
      <3>1. \A c \in Returns : credit[c].status = "MATCHED" => credit'[c] = credit[c]
        OBVIOUS
      <3> QED
        BY <2>2, <2>3, <3>1, SupportStays
    <2> QED
      BY <2>1, <2>3
  <1> QED
    BY <1>1

\* Purchases and receipts come, are verified and matched: requests, credit
\* notes and deductions are as they were.
LEMMA PaperKeeps ==
  ASSUME SupplierInv, SupplierTypeOK', UNCHANGED <<credit, withholding, office>>,
         \A s \in Slips : Captured(s) => Captured(s)',
         \A s \in Slips : \/ slip'[s].amount = slip[s].amount
                          \/ slip[s].amount = 0 /\ slip'[s].amount \in Nat,
         \A b \in Bills : bill'[b].recorded /\ ~bill'[b].unmatched /\ ~bill'[b].mismatch =>
           (bill[b].recorded /\ ~bill[b].unmatched /\ ~bill[b].mismatch) \/ Supported(b)'
  PROVE  SupplierInv'
  <1>1. SupportKept'
    BY SupportStep
  <1>2. IsFiniteSet(withholding') /\ NotesCaptured' = NotesCaptured
    BY DEF NotesCaptured, SupplierInv
  <1>3. TasksApart' /\ NotesUnmatched'
    BY DEF SupplierInv, TasksApart, NotesUnmatched, CalmOf
  <1>4. DeductedOnce'
    BY DEF SupplierInv, DeductedOnce, Deductions, Offsets
  <1> QED
    BY <1>1, <1>2, <1>3, <1>4 DEF SupplierInv

LEMMA PaperMoves ==
  ASSUME SupplierInv,
         \/ \E b \in Bills : RecordBill(b)
         \/ \E s \in Slips : CaptureSlip(s) \/ ScanSlip(s) \/ ReadScan(s) \/ VerifySlip(s)
         \/ \E s \in Slips, b \in Bills : Match(s, b)
  PROVE  SupplierInv'
  <1> USE SupplierAssumption
  <1>0. /\ bill \in [Bills -> [recorded : BOOLEAN, unmatched : BOOLEAN, mismatch : BOOLEAN]]
        /\ slip \in [Slips -> [status : {"NONE", "UNVERIFIED", "VERIFIED_VIA_KRA_QR",
                                         "VERIFICATION_FAILED"},
                               bill : Bills \cup {Nothing}, amount : Nat]]
    BY DEF SupplierInv, SupplierTypeOK
  <1>1. ASSUME NEW b \in Bills, RecordBill(b) PROVE SupplierInv'
    <2>1. /\ bill' = [bill EXCEPT ![b] = [recorded |-> TRUE, unmatched |-> ~HasReceipt(b),
                                          mismatch |-> FALSE]]
          /\ UNCHANGED <<slip, credit, withholding, office>>
      BY <1>1 DEF RecordBill
    <2>2. HasReceipt(b) \in BOOLEAN
      BY DEF HasReceipt
    <2>3. SupplierTypeOK'
      <3>1. bill' \in [Bills -> [recorded : BOOLEAN, unmatched : BOOLEAN, mismatch : BOOLEAN]]
        BY <1>0, <2>1, <2>2
      <3> QED
        BY <2>1, <3>1 DEF SupplierInv, SupplierTypeOK
    <2>4. HasReceipt(b) => Supported(b)'
      BY <2>1 DEF HasReceipt, Supported, Captured
    <2>5. \A a \in Bills : bill'[a].recorded /\ ~bill'[a].unmatched /\ ~bill'[a].mismatch =>
            (bill[a].recorded /\ ~bill[a].unmatched /\ ~bill[a].mismatch) \/ Supported(a)'
      BY <1>0, <2>1, <2>4
    <2> QED
      BY <2>1, <2>3, <2>5, PaperKeeps DEF Captured
  <1>2. ASSUME NEW s \in Slips, CaptureSlip(s) \/ ScanSlip(s) \/ ReadScan(s) \/ VerifySlip(s)
        PROVE  SupplierInv'
    <2>1. /\ slip'[s] \in [status : {"UNVERIFIED", "VERIFIED_VIA_KRA_QR", "VERIFICATION_FAILED"}
                                    \cup {slip[s].status},
                           bill : Bills \cup {Nothing}, amount : Nat]
          /\ Captured(s) => slip'[s].status # "NONE"
          /\ slip'[s].amount = slip[s].amount \/ slip[s].amount = 0
      BY <1>0, <1>2 DEF CaptureSlip, ScanSlip, ReadScan, VerifySlip, NoSlip, Captured
    <2>2. /\ slip' = [slip EXCEPT ![s] = slip'[s]]
          /\ UNCHANGED <<bill, credit, withholding, office>>
      BY <1>0, <1>2 DEF CaptureSlip, ScanSlip, ReadScan, VerifySlip
    <2>3. SupplierTypeOK'
      <3>1. slip' \in [Slips -> [status : {"NONE", "UNVERIFIED", "VERIFIED_VIA_KRA_QR",
                                           "VERIFICATION_FAILED"},
                                 bill : Bills \cup {Nothing}, amount : Nat]]
        BY <1>0, <2>1, <2>2
      <3> QED
        BY <2>2, <3>1 DEF SupplierInv, SupplierTypeOK
    <2>4. /\ \A r \in Slips : Captured(r) => Captured(r)'
          /\ \A r \in Slips : \/ slip'[r].amount = slip[r].amount
                              \/ slip[r].amount = 0 /\ slip'[r].amount \in Nat
      BY <1>0, <2>1, <2>2 DEF Captured
    <2> QED
      BY <2>2, <2>3, <2>4, PaperKeeps
  <1>3. ASSUME NEW s \in Slips, NEW b \in Bills, Match(s, b) PROVE SupplierInv'
    <2>1. /\ Captured(s) /\ slip' = [slip EXCEPT ![s].bill = b]
          /\ bill' = [bill EXCEPT ![b].unmatched = FALSE,
                                  ![b].mismatch = slip[s].amount # BillTotal[b]]
          /\ UNCHANGED <<credit, withholding, office>>
      BY <1>3 DEF Match
    <2>2. SupplierTypeOK'
      <3>1. slip' \in [Slips -> [status : {"NONE", "UNVERIFIED", "VERIFIED_VIA_KRA_QR",
                                           "VERIFICATION_FAILED"},
                                 bill : Bills \cup {Nothing}, amount : Nat]]
        BY <1>0, <2>1
      <3>2. PICK odd \in BOOLEAN : odd = (slip[s].amount # BillTotal[b])
        OBVIOUS
      <3>3. bill' \in [Bills -> [recorded : BOOLEAN, unmatched : BOOLEAN, mismatch : BOOLEAN]]
        <4>0. bill \in [Bills -> BillRow]
          BY <1>0 DEF BillRow
        <4> PICK mid : mid = [bill EXCEPT ![b].unmatched = FALSE]
          OBVIOUS
        <4>1. mid \in [Bills -> BillRow]
          BY <4>0, FlagsSet
        <4>2. bill' = [mid EXCEPT ![b].mismatch = odd]
          BY <2>1, <3>2
        <4>3. bill' \in [Bills -> BillRow]
          BY <4>1, <4>2, FlagsSet
        <4> QED
          BY <4>3 DEF BillRow
      <3> QED
        BY <2>1, <3>1, <3>3 DEF SupplierInv, SupplierTypeOK
    <2>3. \A r \in Slips : slip'[r].status = slip[r].status /\ slip'[r].amount = slip[r].amount
      BY <1>0, <2>1
    <2>4. bill'[b].mismatch = (slip[s].amount # BillTotal[b]) /\ \A a \in Bills \ {b} : bill'[a] = bill[a]
      BY <1>0, <2>1
    <2>5. ~bill'[b].mismatch => Supported(b)'
      BY <2>1, <2>3, <2>4 DEF Supported, Captured
    <2> QED
      BY <2>1, <2>2, <2>3, <2>4, <2>5, PaperKeeps DEF Captured
  <1> QED
    BY <1>1, <1>2, <1>3

-----------------------------------------------------------------------------
OfficeType == office \in [Officers -> OfficeTask]

\* What a request is about when it is done: nothing.
LEMMA DoneIs ==
  ASSUME SupplierInv, NEW f \in Officers, Done(f)
  PROVE  /\ OfficeType'
         /\ \A g \in Officers : office'[g] = IF g = f THEN NoTask ELSE office[g]
         /\ TasksApart'
         /\ \A g \in Officers : office'[g].step \in {"return", "record"} => g # f
  <1> USE SupplierAssumption
  <1>2. OfficeType'
    BY NoTaskIs DEF Done, OfficeType, SupplierInv, SupplierTypeOK, OfficeTask
  <1>3. \A g \in Officers : office'[g] = IF g = f THEN NoTask ELSE office[g]
    BY DEF Done, SupplierInv, SupplierTypeOK
  <1>4. \A g \in Officers : CalmOf(g)' \subseteq CalmOf(g)
    BY <1>3 DEF CalmOf, NoTask
  <1>6. TasksApart'
    BY <1>3, <1>4, NoTaskIs DEF SupplierInv, TasksApart
  <1> QED
    BY <1>2, <1>3, <1>6, NoTaskIs

\* A request begins.
LEMMA OfficeBegins ==
  ASSUME SupplierInv, NEW f \in Officers,
         NEW t \in OfficeTask, Assign(f, t),
         t.step = "return" => t.credit \in Returns /\ credit[t.credit].status = "UNMATCHED",
         t.step = "record" => t.payout \in Payouts /\ Deductions(t.payout) = {},
         t.step = "return" /\ t.payout \in Calm \cap Payouts =>
           Deductions(t.payout) # {} /\ Offsets(t.payout) = {} /\ t.copy = 1
  PROVE  SupplierInv'
  <1> USE SupplierAssumption
  <1>1. /\ office' = [office EXCEPT ![f] = t] /\ UNCHANGED <<bill, slip, credit, withholding>>
        /\ \A g \in Officers : {t.credit, t.payout} \cap Calm \cap {office[g].credit, office[g].payout} = {}
    BY DEF Assign
  <1>2. \A g \in Officers : office'[g] = IF g = f THEN t ELSE office[g]
    BY <1>1 DEF SupplierInv, SupplierTypeOK
  <1>3. SupplierTypeOK'
    <2>1. office' \in [Officers -> OfficeTask]
      BY <1>1 DEF SupplierInv, SupplierTypeOK, OfficeTask
    <2> QED
      BY <1>1, <2>1 DEF SupplierInv, SupplierTypeOK, OfficeTask
  <1>4. TasksApart'
    <2>1. \A g \in Officers : CalmOf(g)' = IF g = f THEN {t.credit, t.payout} \cap Calm ELSE CalmOf(g)
      BY <1>2 DEF CalmOf
    <2>2. \A g \in Officers : CalmOf(g) \cap ({t.credit, t.payout} \cap Calm) = {}
      BY <1>1 DEF CalmOf
    <2>3. \A g, h \in Officers : CalmOf(g)' \cap CalmOf(h)' # {} => g = h
      BY <2>1, <2>2 DEF SupplierInv, TasksApart
    <2> QED
      BY <1>2, <2>3 DEF SupplierInv, TasksApart
  <1>5. NotesUnmatched'
    BY <1>1, <1>2 DEF SupplierInv, NotesUnmatched
  <1>6. SupportKept'
    BY <1>1 DEF SupplierInv, SupportKept, Supported, Captured, Bridges
  <1>7. DeductedOnce'
    <2>1. \A p : Deductions(p)' = Deductions(p) /\ Offsets(p)' = Offsets(p)
      BY <1>1 DEF Deductions, Offsets
    <2> SUFFICES ASSUME NEW p \in Calm \cap Payouts
                 PROVE  /\ \A d, e \in Deductions(p) : d = e /\ d.copy = 1
                        /\ \A g \in Officers : office'[g].payout = p =>
                             /\ office'[g].step = "record" => Deductions(p) = {}
                             /\ office'[g].step = "return" =>
                                  Deductions(p) # {} /\ Offsets(p) = {} /\ office'[g].copy = 1
                        /\ \A c \in Offsets(p) : /\ Deductions(p) # {} /\ credit[c].copy = 1
                                                 /\ credit[c].offset <= Withheld[p]
                                                 /\ \A e \in Offsets(p) : e = c
      BY <1>1, <2>1 DEF DeductedOnce
    <2>2. ASSUME NEW g \in Officers, office'[g].payout = p
          PROVE  /\ office'[g].step = "record" => Deductions(p) = {}
                 /\ office'[g].step = "return" =>
                      Deductions(p) # {} /\ Offsets(p) = {} /\ office'[g].copy = 1
      <3>1. CASE g = f
        BY <1>2, <2>2, <3>1
      <3>2. CASE g # f
        BY <1>2, <2>2, <3>2 DEF SupplierInv, DeductedOnce
      <3> QED
        BY <3>1, <3>2
    <2> QED
      BY <2>2 DEF SupplierInv, DeductedOnce
  <1>8. IsFiniteSet(withholding') /\ NotesCaptured' = NotesCaptured
    BY <1>1 DEF SupplierInv, NotesCaptured
  <1> QED
    BY <1>3, <1>4, <1>5, <1>6, <1>7, <1>8 DEF SupplierInv

LEMMA OfficeReads ==
  ASSUME SupplierInv, NEW f \in Officers
  PROVE  /\ \A c \in Returns, s \in Slips \cup {Nothing}, b \in Bills \cup {Nothing},
               p \in Payouts \cup {Nothing}, n \in 0..MaxCopies :
              ReturnRead(f, c, s, b, p, n) => SupplierInv'
         /\ \A p \in Payouts : RecordRead(f, p) => SupplierInv'
         /\ \A d \in withholding : CertificateRead(f, d) => SupplierInv'
  <1> USE SupplierAssumption
  <1>1. ASSUME NEW c \in Returns, NEW s \in Slips \cup {Nothing}, NEW b \in Bills \cup {Nothing},
               NEW p \in Payouts \cup {Nothing}, NEW n \in 0..MaxCopies,
               ReturnRead(f, c, s, b, p, n)
        PROVE  SupplierInv'
    <2> PICK a : a = IF b = Nothing /\ s # Nothing THEN slip[s].bill ELSE b
      OBVIOUS
    <2> DEFINE t == [NoTask EXCEPT !.step = "return", !.credit = c, !.slip = s, !.payout = p,
                                   !.copy = n, !.bill = a]
    <2>1. /\ credit[c].status = "UNMATCHED" /\ Assign(f, t)
          /\ p # Nothing => OffsetFree(p, n)
      BY <1>1 DEF ReturnRead
    <2>2. a \in Bills \cup {Nothing}
      BY DEF SupplierInv, SupplierTypeOK
    <2>3. /\ t \in OfficeTask
          /\ t.step = "return" /\ t.credit = c /\ t.payout = p /\ t.copy = n
      BY <2>2, NoTaskIs DEF NoTask, OfficeTask
    <2>4. p \in Calm \cap Payouts => Deductions(p) # {} /\ Offsets(p) = {} /\ n = 1
      BY <2>1 DEF OffsetFree, Deducted, SupplierInv, DeductedOnce
    <2> HIDE DEF t
    <2> QED
      BY <2>1, <2>3, <2>4, OfficeBegins
  <1>2. ASSUME NEW p \in Payouts, RecordRead(f, p) PROVE SupplierInv'
    <2> DEFINE t == [NoTask EXCEPT !.step = "record", !.payout = p]
    <2>1. Deductions(p) = {} /\ Assign(f, t)
      BY <1>2 DEF RecordRead
    <2>2. /\ t \in OfficeTask
          /\ t.step = "record" /\ t.payout = p
      BY NoTaskIs DEF NoTask, OfficeTask
    <2> HIDE DEF t
    <2> QED
      BY <2>1, <2>2, OfficeBegins
  <1>3. ASSUME NEW d \in withholding, CertificateRead(f, d) PROVE SupplierInv'
    <2> PICK p, n : p = d.payout /\ n = Cardinality(withholding) + 1
      OBVIOUS
    <2> DEFINE t == [NoTask EXCEPT !.step = "certify", !.payout = p, !.number = n]
    <2>1. Assign(f, t)
      BY <1>3 DEF CertificateRead
    <2>2. p \in Payouts /\ n \in Nat
      BY FS_CardinalityType DEF SupplierInv, SupplierTypeOK
    <2>3. /\ t \in OfficeTask
          /\ t.step = "certify"
      BY <2>2, NoTaskIs DEF NoTask, OfficeTask
    <2> HIDE DEF t
    <2> QED
      BY <2>1, <2>3, OfficeBegins
  <1> QED
    BY <1>1, <1>2, <1>3

LEMMA NoteCaptured ==
  ASSUME SupplierInv, NEW c \in Returns, CaptureReturn(c)
  PROVE  SupplierInv'
  <1>1. /\ credit[c].status = "NONE" /\ credit' = [credit EXCEPT ![c].status = "UNMATCHED"]
        /\ UNCHANGED <<bill, slip, withholding, office>>
    BY DEF CaptureReturn
  <1>2. SupplierTypeOK'
    <2>1. credit \in [Returns -> CreditNote]
      BY DEF SupplierInv, SupplierTypeOK, CreditNote
    <2>2. [credit[c] EXCEPT !.status = "UNMATCHED"] \in CreditNote
      BY <2>1 DEF CreditNote
    <2>3. credit' \in [Returns -> CreditNote]
      BY <1>1, <2>1, <2>2
    <2> QED
      BY <1>1, <2>3 DEF SupplierInv, SupplierTypeOK, CreditNote
  <1>3. /\ credit'[c].status = "UNMATCHED" /\ credit'[c].payout = credit[c].payout
        /\ credit'[c].copy = credit[c].copy /\ credit'[c].offset = credit[c].offset
        /\ \A e \in Returns : e # c => credit'[e] = credit[e]
    BY <1>1 DEF SupplierInv, SupplierTypeOK
  <1>4. IsFiniteSet(NotesCaptured')
    <2>1. NotesCaptured' \subseteq NotesCaptured \cup {c}
      BY <1>3 DEF NotesCaptured
    <2> QED
      BY <2>1, FS_Subset, FS_AddElement DEF SupplierInv
  <1>5. TasksApart'
    BY <1>1 DEF SupplierInv, TasksApart, CalmOf
  <1>6. NotesUnmatched'
    BY <1>1, <1>3 DEF SupplierInv, NotesUnmatched, TasksApart
  <1>7. SupportKept'
    <2>1. \A e \in Returns : credit[e].status = "MATCHED" => credit'[e] = credit[e]
      BY <1>1, <1>3
    <2>2. \A s \in Slips : Captured(s) => Captured(s)'
      BY <1>1 DEF Captured
    <2> QED
      BY <1>1, <2>1, <2>2, SupportStep
  <1>8. DeductedOnce'
    <2>1. \A p : Deductions(p)' = Deductions(p) /\ Offsets(p)' = Offsets(p)
      BY <1>1, <1>3 DEF Deductions, Offsets
    <2> QED
      BY <1>1, <1>3, <2>1 DEF SupplierInv, DeductedOnce, Offsets
  <1> QED
    BY <1>1, <1>2, <1>4, <1>5, <1>6, <1>7, <1>8 DEF SupplierInv

\* The share of a credit note in what was withheld is never more than all of it.
LEMMA OffsetBounds ==
  ASSUME NEW w \in Nat, NEW k \in Nat, NEW g \in Nat \ {0}
  PROVE  (w * Least(k, g)) \div g \in 0..w
  <1> PICK m : m = Least(k, g)
    OBVIOUS
  <1>1. m \in Nat /\ m <= g
    BY DEF Least
  <1>2. w * m \in Nat /\ w * m <= w * g
    <2>1. w * m \in Nat /\ w * g \in Nat
      BY <1>1
    <2>2. PICK r \in Nat : g = m + r
      <3>1. g - m \in Nat /\ g = m + (g - m)
        BY <1>1
      <3> QED
        BY <3>1
    <2>3. w * g = w * m + w * r /\ w * r \in Nat
      BY <1>1, <2>2
    <2> QED
      BY <2>1, <2>3
  <1> PICK n \in Nat : n = w * m
    BY <1>2
  <1>3. n \div g \in Nat /\ g * (n \div g) <= n
    OBVIOUS
  <1>4. n \div g <= w
    <2> SUFFICES ASSUME w + 1 <= n \div g PROVE FALSE
      BY <1>3
    <2>1. PICK q \in Nat : n \div g = w + 1 + q
      <3>1. (n \div g) - (w + 1) \in Nat /\ n \div g = w + 1 + ((n \div g) - (w + 1))
        BY <1>3
      <3> QED
        BY <3>1
    <2>2. g * (w + 1 + q) = w * g + g + g * q /\ g * q \in Nat /\ w * g \in Nat
      OBVIOUS
    <2>3. w * g + g + g * q <= w * g
      BY <1>2, <1>3, <2>1, <2>2
    <2> QED
      BY <2>2, <2>3
  <1> QED
    BY <1>3, <1>4

\* What a credit note becomes when it is matched.
LEMMA NoteMatched ==
  ASSUME SupplierInv, NEW f \in Officers, ReturnCommit(f)
  PROVE  \E c \in Returns :
           /\ c = office[f].credit
           /\ \A e \in Returns : e # c => credit'[e] = credit[e]
           /\ credit' \in [Returns -> CreditNote]
           /\ credit'[c].status = "MATCHED"
           /\ credit'[c].slip = office[f].slip /\ credit'[c].bill = office[f].bill
           /\ office[f].payout = Nothing => /\ credit'[c].payout = credit[c].payout
                                            /\ credit'[c].copy = credit[c].copy
                                            /\ credit'[c].offset = credit[c].offset
           /\ office[f].payout # Nothing => /\ office[f].payout \in Payouts
                                            /\ credit'[c].payout = office[f].payout
                                            /\ credit'[c].copy = office[f].copy
                                            /\ credit'[c].offset <= Withheld[office[f].payout]
  <1> USE SupplierAssumption
  <1>1. office[f] \in OfficeTask /\ office[f].step = "return"
    BY DEF SupplierInv, SupplierTypeOK, OfficeTask, ReturnCommit
  <1>2. PICK t \in OfficeTask : t = office[f]
    BY <1>1
  <1>3. PICK c \in Returns : c = t.credit
    BY <1>1, <1>2 DEF SupplierInv, TasksApart
  <1>4. credit \in [Returns -> CreditNote]
    BY DEF SupplierInv, SupplierTypeOK, CreditNote
  <1>5. PICK old \in CreditNote : old = credit[c]
    BY <1>4
  <1>6. PICK n : n = Offset(c, t.payout)
    OBVIOUS
  <1>7. t.payout # Nothing => t.payout \in Payouts /\ n \in Nat /\ n <= Withheld[t.payout]
    <2> SUFFICES ASSUME t.payout # Nothing
                 PROVE  t.payout \in Payouts /\ n \in Nat /\ n <= Withheld[t.payout]
      OBVIOUS
    <2>1. PICK p \in Payouts : p = t.payout
      BY DEF OfficeTask
    <2>2. Withheld[p] \in Nat /\ ReturnAmount[c] \in Nat /\ Gross[p] \in Nat \ {0}
      OBVIOUS
    <2>3. (Withheld[p] * Least(ReturnAmount[c], Gross[p])) \div Gross[p] \in 0..Withheld[p]
      BY <2>2, OffsetBounds
    <2> QED
      BY <1>6, <2>1, <2>2, <2>3 DEF Offset
  <1> DEFINE new == [status |-> "MATCHED", slip |-> t.slip, bill |-> t.bill,
                     payout |-> IF t.payout = Nothing THEN old.payout ELSE t.payout,
                     copy   |-> IF t.payout = Nothing THEN old.copy ELSE t.copy,
                     offset |-> IF t.payout = Nothing THEN old.offset ELSE n]
  <1>8. new \in CreditNote
    BY <1>7 DEF CreditNote, OfficeTask
  <1>9. credit' = [credit EXCEPT ![c] = new]
    BY <1>2, <1>3, <1>5, <1>6 DEF ReturnCommit
  <1>10. /\ new.status = "MATCHED" /\ new.slip = t.slip /\ new.bill = t.bill
         /\ t.payout = Nothing => /\ new.payout = old.payout
                                  /\ new.copy = old.copy /\ new.offset = old.offset
         /\ t.payout # Nothing => /\ new.payout = t.payout /\ new.copy = t.copy
                                  /\ new.offset = n
    OBVIOUS
  <1> HIDE DEF new
  <1>11. /\ credit' \in [Returns -> CreditNote] /\ credit'[c] = new
         /\ \A e \in Returns : e # c => credit'[e] = credit[e]
    BY <1>4, <1>8, <1>9
  <1> QED
    BY <1>2, <1>3, <1>5, <1>7, <1>10, <1>11

\* A mismatch is closed only by a credit note that bridges it.
LEMMA MismatchClosed ==
  ASSUME SupplierInv, NEW f \in Officers, ReturnCommit(f)
  PROVE  /\ bill' \in [Bills -> BillRow]
         /\ \A b \in Bills :
              bill'[b].recorded /\ ~bill'[b].unmatched /\ ~bill'[b].mismatch =>
                (bill[b].recorded /\ ~bill[b].unmatched /\ ~bill[b].mismatch) \/ Supported(b)'
  <1> USE SupplierAssumption
  <1>1. PICK c \in Returns :
           /\ c = office[f].credit /\ credit'[c].status = "MATCHED"
           /\ credit'[c].slip = office[f].slip /\ credit'[c].bill = office[f].bill
    BY NoteMatched
  <1>2. bill \in [Bills -> BillRow]
    BY DEF SupplierInv, SupplierTypeOK, BillRow
  <1>3. slip' = slip
    BY DEF ReturnCommit
  <1>4. CASE office[f].slip = Nothing \/ office[f].bill = Nothing
    <2>1. bill' = bill
      BY <1>4 DEF ReturnCommit
    <2> QED
      BY <1>2, <2>1
  <1>5. CASE office[f].slip # Nothing /\ office[f].bill # Nothing
    <2>1. office[f].bill \in Bills \cup {Nothing}
      BY DEF SupplierInv, SupplierTypeOK
    <2>2. PICK b \in Bills : b = office[f].bill
      BY <1>5, <2>1
    <2>3. PICK odd \in BOOLEAN : odd = (bill[b].mismatch /\ ~Bridges(office[f].slip, c, b))
      OBVIOUS
    <2>4. bill' = [bill EXCEPT ![b].mismatch = odd]
      BY <1>1, <1>5, <2>2, <2>3 DEF ReturnCommit
    <2>5. bill' \in [Bills -> BillRow]
      BY <1>2, <2>4, FlagsSet
    <2>6. /\ \A a \in Bills : a # b => bill'[a] = bill[a]
          /\ bill'[b].recorded = bill[b].recorded /\ bill'[b].unmatched = bill[b].unmatched
          /\ bill'[b].mismatch = odd
      BY <1>2, <2>4 DEF BillRow
    <2>7. Bridges(office[f].slip, c, b) => Supported(b)'
      <3> SUFFICES ASSUME Bridges(office[f].slip, c, b) PROVE Supported(b)'
        OBVIOUS
      <3>1. slip'[credit'[c].slip].amount + ReturnAmount[c] >= BillTotal[b]
        BY <1>1, <1>3 DEF Bridges
      <3>2. credit'[c].slip # Nothing /\ credit'[c].bill = b
        BY <1>1, <1>5, <2>2
      <3> QED
        BY <1>1, <3>1, <3>2 DEF Supported, Bridges
    <2> QED
      BY <2>3, <2>5, <2>6, <2>7
  <1> QED
    BY <1>4, <1>5

LEMMA NoteCommitted ==
  ASSUME SupplierInv, NEW f \in Officers, ReturnCommit(f)
  PROVE  SupplierInv'
  <1> USE SupplierAssumption
  <1>1. /\ UNCHANGED <<slip, withholding>> /\ Done(f) /\ office[f].step = "return"
    BY DEF ReturnCommit
  <1>2. /\ OfficeType'
        /\ \A g \in Officers : office'[g] = IF g = f THEN NoTask ELSE office[g]
        /\ TasksApart'
        /\ \A g \in Officers : office'[g].step \in {"return", "record"} => g # f
    BY <1>1, DoneIs
  <1>3. PICK c \in Returns :
           /\ c = office[f].credit
           /\ \A e \in Returns : e # c => credit'[e] = credit[e]
           /\ credit' \in [Returns -> CreditNote]
           /\ credit'[c].status = "MATCHED"
           /\ credit'[c].slip = office[f].slip /\ credit'[c].bill = office[f].bill
           /\ office[f].payout = Nothing => /\ credit'[c].payout = credit[c].payout
                                            /\ credit'[c].copy = credit[c].copy
                                            /\ credit'[c].offset = credit[c].offset
           /\ office[f].payout # Nothing => /\ office[f].payout \in Payouts
                                            /\ credit'[c].payout = office[f].payout
                                            /\ credit'[c].copy = office[f].copy
                                            /\ credit'[c].offset <= Withheld[office[f].payout]
    BY NoteMatched
  <1>4. /\ bill' \in [Bills -> BillRow]
        /\ \A b \in Bills :
             bill'[b].recorded /\ ~bill'[b].unmatched /\ ~bill'[b].mismatch =>
               (bill[b].recorded /\ ~bill[b].unmatched /\ ~bill[b].mismatch) \/ Supported(b)'
    BY MismatchClosed
  <1>5. SupplierTypeOK'
    BY <1>1, <1>2, <1>3, <1>4
       DEF SupplierInv, SupplierTypeOK, OfficeType, OfficeTask, CreditNote, BillRow
  <1>6. IsFiniteSet(withholding') /\ IsFiniteSet(NotesCaptured')
    <2>1. NotesCaptured' \subseteq NotesCaptured \cup {c}
      BY <1>3 DEF NotesCaptured
    <2> QED
      BY <1>1, <2>1, FS_Subset, FS_AddElement DEF SupplierInv
  <1>7. \A g \in Officers : g # f => CalmOf(g) \cap CalmOf(f) = {}
    BY DEF SupplierInv, TasksApart
  <1>8. NotesUnmatched'
    <2> SUFFICES ASSUME NEW g \in Officers, office'[g].step = "return", office'[g].credit \in Calm
                 PROVE  credit'[office'[g].credit].status = "UNMATCHED"
      BY DEF NotesUnmatched
    <2>1. g # f /\ office'[g] = office[g]
      BY <1>2
    <2>2. office[g].credit \in Returns /\ credit[office[g].credit].status = "UNMATCHED"
      BY <2>1 DEF SupplierInv, TasksApart, NotesUnmatched
    <2>3. office[g].credit # c
      BY <1>3, <1>7, <2>1 DEF CalmOf
    <2> QED
      BY <1>3, <2>1, <2>2, <2>3
  <1>9. SupportKept'
    <2>1. Returns \subseteq Calm =>
            \A e \in Returns : credit[e].status = "MATCHED" => credit'[e] = credit[e]
      <3>1. c \in Calm => credit[c].status = "UNMATCHED"
        BY <1>1, <1>3 DEF SupplierInv, NotesUnmatched
      <3> QED
        BY <1>3, <3>1
    <2>2. \A s \in Slips : Captured(s) => Captured(s)'
      BY <1>1 DEF Captured
    <2>3. \A s \in Slips : \/ slip'[s].amount = slip[s].amount
                           \/ slip[s].amount = 0 /\ slip'[s].amount \in Nat
      BY <1>1
    <2> QED
      BY <1>4, <2>1, <2>2, <2>3, SupportStep
  <1>10. DeductedOnce'
    <2> SUFFICES ASSUME NEW p \in Calm \cap Payouts
                 PROVE  /\ \A d, e \in Deductions(p)' : d = e /\ d.copy = 1
                        /\ \A g \in Officers : office'[g].payout = p =>
                             /\ office'[g].step = "record" => Deductions(p)' = {}
                             /\ office'[g].step = "return" =>
                                  Deductions(p)' # {} /\ Offsets(p)' = {} /\ office'[g].copy = 1
                        /\ \A e \in Offsets(p)' : /\ Deductions(p)' # {} /\ credit'[e].copy = 1
                                                  /\ credit'[e].offset <= Withheld[p]
                                                  /\ \A a \in Offsets(p)' : a = e
      BY DEF DeductedOnce
    <2>1. Deductions(p)' = Deductions(p) /\ p # Nothing
      BY <1>1 DEF Deductions
    <2>2. CASE office[f].payout = p
      <3>1. Deductions(p) # {} /\ Offsets(p) = {} /\ office[f].copy = 1
        BY <1>1, <2>2 DEF SupplierInv, DeductedOnce
      <3>2. Offsets(p)' = {c}
        BY <1>3, <2>1, <2>2, <3>1 DEF Offsets
      <3>3. \A g \in Officers : g # f => office[g].payout # p
        BY <1>7, <2>2 DEF CalmOf
      <3>4. \A g \in Officers : office'[g].payout # p
        BY <1>2, <2>1, <3>3, NoTaskIs
      <3>5. \A d, e \in Deductions(p) : d = e /\ d.copy = 1
        BY DEF SupplierInv, DeductedOnce
      <3>6. credit'[c].copy = 1 /\ credit'[c].offset <= Withheld[p]
        BY <1>3, <2>1, <2>2, <3>1
      <3> QED
        BY <2>1, <3>1, <3>2, <3>4, <3>5, <3>6
    <2>3. CASE office[f].payout # p
      <3>1. Offsets(p)' \subseteq Offsets(p)
        BY <1>3, <2>1, <2>3 DEF Offsets
      <3>2. \A e \in Offsets(p)' : credit'[e].copy = credit[e].copy /\ credit'[e].offset = credit[e].offset
        BY <1>3, <2>1, <2>3 DEF Offsets
      <3>3. \A g \in Officers : office'[g].payout = p => office'[g] = office[g]
        BY <1>2, <2>1, NoTaskIs
      <3>4. /\ \A d, e \in Deductions(p) : d = e /\ d.copy = 1
            /\ \A g \in Officers : office[g].payout = p =>
                 /\ office[g].step = "record" => Deductions(p) = {}
                 /\ office[g].step = "return" =>
                      Deductions(p) # {} /\ Offsets(p) = {} /\ office[g].copy = 1
            /\ \A e \in Offsets(p) : /\ Deductions(p) # {} /\ credit[e].copy = 1
                                     /\ credit[e].offset <= Withheld[p]
                                     /\ \A a \in Offsets(p) : a = e
        BY DEF SupplierInv, DeductedOnce
      <3>5. \A e \in Offsets(p)' : /\ Deductions(p)' # {} /\ credit'[e].copy = 1
                                   /\ credit'[e].offset <= Withheld[p]
                                   /\ \A a \in Offsets(p)' : a = e
        BY <2>1, <3>1, <3>2, <3>4
      <3>6. \A g \in Officers : office'[g].payout = p =>
                 /\ office'[g].step = "record" => Deductions(p)' = {}
                 /\ office'[g].step = "return" =>
                      Deductions(p)' # {} /\ Offsets(p)' = {} /\ office'[g].copy = 1
        BY <2>1, <3>1, <3>3, <3>4
      <3> QED
        BY <2>1, <3>4, <3>5, <3>6
    <2> QED
      BY <2>2, <2>3
  <1> QED
    BY <1>2, <1>5, <1>6, <1>8, <1>9, <1>10 DEF SupplierInv

\* Deductions come and are certified: receipts and credit notes are as they were.
LEMMA TaxKeeps ==
  ASSUME SupplierInv, NEW f \in Officers, Done(f), UNCHANGED <<bill, slip, credit>>,
         withholding' \subseteq [payout : Payouts, copy : 1..MaxCopies, number : Nat],
         IsFiniteSet(withholding'), DeductedOnce'
  PROVE  SupplierInv'
  <1>1. /\ OfficeType'
        /\ \A g \in Officers : office'[g] = IF g = f THEN NoTask ELSE office[g]
        /\ TasksApart'
        /\ \A g \in Officers : office'[g].step \in {"return", "record"} => g # f
    BY DoneIs
  <1>2. SupplierTypeOK'
    BY <1>1 DEF SupplierInv, SupplierTypeOK, OfficeType, OfficeTask
  <1>3. IsFiniteSet(NotesCaptured') /\ SupportKept'
    BY DEF SupplierInv, NotesCaptured, SupportKept, Supported, Captured, Bridges
  <1>4. NotesUnmatched'
    <2> SUFFICES ASSUME NEW g \in Officers, office'[g].step = "return", office'[g].credit \in Calm
                 PROVE  credit[office'[g].credit].status = "UNMATCHED"
      BY DEF NotesUnmatched
    <2>1. office'[g] = office[g]
      BY <1>1
    <2> QED
      BY <2>1 DEF SupplierInv, NotesUnmatched
  <1> QED
    BY <1>1, <1>2, <1>3, <1>4 DEF SupplierInv

LEMMA TaxRecorded ==
  ASSUME SupplierInv, NEW f \in Officers, RecordDeduction(f)
  PROVE  SupplierInv'
  <1> USE SupplierAssumption
  <1>1. /\ UNCHANGED <<bill, slip, credit>> /\ Done(f) /\ office[f].step = "record"
    BY DEF RecordDeduction
  <1>2. PICK p \in Payouts : p = office[f].payout
    BY <1>1 DEF SupplierInv, TasksApart
  <1>3. PICK copy : copy = Cardinality(Deductions(p)) + 1
    OBVIOUS
  <1>4. copy <= MaxCopies /\ withholding' = withholding \cup {[payout |-> p, copy |-> copy, number |-> 0]}
    BY <1>2, <1>3 DEF RecordDeduction
  <1>5. copy \in 1..MaxCopies
    <2>1. IsFiniteSet(Deductions(p))
      <3>1. Deductions(p) \subseteq withholding
        BY DEF Deductions
      <3> QED
        BY <3>1, FS_Subset DEF SupplierInv
    <2>2. Cardinality(Deductions(p)) \in Nat
      BY <2>1, FS_CardinalityType
    <2> QED
      BY <1>3, <1>4, <2>2
  <1> PICK new : new = [payout |-> p, copy |-> copy, number |-> 0]
    OBVIOUS
  <1>6. /\ new \in [payout : Payouts, copy : 1..MaxCopies, number : Nat]
        /\ new.payout = p /\ new.copy = copy
        /\ withholding' = withholding \cup {new}
    BY <1>4, <1>5
  <1>7. /\ withholding' \subseteq [payout : Payouts, copy : 1..MaxCopies, number : Nat]
        /\ IsFiniteSet(withholding')
    BY <1>6, FS_AddElement DEF SupplierInv, SupplierTypeOK
  <1>8. \A g \in Officers : office'[g] = IF g = f THEN NoTask ELSE office[g]
    BY <1>1, DoneIs
  <1>9. DeductedOnce'
    <2> SUFFICES ASSUME NEW q \in Calm \cap Payouts
                 PROVE  /\ \A d, e \in Deductions(q)' : d = e /\ d.copy = 1
                        /\ \A g \in Officers : office'[g].payout = q =>
                             /\ office'[g].step = "record" => Deductions(q)' = {}
                             /\ office'[g].step = "return" =>
                                  Deductions(q)' # {} /\ Offsets(q) = {} /\ office'[g].copy = 1
                        /\ \A e \in Offsets(q) : /\ Deductions(q)' # {} /\ credit[e].copy = 1
                                                 /\ credit[e].offset <= Withheld[q]
                                                 /\ \A a \in Offsets(q) : a = e
      BY <1>1 DEF DeductedOnce, Offsets
    <2>1. /\ \A d, e \in Deductions(q) : d = e /\ d.copy = 1
          /\ \A g \in Officers : office[g].payout = q =>
               /\ office[g].step = "record" => Deductions(q) = {}
               /\ office[g].step = "return" =>
                    Deductions(q) # {} /\ Offsets(q) = {} /\ office[g].copy = 1
          /\ \A e \in Offsets(q) : /\ Deductions(q) # {} /\ credit[e].copy = 1
                                   /\ credit[e].offset <= Withheld[q]
                                   /\ \A a \in Offsets(q) : a = e
      BY DEF SupplierInv, DeductedOnce
    <2>2. \A g \in Officers : office'[g].payout = q => g # f /\ office'[g] = office[g]
      BY <1>8, NoTaskIs
    <2>3. CASE q # p
      <3>1. Deductions(q)' = Deductions(q)
        BY <1>6, <2>3 DEF Deductions
      <3> QED
        BY <2>1, <2>2, <3>1
    <2>4. CASE q = p
      <3>1. Deductions(p) = {}
        BY <1>1, <1>2, <2>1, <2>4
      <3>2. copy = 1
        BY <1>3, <3>1, FS_EmptySet
      <3>3. Deductions(q)' = {new}
        BY <1>6, <2>4, <3>1 DEF Deductions
      <3>4. \A g \in Officers : office'[g].payout # q
        <4>1. \A g \in Officers : g # f => office[g].payout # p
          BY <1>2, <2>4 DEF SupplierInv, TasksApart, CalmOf
        <4> QED
          BY <2>2, <2>4, <4>1
      <3>5. Offsets(q) = {}
        BY <2>1, <2>4, <3>1
      <3> QED
        BY <1>6, <3>2, <3>3, <3>4, <3>5
    <2> QED
      BY <2>3, <2>4
  <1> QED
    BY <1>1, <1>7, <1>9, TaxKeeps

LEMMA TaxCertified ==
  ASSUME SupplierInv, NEW f \in Officers, NEW d \in withholding, IssueCertificate(f, d)
  PROVE  SupplierInv'
  <1> USE SupplierAssumption
  <1>1. /\ UNCHANGED <<bill, slip, credit>> /\ Done(f)
        /\ withholding' = (withholding \ {d}) \cup {[d EXCEPT !.number = office[f].number]}
    BY DEF IssueCertificate
  <1> PICK new : new = [d EXCEPT !.number = office[f].number]
    OBVIOUS
  <1>2. d \in [payout : Payouts, copy : 1..MaxCopies, number : Nat] /\ office[f].number \in Nat
    BY DEF SupplierInv, SupplierTypeOK
  <1>3. /\ new \in [payout : Payouts, copy : 1..MaxCopies, number : Nat]
        /\ new.payout = d.payout /\ new.copy = d.copy
        /\ withholding' = (withholding \ {d}) \cup {new}
    BY <1>1, <1>2
  <1>4. withholding' \subseteq [payout : Payouts, copy : 1..MaxCopies, number : Nat]
    BY <1>3 DEF SupplierInv, SupplierTypeOK
  <1>5. IsFiniteSet(withholding')
    <2>1. IsFiniteSet(withholding \ {d})
      BY FS_RemoveElement DEF SupplierInv
    <2> QED
      BY <1>3, <2>1, FS_AddElement
  <1>6. \A g \in Officers : office'[g] = IF g = f THEN NoTask ELSE office[g]
    BY <1>1, DoneIs
  <1>7. DeductedOnce'
    <2> SUFFICES ASSUME NEW q \in Calm \cap Payouts
                 PROVE  /\ \A a, e \in Deductions(q)' : a = e /\ a.copy = 1
                        /\ \A g \in Officers : office'[g].payout = q =>
                             /\ office'[g].step = "record" => Deductions(q)' = {}
                             /\ office'[g].step = "return" =>
                                  Deductions(q)' # {} /\ Offsets(q) = {} /\ office'[g].copy = 1
                        /\ \A e \in Offsets(q) : /\ Deductions(q)' # {} /\ credit[e].copy = 1
                                                 /\ credit[e].offset <= Withheld[q]
                                                 /\ \A a \in Offsets(q) : a = e
      BY <1>1 DEF DeductedOnce, Offsets
    <2>1. /\ \A a, e \in Deductions(q) : a = e /\ a.copy = 1
          /\ \A g \in Officers : office[g].payout = q =>
               /\ office[g].step = "record" => Deductions(q) = {}
               /\ office[g].step = "return" =>
                    Deductions(q) # {} /\ Offsets(q) = {} /\ office[g].copy = 1
          /\ \A e \in Offsets(q) : /\ Deductions(q) # {} /\ credit[e].copy = 1
                                   /\ credit[e].offset <= Withheld[q]
                                   /\ \A a \in Offsets(q) : a = e
      BY DEF SupplierInv, DeductedOnce
    <2>2. \A g \in Officers : office'[g].payout = q => office'[g] = office[g]
      BY <1>6, NoTaskIs
    <2>3. CASE q # d.payout
      <3>1. Deductions(q)' = Deductions(q)
        BY <1>3, <2>3 DEF Deductions
      <3> QED
        BY <2>1, <2>2, <3>1
    <2>4. CASE q = d.payout
      <3>1. d \in Deductions(q)
        BY <2>4 DEF Deductions
      <3>2. Deductions(q)' = {new}
        <4>1. \A a \in withholding : a.payout = q => a = d
          BY <2>1, <3>1 DEF Deductions
        <4> QED
          BY <1>3, <2>4, <4>1 DEF Deductions
      <3> QED
        BY <1>3, <2>1, <2>2, <3>1, <3>2
    <2> QED
      BY <2>3, <2>4
  <1> QED
    BY <1>1, <1>4, <1>5, <1>7, TaxKeeps

LEMMA SupplierStepInv == SupplierInv /\ [SupplierNext]_supplierVars => SupplierInv'
  <1> SUFFICES ASSUME SupplierInv, [SupplierNext]_supplierVars PROVE SupplierInv'
    OBVIOUS
  <1>1. CASE \/ \E b \in Bills : RecordBill(b)
             \/ \E s \in Slips : CaptureSlip(s) \/ ScanSlip(s) \/ ReadScan(s) \/ VerifySlip(s)
             \/ \E s \in Slips, b \in Bills : Match(s, b)
    BY <1>1, PaperMoves
  <1>2. CASE \E c \in Returns : CaptureReturn(c)
    BY <1>2, NoteCaptured
  <1>3. CASE \E f \in Officers : InOffice(f)
    <2> PICK f \in Officers : InOffice(f)
      BY <1>3
    <2>1. CASE ReturnCommit(f)
      BY <2>1, NoteCommitted
    <2>2. CASE RecordDeduction(f)
      BY <2>2, TaxRecorded
    <2>3. CASE \E d \in withholding : CertificateRead(f, d) \/ IssueCertificate(f, d)
      BY <2>3, OfficeReads, TaxCertified
    <2>4. CASE \/ \E p \in Payouts : RecordRead(f, p)
               \/ \E c \in Returns, s \in Slips \cup {Nothing}, b \in Bills \cup {Nothing},
                     p \in Payouts \cup {Nothing}, n \in 0..MaxCopies : ReturnRead(f, c, s, b, p, n)
      BY <2>4, OfficeReads
    <2> QED
      BY <2>1, <2>2, <2>3, <2>4 DEF InOffice
  <1>4. CASE UNCHANGED supplierVars
    <2>1. UNCHANGED <<bill, slip, credit, withholding, office>>
      BY <1>4 DEF supplierVars
    <2>2. \A s \in Slips : Captured(s)' <=> Captured(s)
      BY <2>1 DEF Captured
    <2>3. SupplierTypeOK'
      BY <2>1 DEF SupplierInv, SupplierTypeOK
    <2> QED
      BY <2>1, <2>2, <2>3, PaperKeeps
  <1> QED
    BY <1>1, <1>2, <1>3, <1>4 DEF SupplierNext

\* The rows of the suppliers' receipts are the ones that the schema describes.
THEOREM SupplierTypes == SupplierSpec => []SupplierTypeOK
  <1>1. SupplierInv => SupplierTypeOK
    BY DEF SupplierInv
  <1> QED
    BY <1>1, SupplierInitInv, SupplierStepInv, PTL DEF SupplierSpec

\* In whatever order receipts, matches and credit notes come, a purchase that
\* is neither exposed nor flagged for its amount is supported by what was
\* captured, or credited in full (exposureSummary).
THEOREM SupplierUnflaggedIsSupported == SupplierSpec => []UnflaggedIsSupported
  <1>1. SupplierInv => UnflaggedIsSupported
    <2> USE SupplierAssumption
    <2> SUFFICES ASSUME SupplierInv, Returns \subseteq Calm, NEW b \in Bills,
                        bill[b].recorded, Exposure(b) = 0, ~bill[b].mismatch, ~Supported(b)
                 PROVE  CreditedTo(b) >= BillTotal[b]
      BY DEF UnflaggedIsSupported
    <2> PICK notes : notes = Matched({c \in Returns : credit[c].bill = b})
      OBVIOUS
    <2>1. notes \subseteq NotesCaptured /\ notes \subseteq Returns
      BY DEF Matched, NotesCaptured
    <2>2. IsFiniteSet(notes)
      BY <2>1, FS_Subset DEF SupplierInv
    <2>3. \A c \in notes : ReturnAmount[c] \in Nat
      BY <2>1
    <2>4. SumFunctionOnSet(ReturnAmount, notes) \in Nat
      BY <2>2, <2>3, SumIsNat
    <2>5. CreditedTo(b) \in Nat /\ BillTotal[b] \in Nat
      BY <2>4 DEF CreditedTo
    <2>6. CASE bill[b].unmatched
      BY <2>5, <2>6 DEF Exposure
    <2>7. CASE ~bill[b].unmatched
      <3>1. BillTotal[b] = 0
        BY <2>7 DEF SupplierInv, SupportKept
      <3> QED
        BY <2>5, <3>1
    <2> QED
      BY <2>6, <2>7
  <1> QED
    BY <1>1, SupplierInitInv, SupplierStepInv, PTL DEF SupplierSpec

\* What is offset of a payment is never more than was withheld from it, when
\* requests about it do not overlap (remittanceSummary).
THEOREM SupplierRemittable == SupplierSpec => []RemittableNotNegative
  <1>1. SupplierInv => RemittableNotNegative
    <2> USE SupplierAssumption
    <2> SUFFICES ASSUME SupplierInv, NEW p \in Calm \cap Payouts PROVE Remittable(p) >= 0
      BY DEF RemittableNotNegative
    <2>0. /\ \A d, e \in Deductions(p) : d = e /\ d.copy = 1
          /\ \A c \in Offsets(p) : /\ Deductions(p) # {} /\ credit[c].copy = 1
                                   /\ credit[c].offset <= Withheld[p]
                                   /\ \A e \in Offsets(p) : e = c
      BY DEF SupplierInv, DeductedOnce
    <2> PICK f : f = [c \in Matched(Offsets(p)) |-> credit[c].offset]
      OBVIOUS
    <2>1. Withheld[p] \in Nat /\ DOMAIN f = Matched(Offsets(p))
      OBVIOUS
    <2>2. Remittable(p) = Withheld[p] * Cardinality(Deductions(p)) - SumFunctionOnSet(f, DOMAIN f)
      BY DEF Remittable, SumFunction
    <2>3. IsFiniteSet(Deductions(p))
      <3>1. Deductions(p) \subseteq withholding
        BY DEF Deductions
      <3> QED
        BY <3>1, FS_Subset DEF SupplierInv
    <2> PICK n : n = Cardinality(Deductions(p))
      OBVIOUS
    <2>4. n \in Nat /\ Withheld[p] * n \in Nat
      BY <2>1, <2>3, FS_CardinalityType
    <2>5. CASE DOMAIN f = {}
      <3>1. SumFunctionOnSet(f, DOMAIN f) = 0
        BY <2>5, SumOfNothing
      <3> QED
        BY <2>2, <2>4, <3>1
    <2>6. CASE DOMAIN f # {}
      <3>1. PICK c : c \in Matched(Offsets(p))
        BY <2>1, <2>6
      <3>2. c \in Offsets(p) /\ c \in Returns
        BY <3>1 DEF Matched, Offsets
      <3>3. DOMAIN f = {c}
        BY <2>0, <2>1, <3>1, <3>2 DEF Matched
      <3>4. f[c] = credit[c].offset /\ credit[c].offset \in Nat /\ credit[c].offset <= Withheld[p]
        BY <2>0, <3>1, <3>2 DEF SupplierInv, SupplierTypeOK
      <3>5. SumFunctionOnSet(f, {c}) = f[c]
        <4>1. f[c] \in Int
          BY <3>4
        <4> QED
          BY <4>1, SumOfOne
      <3>6. n # 0
        <4>1. Deductions(p) # {}
          BY <2>0, <3>2
        <4>2. Cardinality(Deductions(p)) = 0 <=> Deductions(p) = {}
          BY <2>3, FS_EmptySet
        <4> QED
          BY <4>1, <4>2
      <3>7. Withheld[p] * n >= Withheld[p]
        <4>1. PICK m \in Nat : n = m + 1
          <5>1. n - 1 \in Nat /\ n = (n - 1) + 1
            BY <2>4, <3>6
          <5> QED
            BY <5>1
        <4>2. Withheld[p] * n = Withheld[p] * m + Withheld[p] /\ Withheld[p] * m \in Nat
          BY <2>1, <4>1
        <4> QED
          BY <2>1, <4>2
      <3> QED
        BY <2>1, <2>2, <2>4, <3>3, <3>4, <3>5, <3>7
    <2> QED
      BY <2>5, <2>6
  <1> QED
    BY <1>1, SupplierInitInv, SupplierStepInv, PTL DEF SupplierSpec

-----------------------------------------------------------------------------
(* Bulk import                                                             *)

\* The number that a handler call has looked up.
Sought(m) == NumberOf[Current(m)]

\* Nobody else looks up a quiet number that is about to be inserted, and it is
\* not there yet.
LookedUp ==
    \A n \in Quiet :
      /\ captured[n] <= 1
      /\ \A k \in Clerks : clerk[k].number = n =>
           /\ captured[n] = 0
           /\ \A j \in Clerks : clerk[j].number = n => j = k
           /\ \A m \in Importers : importer[m].step = "insert" => Sought(m) # n
      /\ \A m \in Importers : importer[m].step = "insert" /\ Sought(m) = n =>
           /\ captured[n] = 0
           /\ \A j \in Importers : importer[j].step = "insert" /\ Sought(j) = n => j = m

\* A row is marked after its receipt.
Marking ==
    \A m \in Importers : importer[m].step = "mark" /\ Current(m) \in Rows =>
      captured[Sought(m)] >= 1

RowsBacked ==
    \A u \in Uploads, r \in Rows :
      item[u][r] \in {"PROCESSED", "DUPLICATE"} => captured[NumberOf[r]] >= 1

ImporterType ==
    importer \in [Importers -> [step : {"idle", "read", "check", "insert", "mark", "done"},
                                upload : Uploads \cup {NoUpload},
                                todo : SUBSET Rows, done : Nat]]
ClerkType ==
    clerk \in [Clerks -> [step : {"idle", "capture", "retry", "enqueue"},
                          upload : Uploads \cup {NoUpload},
                          number : Numbers \cup {NoNumber}]]
TablesType ==
    /\ upload \in [Uploads -> [status : UploadStatus, processed : Nat]]
    /\ item \in [Uploads -> [Rows -> ItemStatus]]
    /\ captured \in [Numbers -> Nat]
    /\ known \subseteq Numbers /\ event \subseteq Uploads
    /\ faults \in 0..MaxFaults

\* A call that works has an upload, and a request at its second statement its own.
Aims ==
    /\ \A m \in Importers : importer[m].step # "idle" => importer[m].upload \in Uploads
    /\ \A k \in Clerks : clerk[k].step \in {"retry", "enqueue"} => clerk[k].upload \in Uploads
    /\ \A k \in Clerks : clerk[k].step = "capture" => clerk[k].number \in Numbers

BulkInv == TablesType /\ ImporterType /\ ClerkType /\ Aims /\ LookedUp /\ Marking /\ RowsBacked

LEMMA BulkInitInv == BulkInit => BulkInv
  <1> SUFFICES ASSUME BulkInit PROVE BulkInv
    OBVIOUS
  <1> USE BulkAssumption
  <1>1. TablesType /\ ImporterType /\ ClerkType
    BY DEF BulkInit, TablesType, ImporterType, ClerkType, UploadStatus, ItemStatus,
           NotImporting, AtDesk
  <1>2. Aims /\ Marking /\ RowsBacked
    BY DEF BulkInit, Aims, Marking, RowsBacked, NotImporting, AtDesk
  <1>3. LookedUp
    BY DEF BulkInit, LookedUp, NotImporting, AtDesk
  <1>4. QED
    BY <1>1, <1>2, <1>3 DEF BulkInv

\* A request that begins or ends nothing about a number.
LEMMA ClerksMove ==
  ASSUME BulkInv, NEW k \in Clerks, UNCHANGED <<captured, importer>>,
         NEW task \in [step : {"idle", "capture", "retry", "enqueue"},
                       upload : Uploads \cup {NoUpload}, number : Numbers \cup {NoNumber}],
         clerk' = [clerk EXCEPT ![k] = task],
         task.step # "capture", task.number = NoNumber \/ task.number = clerk[k].number,
         task.step \in {"retry", "enqueue"} => task.upload \in Uploads
  PROVE  ImporterType' /\ ClerkType' /\ Aims' /\ LookedUp' /\ Marking'
  <1> USE BulkAssumption
  <1>1. \A j \in Clerks : clerk'[j] = IF j = k THEN task ELSE clerk[j]
    BY DEF BulkInv, ClerkType
  <1>2. ImporterType' /\ ClerkType'
    BY DEF BulkInv, ImporterType, ClerkType
  <1>3. Aims'
    BY <1>1 DEF BulkInv, Aims
  <1>4. LookedUp'
    BY <1>1 DEF BulkInv, LookedUp, Sought, Current
  <1>5. Marking'
    BY DEF BulkInv, Marking, Sought, Current
  <1>6. QED
    BY <1>2, <1>3, <1>4, <1>5

LEMMA ClerkKeeps ==
  ASSUME BulkInv, NEW k \in Clerks,
         \/ \E n \in Numbers : CaptureRead(k, n)
         \/ \E u \in Uploads : Upload(k, u) \/ RetryRead(k, u)
         \/ CaptureInsert(k) \/ RetryCommit(k) \/ EnqueueImport(k) \/ ClerkDies(k)
  PROVE  BulkInv'
  <1> USE BulkAssumption
  <1> DEFINE ClerkRow == [step : {"idle", "capture", "retry", "enqueue"},
                          upload : Uploads \cup {NoUpload}, number : Numbers \cup {NoNumber}]
  <1>1. ASSUME NEW n \in Numbers, CaptureRead(k, n) PROVE BulkInv'
    <2> DEFINE task == [AtDesk EXCEPT !.step = "capture", !.number = n]
    <2>1. /\ clerk' = [clerk EXCEPT ![k] = task]
          /\ captured[n] = 0
          /\ n \in Quiet => n \notin Pending
          /\ UNCHANGED <<upload, item, captured, known, event, importer, faults>>
      BY <1>1 DEF CaptureRead, Serve
    <2>2. task \in ClerkRow /\ task.step = "capture" /\ task.number = n
      BY DEF AtDesk
    <2> HIDE DEF task
    <2>3. TablesType' /\ ImporterType' /\ ClerkType' /\ RowsBacked' /\ Marking'
      BY <2>1, <2>2 DEF BulkInv, TablesType, ImporterType, ClerkType, RowsBacked, Marking,
                        Sought, Current
    <2>4. \A j \in Clerks : clerk'[j] = IF j = k THEN task ELSE clerk[j]
      BY <2>1 DEF BulkInv, ClerkType
    <2>5. Aims'
      BY <2>1, <2>2, <2>4 DEF BulkInv, Aims
    <2>6. n \in Quiet => /\ \A j \in Clerks : clerk[j].number # n
                         /\ \A m \in Importers : importer[m].step = "insert" => Sought(m) # n
      BY <2>1 DEF Pending, Sought
    <2>7. LookedUp'
      BY <2>1, <2>2, <2>4, <2>6 DEF BulkInv, LookedUp, Sought, Current
    <2>8. QED
      BY <2>3, <2>5, <2>7 DEF BulkInv
  <1>2. ASSUME NEW u \in Uploads, Upload(k, u) PROVE BulkInv'
    <2> DEFINE task == [AtDesk EXCEPT !.step = "enqueue", !.upload = u]
    <2>1. /\ clerk' = [clerk EXCEPT ![k] = task]
          /\ item' = [item EXCEPT ![u] = [r \in Rows |-> "QUEUED"]]
          /\ upload' = [upload EXCEPT ![u].status = "UPLOADED"]
          /\ UNCHANGED <<captured, known, event, importer, faults>>
      BY <1>2 DEF Upload, Serve
    <2>2. /\ task \in ClerkRow /\ task.step = "enqueue" /\ task.upload = u
          /\ task.number = NoNumber
      BY DEF AtDesk
    <2> HIDE DEF task
    <2>3. ImporterType' /\ ClerkType' /\ Aims' /\ LookedUp' /\ Marking'
      BY <2>1, <2>2, ClerksMove
    <2>4. TablesType'
      BY <2>1 DEF BulkInv, TablesType, UploadStatus, ItemStatus
    <2>5. RowsBacked'
      BY <2>1 DEF BulkInv, TablesType, RowsBacked
    <2>6. QED
      BY <2>3, <2>4, <2>5 DEF BulkInv
  <1>3. ASSUME NEW u \in Uploads, RetryRead(k, u) PROVE BulkInv'
    <2> DEFINE task == [AtDesk EXCEPT !.step = "retry", !.upload = u]
    <2>1. /\ clerk' = [clerk EXCEPT ![k] = task]
          /\ UNCHANGED <<upload, item, captured, known, event, importer, faults>>
      BY <1>3 DEF RetryRead, Serve
    <2>2. /\ task \in ClerkRow /\ task.step = "retry" /\ task.upload = u
          /\ task.number = NoNumber
      BY DEF AtDesk
    <2> HIDE DEF task
    <2>3. ImporterType' /\ ClerkType' /\ Aims' /\ LookedUp' /\ Marking'
      BY <2>1, <2>2, ClerksMove
    <2>4. TablesType' /\ RowsBacked'
      BY <2>1 DEF BulkInv, TablesType, RowsBacked
    <2>5. QED
      BY <2>3, <2>4 DEF BulkInv
  <1>4. AtDesk \in ClerkRow /\ AtDesk.step = "idle" /\ AtDesk.number = NoNumber
    BY DEF AtDesk
  <1>5. ASSUME CaptureInsert(k) PROVE BulkInv'
    <2> DEFINE n == clerk[k].number
    <2>1. /\ clerk' = [clerk EXCEPT ![k] = AtDesk]
          /\ captured' = [captured EXCEPT ![n] = @ + 1]
          /\ n \in Numbers
          /\ UNCHANGED <<upload, item, known, event, importer, faults>>
      BY <1>5 DEF CaptureInsert, Served, BulkInv, Aims
    <2>2. TablesType' /\ ImporterType' /\ ClerkType'
      BY <1>4, <2>1 DEF BulkInv, TablesType, ImporterType, ClerkType
    <2>3. \A j \in Clerks : clerk'[j] = IF j = k THEN AtDesk ELSE clerk[j]
      BY <2>1 DEF BulkInv, ClerkType
    <2>4. \A x \in Numbers : captured'[x] = IF x = n THEN captured[x] + 1 ELSE captured[x]
      BY <2>1 DEF BulkInv, TablesType
    <2>5. Aims'
      BY <1>4, <2>1, <2>3 DEF BulkInv, Aims
    <2>6. LookedUp'
      BY <1>4, <2>1, <2>3, <2>4 DEF BulkInv, TablesType, LookedUp, Sought, Current
    <2>7. Marking' /\ RowsBacked'
      BY <2>1, <2>4 DEF BulkInv, TablesType, Marking, RowsBacked, Sought, Current
    <2>8. QED
      BY <2>2, <2>5, <2>6, <2>7 DEF BulkInv
  <1>6. ASSUME RetryCommit(k) PROVE BulkInv'
    <2> DEFINE u == clerk[k].upload
               task == [clerk[k] EXCEPT !.step = "enqueue"]
    <2>1. /\ clerk' = [clerk EXCEPT ![k] = task]
          /\ item' = [item EXCEPT ![u] = [r \in Rows |-> IF @[r] = "ERROR" THEN "QUEUED" ELSE @[r]]]
          /\ upload' = [upload EXCEPT ![u].status = "UPLOADED"]
          /\ u \in Uploads
          /\ UNCHANGED <<captured, known, event, importer, faults>>
      BY <1>6 DEF RetryCommit, Retried, BulkInv, Aims, ClerkType
    <2>2. /\ task \in ClerkRow /\ task.step = "enqueue" /\ task.upload = u
          /\ task.number = clerk[k].number
      BY DEF BulkInv, ClerkType
    <2> HIDE DEF task
    <2>3. ImporterType' /\ ClerkType' /\ Aims' /\ LookedUp' /\ Marking'
      BY <2>1, <2>2, ClerksMove
    <2>4. TablesType'
      BY <2>1 DEF BulkInv, TablesType, UploadStatus, ItemStatus
    <2>5. RowsBacked'
      BY <2>1 DEF BulkInv, TablesType, RowsBacked
    <2>6. QED
      BY <2>3, <2>4, <2>5 DEF BulkInv
  <1>7. ASSUME EnqueueImport(k) PROVE BulkInv'
    <2>1. /\ clerk' = [clerk EXCEPT ![k] = AtDesk]
          /\ event' = event \cup {clerk[k].upload}
          /\ clerk[k].upload \in Uploads
          /\ UNCHANGED <<upload, item, captured, known, importer, faults>>
      BY <1>7 DEF EnqueueImport, Served, BulkInv, Aims
    <2>2. ImporterType' /\ ClerkType' /\ Aims' /\ LookedUp' /\ Marking'
      BY <1>4, <2>1, ClerksMove
    <2>3. TablesType' /\ RowsBacked'
      BY <2>1 DEF BulkInv, TablesType, RowsBacked
    <2>4. QED
      BY <2>2, <2>3 DEF BulkInv
  <1>8. ASSUME ClerkDies(k) PROVE BulkInv'
    <2>1. /\ clerk' = [clerk EXCEPT ![k] = AtDesk]
          /\ faults < MaxFaults /\ faults' = faults + 1
          /\ UNCHANGED <<upload, item, captured, known, event, importer>>
      BY <1>8 DEF ClerkDies, Served
    <2>2. ImporterType' /\ ClerkType' /\ Aims' /\ LookedUp' /\ Marking'
      BY <1>4, <2>1, ClerksMove
    <2>3. TablesType' /\ RowsBacked'
      BY <2>1 DEF BulkInv, TablesType, RowsBacked
    <2>4. QED
      BY <2>2, <2>3 DEF BulkInv
  <1>9. QED
    BY <1>1, <1>2, <1>3, <1>5, <1>6, <1>7, <1>8

\* A call that is not about to insert or to mark.
LEMMA ImportersMove ==
  ASSUME BulkInv, NEW m \in Importers, UNCHANGED <<captured, clerk>>,
         NEW at \in [step : {"idle", "read", "check", "insert", "mark", "done"},
                     upload : Uploads \cup {NoUpload}, todo : SUBSET Rows, done : Nat],
         importer' = [importer EXCEPT ![m] = at],
         at.step \notin {"insert", "mark"},
         at.step # "idle" => at.upload \in Uploads
  PROVE  ImporterType' /\ ClerkType' /\ Aims' /\ LookedUp' /\ Marking'
  <1> USE BulkAssumption
  <1>1. \A j \in Importers : importer'[j] = IF j = m THEN at ELSE importer[j]
    BY DEF BulkInv, ImporterType
  <1>2. ImporterType' /\ ClerkType'
    BY DEF BulkInv, ImporterType, ClerkType
  <1>3. Aims'
    BY <1>1 DEF BulkInv, Aims
  <1>4. LookedUp'
    BY <1>1 DEF BulkInv, LookedUp, Sought, Current
  <1>5. Marking'
    BY <1>1 DEF BulkInv, Marking, Sought, Current
  <1>6. QED
    BY <1>2, <1>3, <1>4, <1>5

LEMMA NotImportingIs ==
  /\ NotImporting \in [step : {"idle", "read", "check", "insert", "mark", "done"},
                       upload : Uploads \cup {NoUpload}, todo : SUBSET Rows, done : Nat]
  /\ NotImporting.step = "idle"
  BY DEF NotImporting

\* The current row is settled, as handled only when its receipt is there.
LEMMA Settles ==
  ASSUME BulkInv, NEW m \in Importers, NEW mark \in {"DUPLICATE", "PROCESSED", "ERROR"},
         NEW counted \in BOOLEAN, importer[m].step # "idle", Settle(m, mark, counted),
         UNCHANGED <<upload, captured, known, event, clerk>>, faults' \in 0..MaxFaults,
         mark # "ERROR" /\ Current(m) \in Rows => captured[Sought(m)] >= 1
  PROVE  BulkInv'
  <1> USE BulkAssumption
  <1> DEFINE r == Current(m)
             u == importer[m].upload
             rest == importer[m].todo \ {r}
             done == importer[m].done + (IF counted THEN 1 ELSE 0)
             at == [importer[m] EXCEPT !.step = "check", !.todo = rest, !.done = done]
  <1>1. /\ item' = [item EXCEPT ![u][r] = mark]
        /\ importer' = [importer EXCEPT ![m] = at]
    BY DEF Settle, BulkInv, ImporterType
  <1>2. /\ at \in [step : {"idle", "read", "check", "insert", "mark", "done"},
                   upload : Uploads \cup {NoUpload}, todo : SUBSET Rows, done : Nat]
        /\ at.step = "check" /\ at.upload = u /\ u \in Uploads
    <2>1. importer[m] \in [step : {"idle", "read", "check", "insert", "mark", "done"},
                           upload : Uploads \cup {NoUpload}, todo : SUBSET Rows, done : Nat]
      BY DEF BulkInv, ImporterType
    <2>2. rest \in SUBSET Rows /\ done \in Nat
      BY <2>1
    <2>3. u \in Uploads
      BY DEF BulkInv, Aims
    <2> HIDE DEF rest, done
    <2>4. QED
      BY <2>1, <2>2, <2>3
  <1> HIDE DEF at
  <1>3. ImporterType' /\ ClerkType' /\ Aims' /\ LookedUp' /\ Marking'
    BY <1>1, <1>2, ImportersMove
  <1>4. TablesType'
    BY <1>1, <1>2 DEF BulkInv, TablesType, ItemStatus
  <1>5. RowsBacked'
    BY <1>1, <1>2 DEF BulkInv, TablesType, RowsBacked, Sought
  <1>6. QED
    BY <1>3, <1>4, <1>5 DEF BulkInv

\* The next statement is about the same row.
LEMMA SameRow ==
  ASSUME BulkInv, NEW m \in Importers, NEW step, Works(m, step)
  PROVE  /\ \A j \in Importers : /\ Current(j)' = Current(j)
                                 /\ importer'[j].upload = importer[j].upload
                                 /\ importer'[j].step = IF j = m THEN step ELSE importer[j].step
         /\ step \in {"idle", "read", "check", "insert", "mark", "done"} => ImporterType'
  BY DEF BulkInv, ImporterType, Works, Current

LEMMA HandlerKeeps ==
  ASSUME BulkInv, NEW m \in Importers, Importing(m)
  PROVE  BulkInv'
  <1> USE BulkAssumption
  <1> DEFINE ImporterRow == [step : {"idle", "read", "check", "insert", "mark", "done"},
                             upload : Uploads \cup {NoUpload}, todo : SUBSET Rows, done : Nat]
  <1>1. ASSUME NEW u \in Uploads, StartImport(m, u) PROVE BulkInv'
    <2>1. CASE upload[u].status = "COMPLETED"
      BY <1>1, <2>1 DEF StartImport, BulkInv, TablesType, ImporterType, ClerkType, Aims, LookedUp,
                        Marking, RowsBacked, Sought, Current
    <2>2. CASE upload[u].status # "COMPLETED"
      <3> DEFINE at == [step |-> "read", upload |-> u, todo |-> {}, done |-> 0]
      <3>1. /\ importer' = [importer EXCEPT ![m] = at]
            /\ upload' = [upload EXCEPT ![u].status = "PROCESSING"]
            /\ UNCHANGED <<item, captured, known, event, clerk, faults>>
        BY <1>1, <2>2 DEF StartImport
      <3>2. at \in ImporterRow /\ at.step = "read" /\ at.upload = u
        OBVIOUS
      <3> HIDE DEF at
      <3>3. ImporterType' /\ ClerkType' /\ Aims' /\ LookedUp' /\ Marking'
        BY <3>1, <3>2, ImportersMove
      <3>4. TablesType' /\ RowsBacked'
        BY <3>1 DEF BulkInv, TablesType, RowsBacked, UploadStatus
      <3>5. QED
        BY <3>3, <3>4 DEF BulkInv
    <2>3. QED
      BY <2>1, <2>2
  <1>2. ASSUME ReadItems(m) PROVE BulkInv'
    <2> DEFINE rows == FirstRows(RowsWith(importer[m].upload, "QUEUED"))
               at   == [importer[m] EXCEPT !.step = "check", !.todo = rows]
    <2>1. /\ importer' = [importer EXCEPT ![m] = at]
          /\ importer[m].step = "read"
          /\ UNCHANGED <<upload, item, captured, known, event, clerk, faults>>
      BY <1>2 DEF ReadItems, BulkInv, ImporterType
    <2>2. rows \subseteq Rows
      BY DEF FirstRows, RowsWith
    <2> HIDE DEF rows
    <2>3. at \in ImporterRow /\ at.step = "check" /\ at.upload \in Uploads
      BY <2>1, <2>2 DEF BulkInv, ImporterType, Aims
    <2> HIDE DEF at
    <2>4. ImporterType' /\ ClerkType' /\ Aims' /\ LookedUp' /\ Marking'
      BY <2>1, <2>3, ImportersMove
    <2>5. TablesType' /\ RowsBacked'
      BY <2>1 DEF BulkInv, TablesType, RowsBacked
    <2>6. QED
      BY <2>4, <2>5 DEF BulkInv
  <1>3. ASSUME CheckItem(m) PROVE BulkInv'
    <2> DEFINE n == NumberOf[Current(m)]
    <2>1. /\ importer[m].step = "check"
          /\ n \in Quiet => n \notin Pending
          /\ UNCHANGED <<upload, captured, known, event, clerk, faults>>
      BY <1>3 DEF CheckItem
    <2>2. faults' \in 0..MaxFaults
      BY <2>1 DEF BulkInv, TablesType
    <2>3. CASE Duplicate(n)
      <3>1. Settle(m, "DUPLICATE", TRUE)
        BY <1>3, <2>3 DEF CheckItem
      <3>2. ASSUME Current(m) \in Rows PROVE captured[Sought(m)] >= 1
        <4>1. n \in Numbers /\ captured[n] \in Nat
          BY <3>2 DEF BulkInv, TablesType
        <4>2. captured[n] > 0
          BY <2>3 DEF Duplicate
        <4>3. QED
          BY <4>1, <4>2 DEF Sought
      <3>3. QED
        BY <2>1, <2>2, <3>1, <3>2, Settles
    <2>4. CASE ~Duplicate(n) /\ n \notin known
      <3>1. Settle(m, "ERROR", FALSE)
        BY <1>3, <2>4 DEF CheckItem
      <3>2. QED
        BY <2>1, <2>2, <3>1, Settles
    <2>5. CASE ~Duplicate(n) /\ n \in known
      <3>1. Works(m, "insert") /\ UNCHANGED item
        BY <1>3, <2>5 DEF CheckItem
      <3>2. /\ \A j \in Importers :
                 /\ Current(j)' = Current(j)
                 /\ importer'[j].upload = importer[j].upload
                 /\ importer'[j].step = IF j = m THEN "insert" ELSE importer[j].step
            /\ ImporterType'
        BY <3>1, SameRow
      <3>3. n \in Quiet => /\ captured[n] = 0
                           /\ \A k \in Clerks : clerk[k].number # n
                           /\ \A j \in Importers : importer[j].step = "insert" => Sought(j) # n
        BY <2>1, <2>5 DEF Duplicate, Pending, Sought, BulkInv, TablesType
      <3>4. TablesType' /\ ClerkType' /\ RowsBacked'
        BY <2>1, <3>1 DEF BulkInv, TablesType, ClerkType, RowsBacked
      <3>5. Aims'
        BY <2>1, <3>2 DEF BulkInv, Aims
      <3>6. LookedUp'
        BY <2>1, <3>2, <3>3 DEF BulkInv, LookedUp, Sought
      <3>7. Marking'
        BY <2>1, <3>2 DEF BulkInv, Marking, Sought
      <3>8. QED
        BY <3>2, <3>4, <3>5, <3>6, <3>7 DEF BulkInv
    <2>6. QED
      BY <2>3, <2>4, <2>5
  <1>4. ASSUME InsertReceipt(m) PROVE BulkInv'
    <2> DEFINE n == NumberOf[Current(m)]
    <2>1. /\ importer[m].step = "insert" /\ Works(m, "mark")
          /\ captured' = [captured EXCEPT ![n] = @ + 1]
          /\ UNCHANGED <<upload, item, known, event, clerk, faults>>
      BY <1>4 DEF InsertReceipt
    <2>2. /\ \A j \in Importers :
               /\ Current(j)' = Current(j)
               /\ importer'[j].upload = importer[j].upload
               /\ importer'[j].step = IF j = m THEN "mark" ELSE importer[j].step
          /\ ImporterType'
      BY <2>1, SameRow
    <2> HIDE DEF n
    <2>3. /\ captured' \in [Numbers -> Nat]
          /\ \A x \in Numbers : captured'[x] = IF x = n THEN captured[x] + 1 ELSE captured[x]
      <3>1. CASE n \in Numbers
        BY <2>1, <3>1 DEF BulkInv, TablesType
      <3>2. CASE n \notin Numbers
        <4>1. captured' = captured
          BY <2>1, <3>2, Zenon DEF BulkInv, TablesType
        <4>2. QED
          BY <3>2, <4>1 DEF BulkInv, TablesType
      <3>3. QED
        BY <3>1, <3>2
    <2>4. TablesType' /\ ClerkType' /\ RowsBacked'
      BY <2>1, <2>3 DEF BulkInv, TablesType, ClerkType, RowsBacked
    <2>5. Aims'
      BY <2>1, <2>2 DEF BulkInv, Aims
    <2>6. LookedUp'
      BY <2>1, <2>2, <2>3 DEF BulkInv, TablesType, LookedUp, Sought, n
    <2>7. Marking'
      BY <2>1, <2>2, <2>3 DEF BulkInv, TablesType, Marking, Sought, n
    <2>8. QED
      BY <2>2, <2>4, <2>5, <2>6, <2>7 DEF BulkInv
  <1>5. ASSUME MarkItem(m) PROVE BulkInv'
    <2>1. /\ importer[m].step = "mark" /\ Settle(m, "PROCESSED", TRUE)
          /\ UNCHANGED <<upload, captured, known, event, clerk, faults>>
      BY <1>5 DEF MarkItem
    <2>2. faults' \in 0..MaxFaults /\ (Current(m) \in Rows => captured[Sought(m)] >= 1)
      BY <2>1 DEF BulkInv, TablesType, Marking
    <2>3. QED
      BY <2>1, <2>2, Settles
  <1>6. ASSUME ItemFails(m) PROVE BulkInv'
    <2>1. /\ importer[m].step # "idle" /\ Settle(m, "ERROR", FALSE)
          /\ faults < MaxFaults /\ faults' = faults + 1
          /\ UNCHANGED <<upload, captured, known, event, clerk>>
      BY <1>6 DEF ItemFails
    <2>2. faults' \in 0..MaxFaults
      BY <2>1 DEF BulkInv, TablesType
    <2>3. QED
      BY <2>1, <2>2, Settles
  <1>7. ASSUME FinishImport(m) PROVE BulkInv'
    <2> DEFINE u == importer[m].upload
               done == importer[m].done
               at == [importer[m] EXCEPT !.step = "done"]
    <2>1. /\ upload' = [upload EXCEPT ![u].status = "COMPLETED", ![u].processed = @ + done]
          /\ importer' = [importer EXCEPT ![m] = at]
          /\ importer[m].step = "check"
          /\ UNCHANGED <<item, captured, known, event, clerk, faults>>
      BY <1>7 DEF FinishImport, Works, BulkInv, ImporterType
    <2>2. /\ at \in ImporterRow /\ at.step = "done" /\ at.upload = u
          /\ u \in Uploads /\ done \in Nat
      BY <2>1 DEF BulkInv, ImporterType, Aims
    <2> HIDE DEF at, done
    <2>3. ImporterType' /\ ClerkType' /\ Aims' /\ LookedUp' /\ Marking'
      BY <2>1, <2>2, ImportersMove
    <2>4. upload' \in [Uploads -> [status : UploadStatus, processed : Nat]]
      <3>0. /\ upload[u] \in [status : UploadStatus, processed : Nat]
            /\ "COMPLETED" \in UploadStatus /\ upload[u].processed + done \in Nat
        BY <2>2 DEF BulkInv, TablesType, UploadStatus
      <3>1. [upload[u] EXCEPT !.status = "COMPLETED", !.processed = @ + done]
              \in [status : UploadStatus, processed : Nat]
        BY <3>0
      <3>2. QED
        BY <2>1, <2>2, <3>1 DEF BulkInv, TablesType
    <2>5. TablesType' /\ RowsBacked'
      BY <2>1, <2>4 DEF BulkInv, TablesType, RowsBacked
    <2>6. QED
      BY <2>3, <2>5 DEF BulkInv
  <1>8. ASSUME EventDone(m) PROVE BulkInv'
    <2>1. /\ importer' = [importer EXCEPT ![m] = NotImporting]
          /\ event' = event \ {importer[m].upload}
          /\ UNCHANGED <<upload, item, captured, known, clerk, faults>>
      BY <1>8 DEF EventDone, Leaves
    <2>2. ImporterType' /\ ClerkType' /\ Aims' /\ LookedUp' /\ Marking'
      BY <2>1, NotImportingIs, ImportersMove
    <2>3. TablesType' /\ RowsBacked'
      BY <2>1 DEF BulkInv, TablesType, RowsBacked
    <2>4. QED
      BY <2>2, <2>3 DEF BulkInv
  <1>9. ASSUME ImporterDies(m) PROVE BulkInv'
    <2>1. /\ importer' = [importer EXCEPT ![m] = NotImporting]
          /\ event' \subseteq event /\ faults < MaxFaults /\ faults' = faults + 1
          /\ UNCHANGED <<upload, item, captured, known, clerk>>
      BY <1>9 DEF ImporterDies, Leaves
    <2>2. ImporterType' /\ ClerkType' /\ Aims' /\ LookedUp' /\ Marking'
      BY <2>1, NotImportingIs, ImportersMove
    <2>3. TablesType' /\ RowsBacked'
      BY <2>1 DEF BulkInv, TablesType, RowsBacked
    <2>4. QED
      BY <2>2, <2>3 DEF BulkInv
  <1>10. QED
    BY <1>1, <1>2, <1>3, <1>4, <1>5, <1>6, <1>7, <1>8, <1>9 DEF Importing

LEMMA BulkStepInv == BulkInv /\ [BulkNext]_bulkVars => BulkInv'
  <1> SUFFICES ASSUME BulkInv, [BulkNext]_bulkVars PROVE BulkInv'
    OBVIOUS
  <1>1. ASSUME NEW n \in Numbers, KnowSupplier(n) PROVE BulkInv'
    BY <1>1 DEF KnowSupplier, BulkInv, TablesType, ImporterType, ClerkType, Aims, LookedUp,
                Marking, RowsBacked, Sought, Current
  <1>2. CASE UNCHANGED bulkVars
    BY <1>2 DEF bulkVars, BulkInv, TablesType, ImporterType, ClerkType, Aims, LookedUp,
                Marking, RowsBacked, Sought, Current
  <1>3. QED
    BY <1>1, <1>2, ClerkKeeps, HandlerKeeps DEF BulkNext

\* Every variable of the import keeps its type.
THEOREM BulkTypes == BulkSpec => []BulkTypeOK
  <1>1. BulkInv => BulkTypeOK
    BY DEF BulkInv, TablesType, ImporterType, ClerkType, BulkTypeOK
  <1>2. QED
    BY <1>1, BulkInitInv, BulkStepInv, PTL DEF BulkSpec

\* Whatever uploads, retries, calls of the handler and faults do (bulkImport,
\* create), a receipt number that no two captures look up at once is captured
\* once, and a row that counts as handled has its receipt.
THEOREM BulkCapturedOnce == BulkSpec => []CapturedOnce
  <1>1. BulkInv => CapturedOnce
    BY DEF BulkInv, LookedUp, RowsBacked, CapturedOnce
  <1>2. QED
    BY <1>1, BulkInitInv, BulkStepInv, PTL DEF BulkSpec

\* A request that is about to queue an upload.
QueuedBy(u) == [AtDesk EXCEPT !.step = "enqueue", !.upload = u]

\* What a call knows of an upload that it alone handles: what it has counted is
\* handled, and the rows it has left are those that are queued.
CallCounts(m, u) ==
    /\ ~Retries(u) /\ importer[m].step # "idle"
    /\ upload[u].status = IF importer[m].step = "done" THEN "COMPLETED" ELSE "PROCESSING"
    /\ importer[m].step # "done" => upload[u].processed + importer[m].done <= Handled(u)
    /\ importer[m].todo \subseteq RowsWith(u, "QUEUED")
    /\ importer[m].step # "read" /\ Cardinality(Rows) <= Batch =>
         RowsWith(u, "QUEUED") \subseteq importer[m].todo

UploadKept(u) ==
    /\ upload[u].status = "NONE" => upload[u].processed = 0
    /\ \A m, n \in Importers : importer[m].upload = u /\ importer[n].upload = u => m = n
    /\ \A m \in Importers : importer[m].upload = u => CallCounts(m, u)

UploadAccounts(u) ==
    /\ upload[u].processed <= Handled(u)
    /\ upload[u].status = "COMPLETED" /\ Cardinality(Rows) <= Batch => RowsWith(u, "QUEUED") = {}
    /\ upload[u].status = "UPLOADED" => u \in event \/ \E k \in Clerks : clerk[k] = QueuedBy(u)

\* A request about an upload is about no number, and a call at a row has one.
AtWork ==
    /\ \A k \in Clerks : clerk[k].step \in {"retry", "enqueue"} => clerk[k].number = NoNumber
    /\ \A m \in Importers : importer[m].step \in {"insert", "mark"} => importer[m].todo # {}

UploadsKept == AtWork /\ \A u \in Unhurried : UploadKept(u) /\ UploadAccounts(u)

LEMMA QueuedByIs ==
  ASSUME NEW u
  PROVE  QueuedBy(u) = [step |-> "enqueue", upload |-> u, number |-> NoNumber]
  <1> PICK row : row = [step |-> "enqueue", upload |-> NoUpload, number |-> NoNumber]
    OBVIOUS
  <1>1. [AtDesk EXCEPT !.step = "enqueue"] = row
    BY DEF AtDesk
  <1>2. QueuedBy(u) = [row EXCEPT !.upload = u]
    BY <1>1 DEF QueuedBy
  <1> QED
    BY <1>2

LEMMA HandledIsNat ==
  ASSUME NEW u
  PROVE  Handled(u) \in Nat /\ Handled(u)' \in Nat
  <1>1. \A s : IsFiniteSet(RowsWith(u, s)) /\ IsFiniteSet(RowsWith(u, s)')
    BY FS_Subset, BulkAssumption DEF RowsWith
  <1> QED
    BY <1>1, FS_CardinalityType DEF Handled

\* An upload that a step is not about.
LEMMA UploadsElsewhere ==
  ASSUME NEW u, UploadKept(u), UploadAccounts(u),
         upload'[u] = upload[u], item'[u] = item[u],
         \A m \in Importers : importer'[m].upload = u => importer'[m] = importer[m],
         Retries(u)' => Retries(u),
         u \in event => u \in event',
         \A k \in Clerks : clerk[k] = QueuedBy(u) => clerk'[k] = clerk[k] \/ u \in event'
  PROVE  UploadKept(u)' /\ UploadAccounts(u)'
  <1>1. Handled(u)' = Handled(u) /\ \A s : RowsWith(u, s)' = RowsWith(u, s)
    BY DEF Handled, RowsWith
  <1>2. \A m \in Importers : importer'[m].upload = u => importer[m].upload = u /\ CallCounts(m, u)'
    BY <1>1 DEF UploadKept, CallCounts
  <1>3. UploadKept(u)'
    BY <1>2 DEF UploadKept
  <1>4. UploadAccounts(u)'
    BY <1>1 DEF UploadAccounts
  <1> QED
    BY <1>3, <1>4

\* The first of some rows is one of them.
LEMMA FirstIsOne ==
  ASSUME NEW S \in SUBSET Rows, S # {}
  PROVE  First(S) \in S
  <1>1. \E r \in S : \A q \in S : r <= q
    BY LeastNumber, BulkAssumption
  <1> QED
    BY <1>1 DEF First

\* A batch takes every row of an upload that is not larger.
LEMMA BatchTakesAll ==
  ASSUME NEW S \in SUBSET Rows
  PROVE  /\ FirstRows(S) \subseteq S
         /\ Cardinality(Rows) <= Batch => FirstRows(S) = S
  <1> USE BulkAssumption
  <1>1. ASSUME Cardinality(Rows) <= Batch, NEW r \in S
        PROVE  Cardinality({q \in S : q < r}) < Batch
    <2> PICK T : T = {q \in S : q < r}
      OBVIOUS
    <2>1. T \subseteq Rows /\ r \notin T /\ T \cup {r} \in SUBSET Rows
      <3>1. r \in Nat /\ ~(r < r)
        OBVIOUS
      <3> QED
        BY <3>1
    <2>2. IsFiniteSet(T) /\ Cardinality(T) \in Nat /\ Cardinality(Rows) \in Nat
      BY <2>1, FS_Subset, FS_CardinalityType
    <2>3. Cardinality(T \cup {r}) = Cardinality(T) + 1
      BY <2>1, <2>2, FS_AddElement
    <2>4. Cardinality(T \cup {r}) <= Cardinality(Rows)
      BY <2>1, FS_Subset
    <2> QED
      BY <1>1, <2>2, <2>3, <2>4
  <1> QED
    BY <1>1 DEF FirstRows

\* A queued row is settled: it counts as handled unless it is an error.
LEMMA RowSettled ==
  ASSUME BulkInv, NEW u \in Uploads, NEW r \in RowsWith(u, "QUEUED"),
         NEW mark \in {"DUPLICATE", "PROCESSED", "ERROR"},
         item' = [item EXCEPT ![u][r] = mark]
  PROVE  /\ RowsWith(u, "QUEUED")' = RowsWith(u, "QUEUED") \ {r}
         /\ Handled(u)' = Handled(u) + (IF mark = "ERROR" THEN 0 ELSE 1)
  <1>1. r \in Rows /\ item[u][r] = "QUEUED" /\ item'[u][r] = mark
        /\ \A q \in Rows : q # r => item'[u][q] = item[u][q]
    BY DEF BulkInv, TablesType, RowsWith
  <1>2. RowsWith(u, "QUEUED")' = RowsWith(u, "QUEUED") \ {r}
    BY <1>1 DEF RowsWith
  <1>3. \A s \in {"PROCESSED", "DUPLICATE"} :
          /\ r \notin RowsWith(u, s)
          /\ RowsWith(u, s)' = IF s = mark THEN RowsWith(u, s) \cup {r} ELSE RowsWith(u, s)
          /\ IsFiniteSet(RowsWith(u, s))
    BY <1>1, FS_Subset, BulkAssumption DEF RowsWith
  <1>4. \A s \in {"PROCESSED", "DUPLICATE"} :
          /\ Cardinality(RowsWith(u, s)) \in Nat
          /\ Cardinality(RowsWith(u, s)') = Cardinality(RowsWith(u, s)) + IF s = mark THEN 1 ELSE 0
    BY <1>3, FS_AddElement, FS_CardinalityType
  <1> QED
    BY <1>2, <1>4 DEF Handled

\* The desk of one request changes, about no upload or about an upload u:
\* every other upload is as it was.
LEMMA DeskTurns ==
  ASSUME BulkInv, UploadsKept, NEW k \in Clerks, NEW task, clerk' = [clerk EXCEPT ![k] = task],
         UNCHANGED importer, event \subseteq event',
         task.step \in {"retry", "enqueue"} => task.number = NoNumber
  PROVE  /\ AtWork'
         /\ \A u \in Unhurried :
              /\ upload'[u] = upload[u] /\ item'[u] = item[u]
              /\ task.step = "retry" => task.upload # u
              /\ clerk[k] = QueuedBy(u) => u \in event'
              => UploadKept(u)' /\ UploadAccounts(u)'
  <1>1. \A j \in Clerks : clerk'[j] = IF j = k THEN task ELSE clerk[j]
    BY DEF BulkInv, ClerkType
  <1>2. AtWork'
    BY <1>1 DEF UploadsKept, AtWork
  <1>3. ASSUME NEW u \in Unhurried, upload'[u] = upload[u], item'[u] = item[u],
               task.step = "retry" => task.upload # u,
               clerk[k] = QueuedBy(u) => u \in event'
        PROVE  UploadKept(u)' /\ UploadAccounts(u)'
    <2>1. UploadKept(u) /\ UploadAccounts(u)
      BY DEF UploadsKept
    <2>2. Retries(u)' => Retries(u)
      BY <1>1, <1>3 DEF Retries
    <2>3. \A j \in Clerks : clerk[j] = QueuedBy(u) => clerk'[j] = clerk[j] \/ u \in event'
      BY <1>1, <1>3
    <2>4. /\ u \in event => u \in event'
          /\ \A m \in Importers : importer'[m].upload = u => importer'[m] = importer[m]
      OBVIOUS
    <2> QED
      BY <1>3, <2>1, <2>2, <2>3, <2>4, UploadsElsewhere
  <1> QED
    BY <1>2, <1>3

LEMMA ClerkAccounts ==
  ASSUME BulkInv, UploadsKept, NEW k \in Clerks,
         \/ \E n \in Numbers : CaptureRead(k, n)
         \/ \E u \in Uploads : Upload(k, u) \/ RetryRead(k, u)
         \/ CaptureInsert(k) \/ RetryCommit(k) \/ EnqueueImport(k) \/ ClerkDies(k)
  PROVE  UploadsKept'
  <1> USE BulkAssumption
  <1>0. \A u : QueuedBy(u).step = "enqueue" /\ QueuedBy(u).upload = u
    BY DEF QueuedBy, AtDesk
  <1>1. ASSUME NEW n \in Numbers, CaptureRead(k, n) PROVE UploadsKept'
    <2> PICK task : task = [AtDesk EXCEPT !.step = "capture", !.number = n]
      OBVIOUS
    <2>1. /\ clerk[k] = AtDesk /\ clerk' = [clerk EXCEPT ![k] = task]
          /\ UNCHANGED <<upload, item, captured, known, event, importer, faults>>
      BY <1>1 DEF CaptureRead, Serve
    <2>2. task.step = "capture" /\ AtDesk.step = "idle"
      BY DEF AtDesk
    <2>3. \A u \in Unhurried : clerk[k] # QueuedBy(u)
      BY <1>0, <2>1, <2>2
    <2> QED
      BY <2>1, <2>2, <2>3, DeskTurns DEF UploadsKept
  <1>2. ASSUME NEW v \in Uploads, Upload(k, v) PROVE UploadsKept'
    <2> PICK task : task = QueuedBy(v)
      OBVIOUS
    <2>1. /\ clerk[k] = AtDesk /\ clerk' = [clerk EXCEPT ![k] = task]
          /\ upload[v].status = "NONE"
          /\ item' = [item EXCEPT ![v] = [r \in Rows |-> "QUEUED"]]
          /\ upload' = [upload EXCEPT ![v].status = "UPLOADED"]
          /\ UNCHANGED <<captured, known, event, importer, faults>>
      BY <1>2 DEF Upload, Serve, QueuedBy
    <2>2. task.step = "enqueue" /\ task.number = NoNumber /\ AtDesk.step = "idle"
      BY DEF AtDesk, QueuedBy
    <2>3. \A u \in Unhurried : clerk[k] # QueuedBy(u)
      BY <1>0, <2>1, <2>2
    <2>4. AtWork' /\ \A u \in Unhurried : u # v => UploadKept(u)' /\ UploadAccounts(u)'
      BY <2>1, <2>2, <2>3, DeskTurns DEF BulkInv, TablesType
    <2>5. ASSUME v \in Unhurried PROVE UploadKept(v)' /\ UploadAccounts(v)'
      <3>1. /\ upload'[v].status = "UPLOADED" /\ upload'[v].processed = upload[v].processed
            /\ clerk'[k] = QueuedBy(v)
        BY <2>1 DEF BulkInv, TablesType, ClerkType
      <3>2. upload[v].processed = 0 /\ \A m \in Importers : importer[m].upload # v
        BY <2>1, <2>5 DEF UploadsKept, UploadKept, CallCounts
      <3>3. Handled(v)' \in Nat
        BY HandledIsNat
      <3>4. UploadKept(v)'
        BY <2>1, <3>1, <3>2 DEF UploadKept
      <3> QED
        BY <3>1, <3>2, <3>3, <3>4 DEF UploadAccounts
    <2> QED
      BY <2>4, <2>5 DEF UploadsKept
  <1>3. ASSUME NEW v \in Uploads, RetryRead(k, v) PROVE UploadsKept'
    <2> PICK task : task = [AtDesk EXCEPT !.step = "retry", !.upload = v]
      OBVIOUS
    <2>1. /\ clerk[k] = AtDesk /\ clerk' = [clerk EXCEPT ![k] = task]
          /\ upload[v].status \notin {"NONE", "UPLOADED"}
          /\ v \in Unhurried => ~Imports(v)
          /\ UNCHANGED <<upload, item, captured, known, event, importer, faults>>
      BY <1>3 DEF RetryRead, Serve
    <2>2. task.step = "retry" /\ task.upload = v /\ task.number = NoNumber /\ AtDesk.step = "idle"
      BY DEF AtDesk
    <2>3. \A u \in Unhurried : clerk[k] # QueuedBy(u)
      BY <1>0, <2>1, <2>2
    <2>4. AtWork' /\ \A u \in Unhurried : u # v => UploadKept(u)' /\ UploadAccounts(u)'
      BY <2>1, <2>2, <2>3, DeskTurns
    <2>5. ASSUME v \in Unhurried PROVE UploadKept(v)' /\ UploadAccounts(v)'
      <3>1. \A m \in Importers : importer[m].upload # v
        BY <2>1, <2>5 DEF Imports
      <3>2. UploadKept(v)'
        BY <2>1, <2>5, <3>1 DEF UploadsKept, UploadKept
      <3>3. UploadAccounts(v)'
        BY <2>1, <2>5 DEF UploadsKept, UploadAccounts, Handled, RowsWith
      <3> QED
        BY <3>2, <3>3
    <2> QED
      BY <2>4, <2>5 DEF UploadsKept
  <1>4. AtDesk.step = "idle" /\ AtDesk.number = NoNumber
    BY DEF AtDesk
  <1>5. ASSUME CaptureInsert(k) PROVE UploadsKept'
    <2>1. /\ clerk[k].step = "capture" /\ clerk' = [clerk EXCEPT ![k] = AtDesk]
          /\ UNCHANGED <<upload, item, known, event, importer, faults>>
      BY <1>5 DEF CaptureInsert, Served
    <2>2. \A u \in Unhurried : clerk[k] # QueuedBy(u)
      BY <1>0, <2>1
    <2> QED
      BY <1>4, <2>1, <2>2, DeskTurns DEF UploadsKept
  <1>6. ASSUME RetryCommit(k) PROVE UploadsKept'
    <2> PICK v : v = clerk[k].upload
      OBVIOUS
    <2> PICK task : task = [clerk[k] EXCEPT !.step = "enqueue"]
      OBVIOUS
    <2>1. /\ clerk[k].step = "retry" /\ clerk' = [clerk EXCEPT ![k] = task]
          /\ item' = [item EXCEPT ![v] = [r \in Rows |-> IF @[r] = "ERROR" THEN "QUEUED" ELSE @[r]]]
          /\ upload' = [upload EXCEPT ![v].status = "UPLOADED"]
          /\ v \in Uploads
          /\ UNCHANGED <<captured, known, event, importer, faults>>
      BY <1>6 DEF RetryCommit, Retried, BulkInv, Aims, ClerkType
    <2>2. clerk[k].number = NoNumber
      BY <2>1 DEF UploadsKept, AtWork
    <2>3. task = QueuedBy(v)
      <3> PICK row \in [step : {"idle", "capture", "retry", "enqueue"},
                       upload : Uploads \cup {NoUpload}, number : Numbers \cup {NoNumber}] :
                row = clerk[k]
        BY DEF BulkInv, ClerkType
      <3>1. row.upload = v /\ row.number = NoNumber
        BY <2>2
      <3>2. task = [step |-> "enqueue", upload |-> v, number |-> NoNumber]
        BY <3>1
      <3> QED
        BY <3>2, QueuedByIs
    <2>4. task.step = "enqueue" /\ task.number = NoNumber
      BY <2>3 DEF QueuedBy, AtDesk
    <2>5. \A u \in Unhurried : clerk[k] # QueuedBy(u)
      BY <1>0, <2>1
    <2>6. AtWork' /\ \A u \in Unhurried : u # v => UploadKept(u)' /\ UploadAccounts(u)'
      BY <2>1, <2>4, <2>5, DeskTurns DEF BulkInv, TablesType
    <2>7. ASSUME v \in Unhurried PROVE UploadKept(v)' /\ UploadAccounts(v)'
      <3>1. /\ upload'[v].status = "UPLOADED" /\ upload'[v].processed = upload[v].processed
            /\ clerk'[k] = QueuedBy(v)
        <4>1. upload'[v].status = "UPLOADED" /\ upload'[v].processed = upload[v].processed
          BY <2>1 DEF BulkInv, TablesType
        <4>2. clerk'[k] = task
          BY <2>1 DEF BulkInv, ClerkType
        <4> QED
          BY <2>3, <4>1, <4>2
      <3>2. \A m \in Importers : importer[m].upload # v
        BY <2>1, <2>7 DEF UploadsKept, UploadKept, CallCounts, Retries
      <3>3. \A r \in Rows : item'[v][r] = IF item[v][r] = "ERROR" THEN "QUEUED" ELSE item[v][r]
        BY <2>1 DEF BulkInv, TablesType
      <3>4. Handled(v)' = Handled(v)
        <4>1. \A s \in {"PROCESSED", "DUPLICATE"} : RowsWith(v, s)' = RowsWith(v, s)
          BY <3>3 DEF RowsWith
        <4> QED
          BY <4>1 DEF Handled
      <3>5. UploadKept(v)'
        BY <2>1, <3>1, <3>2 DEF UploadKept
      <3>6. upload[v].processed <= Handled(v)
        BY <2>7 DEF UploadsKept, UploadAccounts
      <3> QED
        BY <3>1, <3>4, <3>5, <3>6 DEF UploadAccounts
    <2> QED
      BY <2>6, <2>7 DEF UploadsKept
  <1>7. ASSUME EnqueueImport(k) PROVE UploadsKept'
    <2>1. /\ clerk' = [clerk EXCEPT ![k] = AtDesk]
          /\ event' = event \cup {clerk[k].upload}
          /\ UNCHANGED <<upload, item, captured, known, importer, faults>>
      BY <1>7 DEF EnqueueImport, Served
    <2>2. \A u \in Unhurried : clerk[k] = QueuedBy(u) => u \in event'
      BY <1>0, <2>1
    <2>3. event \subseteq event'
      BY <2>1
    <2> QED
      BY <1>4, <2>1, <2>2, <2>3, DeskTurns DEF UploadsKept
  <1>8. ASSUME ClerkDies(k) PROVE UploadsKept'
    <2>1. /\ clerk[k].upload \notin Unhurried /\ clerk' = [clerk EXCEPT ![k] = AtDesk]
          /\ UNCHANGED <<upload, item, captured, known, event, importer>>
      BY <1>8 DEF ClerkDies, Served
    <2>2. \A u \in Unhurried : clerk[k] # QueuedBy(u)
      BY <1>0, <2>1
    <2> QED
      BY <1>4, <2>1, <2>2, DeskTurns DEF UploadsKept
  <1> QED
    BY <1>1, <1>2, <1>3, <1>5, <1>6, <1>7, <1>8

\* One call moves: the uploads that it is not about are as they were, and the
\* one that it is about has no other call.
LEMMA CallTurns ==
  ASSUME BulkInv, UploadsKept, NEW m \in Importers, NEW at, importer' = [importer EXCEPT ![m] = at],
         UNCHANGED clerk, at.step \in {"insert", "mark"} => at.todo # {}
  PROVE  /\ AtWork'
         /\ \A j \in Importers : importer'[j] = IF j = m THEN at ELSE importer[j]
         /\ \A u \in Unhurried :
              /\ at.upload # u /\ upload'[u] = upload[u] /\ item'[u] = item[u]
              /\ u \in event => u \in event'
              => UploadKept(u)' /\ UploadAccounts(u)'
         /\ \A u \in Unhurried :
              importer[m].upload = u => \A j \in Importers : j # m => importer'[j].upload # u
  <1>1. \A j \in Importers : importer'[j] = IF j = m THEN at ELSE importer[j]
    BY DEF BulkInv, ImporterType
  <1>2. AtWork'
    BY <1>1 DEF UploadsKept, AtWork
  <1>3. ASSUME NEW u \in Unhurried, at.upload # u, upload'[u] = upload[u], item'[u] = item[u],
               u \in event => u \in event'
        PROVE  UploadKept(u)' /\ UploadAccounts(u)'
    <2>1. UploadKept(u) /\ UploadAccounts(u) /\ (Retries(u)' => Retries(u))
      BY DEF UploadsKept, Retries
    <2>2. \A j \in Importers : importer'[j].upload = u => importer'[j] = importer[j]
      BY <1>1, <1>3
    <2>3. \A j \in Clerks : clerk[j] = QueuedBy(u) => clerk'[j] = clerk[j] \/ u \in event'
      OBVIOUS
    <2> QED
      BY <1>3, <2>1, <2>2, <2>3, UploadsElsewhere
  <1>4. \A u \in Unhurried :
          importer[m].upload = u => \A j \in Importers : j # m => importer'[j].upload # u
    BY <1>1 DEF UploadsKept, UploadKept
  <1> QED
    BY <1>1, <1>2, <1>3, <1>4

\* The current row is settled.
LEMMA SettleAccounts ==
  ASSUME BulkInv, UploadsKept, NEW m \in Importers, NEW mark \in {"DUPLICATE", "PROCESSED", "ERROR"},
         NEW counted \in BOOLEAN, counted = (mark # "ERROR"),
         importer[m].step \in {"check", "insert", "mark"}, importer[m].todo # {},
         Settle(m, mark, counted), UNCHANGED <<upload, captured, known, event, clerk>>
  PROVE  UploadsKept'
  <1> USE BulkAssumption
  <1> PICK r : r = Current(m)
    OBVIOUS
  <1> PICK v \in Uploads : v = importer[m].upload
    BY DEF BulkInv, Aims
  <1> PICK rest : rest = importer[m].todo \ {r}
    OBVIOUS
  <1> PICK done : done = importer[m].done + (IF counted THEN 1 ELSE 0)
    OBVIOUS
  <1>0. PICK at : at = [importer[m] EXCEPT !.step = "check", !.todo = rest, !.done = done]
    OBVIOUS
  <1>1. /\ item' = [item EXCEPT ![v][r] = mark]
        /\ importer' = [importer EXCEPT ![m] = at]
    BY <1>0 DEF Settle, BulkInv, ImporterType
  <1>2. at.step = "check" /\ at.upload = v /\ at.todo = rest /\ at.done = done
    BY <1>0 DEF BulkInv, ImporterType
  <1>3. /\ AtWork'
        /\ \A j \in Importers : importer'[j] = IF j = m THEN at ELSE importer[j]
        /\ \A u \in Unhurried :
             /\ at.upload # u /\ upload'[u] = upload[u] /\ item'[u] = item[u]
             /\ u \in event => u \in event'
             => UploadKept(u)' /\ UploadAccounts(u)'
        /\ \A u \in Unhurried :
             importer[m].upload = u => \A j \in Importers : j # m => importer'[j].upload # u
    <2>1. at.step \in {"insert", "mark"} => at.todo # {}
      BY <1>2
    <2>2. UNCHANGED clerk
      OBVIOUS
    <2> QED
      BY <1>1, <2>1, <2>2, CallTurns
  <1>4. \A u \in Unhurried : u # v => UploadKept(u)' /\ UploadAccounts(u)'
    BY <1>1, <1>2, <1>3 DEF BulkInv, TablesType
  <1>5. ASSUME v \in Unhurried PROVE UploadKept(v)' /\ UploadAccounts(v)'
    <2>1. CallCounts(m, v) /\ UploadKept(v) /\ UploadAccounts(v)
      BY <1>5 DEF UploadsKept, UploadKept
    <2>2. importer[m].todo \in SUBSET Rows /\ r \in importer[m].todo
      <3>1. importer[m].todo \in SUBSET Rows
        BY DEF BulkInv, ImporterType
      <3> QED
        BY <3>1, FirstIsOne DEF Current
    <2>3. r \in RowsWith(v, "QUEUED")
      BY <2>1, <2>2 DEF CallCounts
    <2>4. /\ RowsWith(v, "QUEUED")' = RowsWith(v, "QUEUED") \ {r}
          /\ Handled(v)' = Handled(v) + (IF mark = "ERROR" THEN 0 ELSE 1)
      BY <1>1, <2>3, RowSettled
    <2>5. Handled(v) \in Nat /\ Handled(v)' \in Nat /\ upload[v].processed \in Nat
          /\ importer[m].done \in Nat
      BY HandledIsNat DEF BulkInv, TablesType, ImporterType
    <2>6. CallCounts(m, v)'
      <3>1. ~Retries(v)' /\ upload'[v].status = "PROCESSING"
        BY <2>1 DEF CallCounts, Retries
      <3>2. upload'[v].processed + done <= Handled(v)'
        <4>1. upload[v].processed + importer[m].done <= Handled(v)
          BY <2>1 DEF CallCounts
        <4>2. done = importer[m].done + (IF mark = "ERROR" THEN 0 ELSE 1)
          OBVIOUS
        <4>3. upload'[v].processed = upload[v].processed
          OBVIOUS
        <4> QED
          BY <2>4, <2>5, <4>1, <4>2, <4>3
      <3>3. rest \subseteq RowsWith(v, "QUEUED")'
        BY <2>1, <2>4 DEF CallCounts
      <3>4. Cardinality(Rows) <= Batch => RowsWith(v, "QUEUED")' \subseteq rest
        BY <2>1, <2>4 DEF CallCounts
      <3>5. importer'[m] = at
        BY <1>3
      <3> QED
        BY <1>2, <3>1, <3>2, <3>3, <3>4, <3>5 DEF CallCounts
    <2>7. UploadKept(v)'
      <3>1. \A j \in Importers : importer'[j].upload = v => j = m
        BY <1>3, <1>5
      <3>2. upload'[v] = upload[v]
        OBVIOUS
      <3> QED
        BY <2>1, <2>6, <3>1, <3>2 DEF UploadKept
    <2>8. UploadAccounts(v)'
      BY <2>1, <2>4, <2>5 DEF UploadAccounts
    <2> QED
      BY <2>7, <2>8
  <1> QED
    BY <1>3, <1>4, <1>5 DEF UploadsKept

\* The next statement about the same row.
LEMMA WorkAccounts ==
  ASSUME BulkInv, UploadsKept, NEW m \in Importers, NEW step \in {"insert", "mark"},
         importer[m].step \in {"check", "insert", "mark"}, importer[m].todo # {}, Works(m, step),
         UNCHANGED <<upload, item, event, clerk>>
  PROVE  UploadsKept'
  <1>0. PICK at : at = [importer[m] EXCEPT !.step = step]
    OBVIOUS
  <1>1. importer' = [importer EXCEPT ![m] = at]
    BY <1>0 DEF Works, BulkInv, ImporterType
  <1>2. /\ at.step = step /\ at.upload = importer[m].upload
        /\ at.todo = importer[m].todo /\ at.done = importer[m].done
    BY <1>0 DEF BulkInv, ImporterType
  <1>3. /\ AtWork'
        /\ \A j \in Importers : importer'[j] = IF j = m THEN at ELSE importer[j]
    <2>1. \A j \in Importers : importer'[j] = IF j = m THEN at ELSE importer[j]
      BY <1>1 DEF BulkInv, ImporterType
    <2>2. AtWork'
      BY <1>2, <2>1 DEF UploadsKept, AtWork
    <2> QED
      BY <2>1, <2>2
  <1>4. \A u : Handled(u)' = Handled(u) /\ \A s : RowsWith(u, s)' = RowsWith(u, s)
    BY DEF Handled, RowsWith
  <1>5. ASSUME NEW u \in Unhurried PROVE UploadKept(u)' /\ UploadAccounts(u)'
    <2>1. UploadKept(u) /\ UploadAccounts(u)
      BY DEF UploadsKept
    <2>2. Retries(u)' = Retries(u)
      BY DEF Retries
    <2>3. \A j \in Importers : importer'[j].upload = u =>
            importer[j].upload = u /\ CallCounts(j, u)'
      BY <1>2, <1>3, <1>4, <2>1, <2>2 DEF UploadKept, CallCounts
    <2>4. UploadKept(u)'
      BY <2>1, <2>3 DEF UploadKept
    <2>5. UploadAccounts(u)'
      BY <1>4, <2>1 DEF UploadAccounts
    <2> QED
      BY <2>4, <2>5
  <1> QED
    BY <1>3, <1>5 DEF UploadsKept

LEMMA HandlerAccounts ==
  ASSUME BulkInv, UploadsKept, NEW m \in Importers, Importing(m)
  PROVE  UploadsKept'
  <1> USE BulkAssumption
  <1>1. ASSUME NEW v \in Uploads, StartImport(m, v) PROVE UploadsKept'
    <2>1. CASE upload[v].status = "COMPLETED"
      <3>1. event' = event \ {v} /\ UNCHANGED <<upload, item, importer, clerk>>
        BY <1>1, <2>1 DEF StartImport
      <3>2. AtWork'
        BY <3>1 DEF UploadsKept, AtWork
      <3>3. ASSUME NEW u \in Unhurried PROVE UploadKept(u)' /\ UploadAccounts(u)'
        <4>1. UploadKept(u) /\ UploadAccounts(u)
          BY DEF UploadsKept
        <4>2. Handled(u)' = Handled(u) /\ \A s : RowsWith(u, s)' = RowsWith(u, s)
          BY <3>1 DEF Handled, RowsWith
        <4>3. \A j \in Importers : importer[j].upload = u => CallCounts(j, u)'
          BY <3>1, <4>1, <4>2 DEF UploadKept, CallCounts, Retries
        <4>4. UploadKept(u)'
          BY <3>1, <4>1, <4>3 DEF UploadKept
        <4>5. UploadAccounts(u)'
          BY <2>1, <3>1, <4>1, <4>2 DEF UploadAccounts
        <4> QED
          BY <4>4, <4>5
      <3> QED
        BY <3>2, <3>3 DEF UploadsKept
    <2>2. CASE upload[v].status # "COMPLETED"
      <3>0. PICK at : at = [step |-> "read", upload |-> v, todo |-> {}, done |-> 0]
        OBVIOUS
      <3>1. /\ importer' = [importer EXCEPT ![m] = at]
            /\ upload' = [upload EXCEPT ![v].status = "PROCESSING"]
            /\ v \in Unhurried => ~Imports(v) /\ ~Retries(v)
            /\ UNCHANGED <<item, captured, known, event, clerk, faults>>
        BY <1>1, <2>2, <3>0 DEF StartImport
      <3>2. at.step = "read" /\ at.upload = v /\ at.todo = {} /\ at.done = 0
        BY <3>0
      <3>3. /\ AtWork'
            /\ \A j \in Importers : importer'[j] = IF j = m THEN at ELSE importer[j]
            /\ \A u \in Unhurried :
                 /\ at.upload # u /\ upload'[u] = upload[u] /\ item'[u] = item[u]
                 /\ u \in event => u \in event'
                 => UploadKept(u)' /\ UploadAccounts(u)'
        <4>1. at.step \in {"insert", "mark"} => at.todo # {}
          BY <3>2
        <4>2. importer' = [importer EXCEPT ![m] = at] /\ UNCHANGED clerk
          BY <3>1
        <4> QED
          BY <4>1, <4>2, CallTurns
      <3>4. \A u \in Unhurried : u # v => UploadKept(u)' /\ UploadAccounts(u)'
        BY <3>1, <3>2, <3>3 DEF BulkInv, TablesType
      <3>5. ASSUME v \in Unhurried PROVE UploadKept(v)' /\ UploadAccounts(v)'
        <4>1. upload'[v].status = "PROCESSING" /\ upload'[v].processed = upload[v].processed
          BY <3>1 DEF BulkInv, TablesType
        <4>2. \A j \in Importers : importer'[j].upload = v => j = m
          BY <3>1, <3>3, <3>5 DEF Imports
        <4>3. Handled(v)' = Handled(v) /\ upload[v].processed <= Handled(v)
          BY <3>1, <3>5 DEF UploadsKept, UploadAccounts, Handled, RowsWith
        <4>4. upload[v].processed \in Nat
          BY DEF BulkInv, TablesType
        <4>5. CallCounts(m, v)'
          BY <3>1, <3>2, <3>3, <3>5, <4>1, <4>3, <4>4 DEF CallCounts, Retries
        <4>6. UploadKept(v)'
          BY <4>1, <4>2, <4>5 DEF UploadKept
        <4>7. UploadAccounts(v)'
          BY <4>1, <4>3 DEF UploadAccounts
        <4> QED
          BY <4>6, <4>7
      <3> QED
        BY <3>3, <3>4, <3>5 DEF UploadsKept
    <2> QED
      BY <2>1, <2>2
  <1>2. ASSUME ReadItems(m) PROVE UploadsKept'
    <2> PICK v \in Uploads : v = importer[m].upload
      BY <1>2 DEF ReadItems, BulkInv, Aims
    <2> PICK rows : rows = FirstRows(RowsWith(v, "QUEUED"))
      OBVIOUS
    <2>0. PICK at : at = [importer[m] EXCEPT !.step = "check", !.todo = rows]
      OBVIOUS
    <2>1. /\ importer' = [importer EXCEPT ![m] = at]
          /\ importer[m].step = "read"
          /\ UNCHANGED <<upload, item, captured, known, event, clerk, faults>>
      BY <1>2, <2>0 DEF ReadItems, BulkInv, ImporterType
    <2>2. at.step = "check" /\ at.upload = v /\ at.todo = rows /\ at.done = importer[m].done
      BY <2>0 DEF BulkInv, ImporterType
    <2>3. /\ AtWork'
          /\ \A j \in Importers : importer'[j] = IF j = m THEN at ELSE importer[j]
          /\ \A u \in Unhurried :
               /\ at.upload # u /\ upload'[u] = upload[u] /\ item'[u] = item[u]
               /\ u \in event => u \in event'
               => UploadKept(u)' /\ UploadAccounts(u)'
          /\ \A u \in Unhurried :
               importer[m].upload = u => \A j \in Importers : j # m => importer'[j].upload # u
      BY <2>1, <2>2, CallTurns
    <2>4. \A u \in Unhurried : u # v => UploadKept(u)' /\ UploadAccounts(u)'
      BY <2>1, <2>2, <2>3
    <2>5. ASSUME v \in Unhurried PROVE UploadKept(v)' /\ UploadAccounts(v)'
      <3>1. CallCounts(m, v) /\ UploadKept(v) /\ UploadAccounts(v)
        BY <2>5 DEF UploadsKept, UploadKept
      <3>2. Handled(v)' = Handled(v) /\ \A s : RowsWith(v, s)' = RowsWith(v, s)
        BY <2>1 DEF Handled, RowsWith
      <3>3. /\ rows \subseteq RowsWith(v, "QUEUED")
            /\ Cardinality(Rows) <= Batch => rows = RowsWith(v, "QUEUED")
        <4>1. RowsWith(v, "QUEUED") \in SUBSET Rows
          BY DEF RowsWith
        <4> QED
          BY <4>1, BatchTakesAll
      <3>4. CallCounts(m, v)'
        BY <2>1, <2>2, <2>3, <3>1, <3>2, <3>3 DEF CallCounts, Retries
      <3>5. UploadKept(v)'
        BY <2>1, <2>3, <2>5, <3>1, <3>4 DEF UploadKept
      <3>6. UploadAccounts(v)'
        BY <2>1, <3>1, <3>2 DEF UploadAccounts
      <3> QED
        BY <3>5, <3>6
    <2> QED
      BY <2>3, <2>4, <2>5 DEF UploadsKept
  <1>3. ASSUME CheckItem(m) PROVE UploadsKept'
    <2>1. /\ importer[m].step \in {"check", "insert", "mark"} /\ importer[m].todo # {}
          /\ UNCHANGED <<upload, captured, known, event, clerk, faults>>
          /\ \/ Settle(m, "DUPLICATE", TRUE)
             \/ Settle(m, "ERROR", FALSE)
             \/ Works(m, "insert") /\ UNCHANGED item
      BY <1>3 DEF CheckItem
    <2>2. CASE Settle(m, "DUPLICATE", TRUE)
      BY <2>1, <2>2, SettleAccounts
    <2>3. CASE Settle(m, "ERROR", FALSE)
      BY <2>1, <2>3, SettleAccounts
    <2>4. CASE Works(m, "insert") /\ UNCHANGED item
      BY <2>1, <2>4, WorkAccounts
    <2> QED
      BY <2>1, <2>2, <2>3, <2>4
  <1>4. ASSUME InsertReceipt(m) PROVE UploadsKept'
    <2>1. /\ importer[m].step \in {"check", "insert", "mark"} /\ importer[m].todo # {}
          /\ Works(m, "mark") /\ UNCHANGED <<upload, item, event, clerk>>
      BY <1>4 DEF InsertReceipt, UploadsKept, AtWork
    <2> QED
      BY <2>1, WorkAccounts
  <1>5. ASSUME MarkItem(m) PROVE UploadsKept'
    <2>1. /\ importer[m].step \in {"check", "insert", "mark"} /\ importer[m].todo # {}
          /\ Settle(m, "PROCESSED", TRUE) /\ UNCHANGED <<upload, captured, known, event, clerk>>
      BY <1>5 DEF MarkItem, UploadsKept, AtWork
    <2> QED
      BY <2>1, SettleAccounts
  <1>6. ASSUME ItemFails(m) PROVE UploadsKept'
    <2>1. /\ importer[m].step \in {"check", "insert", "mark"} /\ importer[m].todo # {}
          /\ Settle(m, "ERROR", FALSE) /\ UNCHANGED <<upload, captured, known, event, clerk>>
      BY <1>6 DEF ItemFails
    <2> QED
      BY <2>1, SettleAccounts
  <1>7. ASSUME FinishImport(m) PROVE UploadsKept'
    <2> PICK v \in Uploads : v = importer[m].upload
      BY <1>7 DEF FinishImport, BulkInv, Aims
    <2>a. PICK done \in Nat : done = importer[m].done
      BY DEF BulkInv, ImporterType
    <2>0. PICK at : at = [importer[m] EXCEPT !.step = "done"]
      OBVIOUS
    <2>1. /\ upload' = [upload EXCEPT ![v].status = "COMPLETED", ![v].processed = @ + done]
          /\ importer' = [importer EXCEPT ![m] = at]
          /\ importer[m].step = "check" /\ importer[m].todo = {}
          /\ UNCHANGED <<item, captured, known, event, clerk, faults>>
      BY <1>7, <2>a, <2>0 DEF FinishImport, Works, BulkInv, ImporterType
    <2>2. at.step = "done" /\ at.upload = v /\ at.todo = {}
      BY <2>0, <2>1 DEF BulkInv, ImporterType
    <2>3. /\ AtWork'
          /\ \A j \in Importers : importer'[j] = IF j = m THEN at ELSE importer[j]
          /\ \A u \in Unhurried :
               /\ at.upload # u /\ upload'[u] = upload[u] /\ item'[u] = item[u]
               /\ u \in event => u \in event'
               => UploadKept(u)' /\ UploadAccounts(u)'
          /\ \A u \in Unhurried :
               importer[m].upload = u => \A j \in Importers : j # m => importer'[j].upload # u
      BY <2>1, <2>2, CallTurns
    <2>4. \A u \in Unhurried : u # v => UploadKept(u)' /\ UploadAccounts(u)'
      BY <2>1, <2>2, <2>3 DEF BulkInv, TablesType
    <2>5. ASSUME v \in Unhurried PROVE UploadKept(v)' /\ UploadAccounts(v)'
      <3>1. CallCounts(m, v) /\ UploadKept(v)
        BY <2>5 DEF UploadsKept, UploadKept
      <3>2. Handled(v)' = Handled(v) /\ \A s : RowsWith(v, s)' = RowsWith(v, s)
        BY <2>1 DEF Handled, RowsWith
      <3>3. upload'[v].status = "COMPLETED" /\ upload'[v].processed = upload[v].processed + done
        BY <2>1 DEF BulkInv, TablesType
      <3>4. /\ upload[v].processed + done <= Handled(v)
            /\ Cardinality(Rows) <= Batch => RowsWith(v, "QUEUED") = {}
        BY <2>a, <2>1, <3>1 DEF CallCounts
      <3>5. CallCounts(m, v)'
        BY <2>1, <2>2, <2>3, <3>1, <3>2, <3>3, <3>4 DEF CallCounts, Retries
      <3>6. UploadKept(v)'
        BY <2>3, <2>5, <3>3, <3>5 DEF UploadKept
      <3>7. UploadAccounts(v)'
        BY <3>2, <3>3, <3>4 DEF UploadAccounts
      <3> QED
        BY <3>6, <3>7
    <2> QED
      BY <2>3, <2>4, <2>5 DEF UploadsKept
  <1>8. ASSUME EventDone(m) \/ ImporterDies(m) PROVE UploadsKept'
    <2> PICK v : v = importer[m].upload
      OBVIOUS
    <2>0. PICK at : at = NotImporting
      OBVIOUS
    <2>1. /\ importer' = [importer EXCEPT ![m] = at]
          /\ event' \in {event, event \ {v}}
          /\ UNCHANGED <<upload, item, captured, known, clerk>>
      BY <1>8, <2>0 DEF EventDone, ImporterDies, Leaves
    <2>2. at.step = "idle" /\ at.upload = NoUpload
      BY <2>0 DEF NotImporting
    <2>3. /\ AtWork'
          /\ \A j \in Importers : importer'[j] = IF j = m THEN at ELSE importer[j]
          /\ \A u \in Unhurried :
               /\ at.upload # u /\ upload'[u] = upload[u] /\ item'[u] = item[u]
               /\ u \in event => u \in event'
               => UploadKept(u)' /\ UploadAccounts(u)'
          /\ \A u \in Unhurried :
               importer[m].upload = u => \A j \in Importers : j # m => importer'[j].upload # u
      BY <2>1, <2>2, CallTurns
    <2>4. \A u \in Unhurried : u # v => UploadKept(u)' /\ UploadAccounts(u)'
      BY <2>1, <2>2, <2>3
    <2>5. ASSUME v \in Unhurried PROVE UploadKept(v)' /\ UploadAccounts(v)'
      <3>1. CallCounts(m, v) /\ UploadKept(v) /\ UploadAccounts(v)
        BY <2>5 DEF UploadsKept, UploadKept
      <3>2. Handled(v)' = Handled(v) /\ \A s : RowsWith(v, s)' = RowsWith(v, s)
        BY <2>1 DEF Handled, RowsWith
      <3>3. upload[v].status # "UPLOADED"
        BY <3>1 DEF CallCounts
      <3>4. UploadKept(v)'
        BY <2>1, <2>2, <2>3, <2>5, <3>1 DEF UploadKept
      <3>5. UploadAccounts(v)'
        BY <2>1, <3>1, <3>2, <3>3 DEF UploadAccounts
      <3> QED
        BY <3>4, <3>5
    <2> QED
      BY <2>3, <2>4, <2>5 DEF UploadsKept
  <1> QED
    BY <1>1, <1>2, <1>3, <1>4, <1>5, <1>6, <1>7, <1>8 DEF Importing

\* A completed upload leaves no row of its batch queued and claims no more than
\* was handled, and one that waits is queued (bulkImport, retryUpload).
THEOREM BulkUploadsAccount == BulkSpec => []UploadsAccount
  <1> USE BulkAssumption
  <1>1. BulkInit => UploadsKept
    <2> SUFFICES ASSUME BulkInit PROVE UploadsKept
      OBVIOUS
    <2>1. AtWork
      BY DEF BulkInit, AtWork, NotImporting, AtDesk
    <2>2. ASSUME NEW u \in Unhurried PROVE UploadKept(u) /\ UploadAccounts(u)
      <3>1. upload[u].status = "NONE" /\ upload[u].processed = 0
        BY DEF BulkInit
      <3>2. \A m \in Importers : importer[m].upload # u
        BY DEF BulkInit, NotImporting
      <3>3. Handled(u) \in Nat
        BY HandledIsNat
      <3> QED
        BY <3>1, <3>2, <3>3 DEF UploadKept, UploadAccounts
    <2> QED
      BY <2>1, <2>2 DEF UploadsKept
  <1>2. BulkInv /\ UploadsKept /\ [BulkNext]_bulkVars => UploadsKept'
    <2> SUFFICES ASSUME BulkInv, UploadsKept, [BulkNext]_bulkVars PROVE UploadsKept'
      OBVIOUS
    <2>1. ASSUME UNCHANGED <<upload, item, event, importer, clerk>> PROVE UploadsKept'
      <3>1. AtWork'
        BY <2>1 DEF UploadsKept, AtWork
      <3>2. ASSUME NEW u \in Unhurried PROVE UploadKept(u)' /\ UploadAccounts(u)'
        <4>1. UploadKept(u) /\ UploadAccounts(u) /\ (Retries(u)' => Retries(u))
          BY <2>1 DEF UploadsKept, Retries
        <4>2. /\ upload'[u] = upload[u] /\ item'[u] = item[u]
              /\ \A m \in Importers : importer'[m].upload = u => importer'[m] = importer[m]
              /\ u \in event => u \in event'
              /\ \A k \in Clerks : clerk[k] = QueuedBy(u) => clerk'[k] = clerk[k] \/ u \in event'
          BY <2>1
        <4> QED
          BY <4>1, <4>2, UploadsElsewhere
      <3> QED
        BY <3>1, <3>2 DEF UploadsKept
    <2>2. ASSUME NEW n \in Numbers, KnowSupplier(n) PROVE UploadsKept'
      BY <2>1, <2>2 DEF KnowSupplier
    <2>3. CASE UNCHANGED bulkVars
      BY <2>1, <2>3 DEF bulkVars
    <2> QED
      BY <2>2, <2>3, ClerkAccounts, HandlerAccounts DEF BulkNext
  <1>3. UploadsKept => UploadsAccount
    BY DEF UploadsKept, UploadAccounts, UploadsAccount, QueuedBy
  <1> QED
    BY <1>1, <1>2, <1>3, BulkInitInv, BulkStepInv, PTL DEF BulkSpec

-----------------------------------------------------------------------------
(* The components together                                                 *)

\* Whatever scene is played, each component behaves as its own specification
\* says: what is proved of that specification holds in the composition.
THEOREM ComplianceImplements ==
  ComplianceSpec => /\ Spec /\ SupplierSpec /\ BulkSpec
                    /\ TurnoverSpec /\ JournalsSpec /\ BankSpec
  <1>1. ComplianceInit => /\ Init /\ SupplierInit /\ BulkInit
                          /\ TurnoverInit /\ JournalsInit /\ BankInit
    BY DEF ComplianceInit
  <1>2. [UNCHANGED scene /\ ComplianceNext]_<<scene, AllVars>> =>
          /\ [Next]_vars /\ [SupplierNext]_supplierVars /\ [BulkNext]_bulkVars
          /\ [TurnoverNext]_turnoverVars /\ [JournalsNext]_journalVars /\ [BankNext]_bankVars
    BY DEF ComplianceNext, AllVars
  <1> QED
    BY <1>1, <1>2, PTL DEF ComplianceSpec, Spec, SupplierSpec, BulkSpec, TurnoverSpec,
                           JournalsSpec, BankSpec

\* The rows of every component are the ones that its tables allow.
THEOREM ComplianceTypes == ComplianceSpec => []TypesOK
  <1>1. TypeOK /\ SupplierTypeOK /\ BulkTypeOK /\ TurnoverTypeOK /\ JournalsTypeOK
        /\ BankTypeOK => TypesOK
    BY DEF TypesOK
  <1> QED
    BY <1>1, ComplianceImplements, EtimsTypes, SupplierTypes, BulkTypes, TurnoverTypes,
       JournalsTypes, BankingTypes, PTL
=============================================================================
