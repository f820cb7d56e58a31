------------------------------ MODULE Journals ------------------------------
(***************************************************************************)
(* The chart of accounts, manual journal entries and the reports           *)
(* (AccountingService).  Accounts are closed (deactivated or deleted)      *)
(* after a count of their lines; entries are created in draft, approved    *)
(* and reversed; the reports add up what is posted.                        *)
(*                                                                         *)
(* Nothing here runs in one transaction except reverseEntry, so a request  *)
(* is a read and a later write, and a report is several reads.  An entry   *)
(* has one debit and one credit line of amount 1; its mirror, if it is     *)
(* reversed, is counted in mirrors.                                        *)
(***************************************************************************)
EXTENDS Integers, FiniteSets, FiniteSetsExt

CONSTANTS
    Accounts,
    AccountType,   \* account -> its type
    Vouchers,      \* journal entries, manual or posted by a document
    Bookkeepers,   \* requests in progress at the same time
    Automatic,     \* accounts that documents post to
    Steady,        \* accounts that are not closed while an entry on them is created,
                   \* and that no document is posted to while they are closed
    NoAccount

ASSUME JournalsAssumption ==
    /\ AccountType \in [Accounts -> {"ASSET", "LIABILITY", "EQUITY", "INCOME", "EXPENSE"}]
    /\ Automatic \subseteq Accounts /\ Steady \subseteq Accounts
    /\ NoAccount \notin Accounts \cup Vouchers /\ IsFiniteSet(Accounts)

VARIABLES
    account,     \* Account rows: active, deleted
    voucher,     \* JournalEntry rows: status and the accounts of their two lines
    mirrors,     \* REVERSAL entries of each voucher
    keeping,     \* each request: where it is, and what it is about
    report       \* the report being made: where it is, what its aggregates
                 \* returned, and the two totals it compares

books       == <<account, voucher, mirrors>>
journalVars == <<books, keeping, report>>

VoucherStatus == {"NONE", "DRAFT", "POSTED", "REVERSED"}
ReportSteps   == {"idle", "trial", "sheet", "profit", "income", "trialDone", "sheetDone"}
KeepingSteps  == {"idle", "create", "insert", "approve", "reverse", "deactivate", "delete"}

NoVoucher  == [status |-> "NONE", debit |-> NoAccount, credit |-> NoAccount]
NotKeeping == [step |-> "idle", about |-> {}]

Entry(status, d, c) == [status |-> status, debit |-> d, credit |-> c]
AccountsOf(e)  == {voucher[e].debit, voucher[e].credit}
Kept(a)        == account[a].active /\ ~account[a].deleted
Exists(a)      == ~account[a].deleted

\* Lines of any status count as activity.
Lines(a) == {e \in Vouchers : a \in AccountsOf(e)}
Entered  == {e \in Vouchers : voucher[e] # NoVoucher}

Opening(a) == \E k \in Bookkeepers : /\ keeping[k].step \in {"create", "insert"}
                                     /\ a \in keeping[k].about
Closing(a) == \E k \in Bookkeepers : /\ keeping[k].step \in {"deactivate", "delete"}
                                     /\ a \in keeping[k].about

BeginKeeping(k, step, about) ==
    /\ keeping[k].step = "idle"
    /\ keeping' = [keeping EXCEPT ![k] = [step |-> step, about |-> about]]
    /\ UNCHANGED <<books, report>>

FinishKeeping(k) == keeping' = [keeping EXCEPT ![k] = NotKeeping]

-----------------------------------------------------------------------------
(* updateAccount, removeAccount                                            *)

\* The count of the account's lines, before it is deactivated or deleted.
CloseRead(k, a, step) ==
    /\ step \in {"deactivate", "delete"}
    /\ a \in Steady => ~Opening(a)
    /\ Exists(a)
    /\ Lines(a) = {}
    /\ BeginKeeping(k, step, {a})

\* The update fails on an account deleted since.
CloseCommit(k, a) ==
    /\ keeping[k].step \in {"deactivate", "delete"} /\ keeping[k].about = {a}
    /\ account' = IF ~Exists(a) THEN account
                  ELSE IF keeping[k].step = "delete"
                  THEN [account EXCEPT ![a].deleted = TRUE]
                  ELSE [account EXCEPT ![a].active = FALSE]
    /\ FinishKeeping(k)
    /\ UNCHANGED <<voucher, mirrors, report>>

\* updateAccount with active: true.
Reopen(a) ==
    /\ Exists(a) /\ ~account[a].active
    /\ account' = [account EXCEPT ![a].active = TRUE]
    /\ UNCHANGED <<voucher, mirrors, keeping, report>>

-----------------------------------------------------------------------------
(* createEntry, approveEntry, reverseEntry                                 *)

\* Mutant: a closed account can be named in an entry.
ExistsOnly(a)   == Exists(a)
\* A manual entry names active accounts only.
MayBeEntered(a) == Kept(a)

CreateRead(k, d, c) ==
    /\ d # c
    /\ \A a \in {d, c} : MayBeEntered(a) /\ (a \in Steady => ~Closing(a))
    /\ BeginKeeping(k, "create", {d, c})

\* post() resolves the account codes again; a deleted account is not found.
Resolve(k) ==
    /\ keeping[k].step = "create"
    /\ keeping' = IF \A a \in keeping[k].about : Exists(a)
                  THEN [keeping EXCEPT ![k].step = "insert"]
                  ELSE [keeping EXCEPT ![k] = NotKeeping]
    /\ UNCHANGED <<books, report>>

Insert(k, e) ==
    /\ keeping[k].step = "insert"
    /\ voucher[e] = NoVoucher
    /\ \E d, c \in keeping[k].about :
         d # c /\ voucher' = [voucher EXCEPT ![e] = Entry("DRAFT", d, c)]
    /\ FinishKeeping(k)
    /\ UNCHANGED <<account, mirrors, report>>

\* A document is posted (Ledger.tla): inactive accounts are good enough.
AutoPost(e, d, c) ==
    /\ voucher[e] = NoVoucher
    /\ d # c /\ Exists(d) /\ Exists(c)
    /\ \A a \in {d, c} \cap Steady : Kept(a) /\ ~Closing(a)
    /\ voucher' = [voucher EXCEPT ![e] = Entry("POSTED", d, c)]
    /\ UNCHANGED <<account, mirrors, keeping, report>>

ApproveRead(k, e) == voucher[e].status = "DRAFT" /\ BeginKeeping(k, "approve", {e})

\* The entry is updated by id alone.
ApproveCommit(k, e) ==
    /\ keeping[k].step = "approve" /\ keeping[k].about = {e}
    /\ voucher' = [voucher EXCEPT ![e].status = "POSTED"]
    /\ FinishKeeping(k)
    /\ UNCHANGED <<account, mirrors, report>>

ReverseRead(k, e) == voucher[e].status = "POSTED" /\ BeginKeeping(k, "reverse", {e})

\* Mutant: neither post() nor the index on reversalOfId looks for a reversal.
AnyMirror(e)   == \A a \in AccountsOf(e) : Exists(a)
\* post() and the unique index on reversalOfId let one reversal through.
Reversible(e)  == mirrors[e] = 0 /\ \A a \in AccountsOf(e) : Exists(a)

ReverseCommit(k, e) ==
    /\ keeping[k].step = "reverse" /\ keeping[k].about = {e}
    /\ IF Reversible(e)
       THEN /\ mirrors' = [mirrors EXCEPT ![e] = @ + 1]
            /\ voucher' = [voucher EXCEPT ![e].status = "REVERSED"]
       ELSE UNCHANGED <<mirrors, voucher>>
    /\ FinishKeeping(k)
    /\ UNCHANGED <<account, report>>

-----------------------------------------------------------------------------
(* Reports: every figure is an aggregate over posted entries.  The accounts *)
(* are read after the lines were added up, and the balance sheet has its   *)
(* net income from a second aggregate; there is no transaction around them.*)
(* Reports change nothing, so one at a time is enough.                     *)

PostedEntries == {e \in Vouchers : voucher[e].status = "POSTED"}
Mirrored(S)   == SumFunctionOnSet(mirrors, S)

\* accountBalances: the debits and the credits of an account; the lines of a
\* reversal are those of its voucher with the sides exchanged.
Debits(a)  == Cardinality({e \in PostedEntries : voucher[e].debit = a})
              + Mirrored({e \in Vouchers : voucher[e].credit = a})
Credits(a) == Cardinality({e \in PostedEntries : voucher[e].credit = a})
              + Mirrored({e \in Vouchers : voucher[e].debit = a})
Net(a)     == Debits(a) - Credits(a)

Balances == [a \in Accounts |-> [debit |-> Debits(a), credit |-> Credits(a)]]

\* The accounts a report lists, and what its lines add up to.
Listed(types)      == {a \in Accounts : Kept(a) /\ AccountType[a] \in types}
TotalDebit(b, S)   == SumFunctionOnSet([a \in Accounts |-> b[a].debit], S)
TotalCredit(b, S)  == SumFunctionOnSet([a \in Accounts |-> b[a].credit], S)
TotalNet(b, types) == TotalDebit(b, Listed(types)) - TotalCredit(b, Listed(types))

AllTypes    == {"ASSET", "LIABILITY", "EQUITY", "INCOME", "EXPENSE"}
ProfitTypes == {"INCOME", "EXPENSE"}

NoBalances == [a \in Accounts |-> [debit |-> 0, credit |-> 0]]
NotReporting == [step |-> "idle", balances |-> NoBalances, later |-> NoBalances,
                 left |-> 0, right |-> 0]

\* The first aggregate of trialBalance or of balanceSheet.
ReportRead(step) ==
    /\ report = NotReporting /\ step \in {"trial", "sheet"}
    /\ report' = [NotReporting EXCEPT !.step = step, !.balances = Balances]
    /\ UNCHANGED <<books, keeping>>

\* trialBalance: totalDebit and totalCredit of the accounts listed.
TrialBalance ==
    /\ report.step = "trial"
    /\ report' = [report EXCEPT !.step = "trialDone",
                    !.left  = TotalDebit(report.balances, Listed(AllTypes)),
                    !.right = TotalCredit(report.balances, Listed(AllTypes))]
    /\ UNCHANGED <<books, keeping>>

\* balanceSheet up to the call of profitLoss: totalAssets, and liabilities and
\* equity without the net income.
BalanceSheet ==
    /\ report.step = "sheet"
    /\ report' = [report EXCEPT !.step = "profit",
                    !.left  = TotalNet(report.balances, {"ASSET"}),
                    !.right = -TotalNet(report.balances, {"LIABILITY", "EQUITY"})]
    /\ UNCHANGED <<books, keeping>>

\* profitLoss: a new aggregate, and the accounts once more.
ProfitRead ==
    /\ report.step = "profit"
    /\ report' = [report EXCEPT !.step = "income", !.later = Balances]
    /\ UNCHANGED <<books, keeping>>

\* The net income makes totalLiabilitiesAndEquity.
ProfitLoss ==
    /\ report.step = "income"
    /\ report' = [report EXCEPT !.step = "sheetDone",
                    !.right = @ - TotalNet(report.later, ProfitTypes)]
    /\ UNCHANGED <<books, keeping>>

Answer ==
    /\ report.step \in {"trialDone", "sheetDone"}
    /\ report' = NotReporting
    /\ UNCHANGED <<books, keeping>>

-----------------------------------------------------------------------------
JournalsInit ==
    /\ account = [a \in Accounts |-> [active |-> TRUE, deleted |-> FALSE]]
    /\ voucher = [e \in Vouchers |-> NoVoucher]
    /\ mirrors = [e \in Vouchers |-> 0]
    /\ keeping = [k \in Bookkeepers |-> NotKeeping]
    /\ report = NotReporting

Keeping(k) ==
    \/ \E a \in Accounts, step \in KeepingSteps : CloseRead(k, a, step)
    \/ \E d, c \in Accounts : CreateRead(k, d, c)
    \/ \E a \in Accounts : CloseCommit(k, a)
    \/ \E e \in Vouchers : \/ Insert(k, e)
                           \/ ApproveRead(k, e) \/ ApproveCommit(k, e)
                           \/ ReverseRead(k, e) \/ ReverseCommit(k, e)
    \/ Resolve(k)

JournalsNext ==
    \/ \E a \in Accounts : Reopen(a)
    \/ \E e \in Vouchers, d, c \in Automatic : AutoPost(e, d, c)
    \/ \E k \in Bookkeepers : Keeping(k)
    \/ \E step \in {"trial", "sheet"} : ReportRead(step)
    \/ TrialBalance \/ BalanceSheet \/ ProfitRead \/ ProfitLoss \/ Answer

JournalsSpec == JournalsInit /\ [][JournalsNext]_journalVars

-----------------------------------------------------------------------------
JournalsTypeOK ==
    /\ account \in [Accounts -> [active : BOOLEAN, deleted : BOOLEAN]]
    /\ voucher \in [Vouchers -> [status : VoucherStatus,
                                 debit : Accounts \cup {NoAccount},
                                 credit : Accounts \cup {NoAccount}]]
    /\ mirrors \in [Vouchers -> Nat]
    /\ keeping \in [Bookkeepers -> [step : KeepingSteps,
                                    about : SUBSET (Accounts \cup Vouchers)]]
    /\ report \in [step : ReportSteps, left : Int, right : Int,
                   balances : [Accounts -> [debit : Nat, credit : Nat]],
                   later : [Accounts -> [debit : Nat, credit : Nat]]]

\* "This entry has already been reversed" (reverseEntry): however approvals
\* and reversals of one entry race, it is mirrored at most once, and an entry
\* that says it is reversed is.
MirroredOnce ==
    \A e \in Vouchers : /\ mirrors[e] <= 1
                        /\ voucher[e].status = "REVERSED" => mirrors[e] = 1

\* No income or expense was posted between the aggregates of a balance sheet.
SameProfit ==
    \A a \in Accounts : AccountType[a] \in ProfitTypes => report.balances[a] = report.later[a]

\* "balanced: totalDebit === totalCredit" (trialBalance) and the two totals of
\* balanceSheet: as long as every entry is on accounts that are not closed
\* under it, a trial balance balances, whatever is posted, approved, reversed
\* or closed between its reads; so does a balance sheet, unless an income or
\* an expense is posted or reversed between its two aggregates.
BooksBalance ==
    (\A e \in Entered : AccountsOf(e) \subseteq Steady) =>
      /\ report.step = "trialDone" => report.left = report.right
      /\ report.step = "sheetDone" /\ SameProfit => report.left = report.right

\* "Net effect is zero: posting the original and its reversal balance out"
\* (the test of reverseEntry): an account whose entries are all reversed.
ReversalNetsToZero ==
    \A a \in Accounts : (\A e \in Lines(a) : mirrors[e] = 1) => Net(a) = 0
=============================================================================
