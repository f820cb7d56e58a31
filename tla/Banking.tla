------------------------------ MODULE Banking ------------------------------
(***************************************************************************)
(* Bank accounts, imported statement lines and reconciliations             *)
(* (BankingService).  An import looks at the account and inserts the lines *)
(* later; a reconciliation reads its lines and claims them by id in one    *)
(* transaction, with a snapshot for each of its two statements.  A line    *)
(* is a debit or a credit; the balance of an account is computed.          *)
(***************************************************************************)
EXTENDS Integers, FiniteSets, FiniteSetsExt

CONSTANTS
    BankAccounts,
    Codes,          \* values of BankAccount.accountCode
    StatementLines,
    Tellers,        \* requests in progress at the same time
    LineAmounts,    \* credits (positive) and debits (negative) of a line
    Exclusive,      \* accounts of which no two reconciliations overlap
    MaxRuns,        \* bound on reconciliations
    NoBank

ASSUME BankingAssumption ==
    /\ LineAmounts \subseteq Int \ {0}
    /\ Exclusive \subseteq BankAccounts
    /\ MaxRuns \in Nat
    /\ NoBank \notin BankAccounts \cup Codes

VARIABLES
    bank,      \* BankAccount rows: status and accountCode
    line,      \* BankStatementLine rows: account, amount, reconciliationId (0: none)
    runs,      \* BankReconciliation rows: id, account, and the lines each asked for
    banking    \* each request: where it is, and the account, code or lines it is about

bankVars == <<bank, line, runs, banking>>

BankSteps  == {"idle", "open", "recode", "import", "claim"}
NoBankRow  == [status |-> "NONE", code |-> NoBank]
NoLine     == [bank |-> NoBank, amount |-> 0, run |-> 0]
NotBanking == [step |-> "idle", bank |-> NoBank, code |-> NoBank, lines |-> {}]

Task(step, b, c, ls) == [step |-> step, bank |-> b, code |-> c, lines |-> ls]

BeginBanking(t, task) ==
    /\ banking[t].step = "idle"
    /\ banking' = [banking EXCEPT ![t] = task]
    /\ UNCHANGED <<bank, line, runs>>

FinishBanking(t) == banking' = [banking EXCEPT ![t] = NotBanking]

Live(b)       == bank[b].status = "LIVE"
\* The check before the insert looks at accounts that are not deleted ...
CodeFree(c)   == \A b \in BankAccounts : Live(b) => bank[b].code # c

\* Mutant: the unique index leaves deleted accounts out as well.
IndexableLive(b, c) == c # NoBank => \A o \in BankAccounts \ {b} : Live(o) => bank[o].code # c
\* ... and the unique index at all of them.  An account need not have a code.
Indexable(b, c) == c # NoBank => \A o \in BankAccounts \ {b} : bank[o].code # c

-----------------------------------------------------------------------------
(* createAccount, updateAccount, removeAccount                             *)

OpenRead(t, b, c) ==
    /\ bank[b].status = "NONE"
    /\ \A u \in Tellers : banking[u].bank # b
    /\ c # NoBank => CodeFree(c)
    /\ BeginBanking(t, Task("open", b, c, {}))

RecodeRead(t, b, c) ==
    /\ Live(b)
    /\ c \notin {NoBank, bank[b].code} => CodeFree(c)
    /\ BeginBanking(t, Task("recode", b, c, {}))

\* The insert, or the update by id, which fails on an account deleted since.
SaveAccount(t) ==
    LET b == banking[t].bank
        c == banking[t].code
    IN  /\ banking[t].step \in {"open", "recode"}
        /\ IF ~Indexable(b, c) \/ bank[b].status = "DELETED"
           THEN UNCHANGED bank
           ELSE bank' = [bank EXCEPT ![b].code = c,
                                     ![b].status = IF @ = "NONE" THEN "LIVE" ELSE @]
        /\ FinishBanking(t)
        /\ UNCHANGED <<line, runs>>

RemoveAccount(b) ==
    /\ Live(b)
    /\ bank' = [bank EXCEPT ![b].status = "DELETED"]
    /\ UNCHANGED <<line, runs, banking>>

-----------------------------------------------------------------------------
(* importStatement                                                         *)

ImportRead(t, b) == Live(b) /\ BeginBanking(t, Task("import", b, NoBank, {}))

\* The line is inserted even when the account was deleted in between.
ImportLine(t, l, x) ==
    /\ banking[t].step = "import"
    /\ line[l] = NoLine
    /\ line' = [line EXCEPT ![l] = [bank |-> banking[t].bank, amount |-> x, run |-> 0]]
    /\ FinishBanking(t)
    /\ UNCHANGED <<bank, runs>>

-----------------------------------------------------------------------------
(* reconcile                                                               *)

\* Mutant: the lines are not looked at.
AnyLines(b, ls)    == ls # {}
\* Every line belongs to the account and is not reconciled yet.
Claimable(b, ls)   == ls # {} /\ \A l \in ls : line[l].bank = b /\ line[l].run = 0

ReconcileRead(t, b, ls) ==
    /\ Live(b)
    /\ Claimable(b, ls)
    /\ b \in Exclusive => \A u \in Tellers : banking[u].step = "claim" => banking[u].bank # b
    /\ BeginBanking(t, Task("claim", b, NoBank, ls))

\* The lines are claimed by id, whoever claimed them in the meantime.
ReconcileCommit(t) ==
    LET run == Cardinality(runs) + 1
        ls  == banking[t].lines
    IN  /\ banking[t].step = "claim"
        /\ run <= MaxRuns
        /\ runs' = runs \cup {[id |-> run, bank |-> banking[t].bank, lines |-> ls]}
        /\ line' = [l \in StatementLines |->
                      IF l \in ls THEN [line[l] EXCEPT !.run = run] ELSE line[l]]
        /\ FinishBanking(t)
        /\ UNCHANGED bank

-----------------------------------------------------------------------------
BankInit ==
    /\ bank = [b \in BankAccounts |-> NoBankRow]
    /\ line = [l \in StatementLines |-> NoLine]
    /\ runs = {}
    /\ banking = [t \in Tellers |-> NotBanking]

AtTheBank(t) ==
    \/ \E b \in BankAccounts, c \in Codes \cup {NoBank} : OpenRead(t, b, c) \/ RecodeRead(t, b, c)
    \/ \E b \in BankAccounts : ImportRead(t, b)
    \/ \E b \in BankAccounts, ls \in SUBSET StatementLines : ReconcileRead(t, b, ls)
    \/ \E l \in StatementLines, x \in LineAmounts : ImportLine(t, l, x)
    \/ SaveAccount(t) \/ ReconcileCommit(t)

BankNext ==
    \/ \E b \in BankAccounts : RemoveAccount(b)
    \/ \E t \in Tellers : AtTheBank(t)

BankSpec == BankInit /\ [][BankNext]_bankVars

-----------------------------------------------------------------------------
BankTypeOK ==
    /\ bank \in [BankAccounts -> [status : {"NONE", "LIVE", "DELETED"},
                                  code : Codes \cup {NoBank}]]
    /\ \A b, o \in BankAccounts : bank[b].code = bank[o].code /\ bank[b].code # NoBank => b = o
    /\ line \in [StatementLines -> [bank : BankAccounts \cup {NoBank},
                                    amount : LineAmounts \cup {0}, run : Nat]]
    /\ \A n \in runs : n.id \in Nat /\ n.bank \in BankAccounts /\ n.lines \subseteq StatementLines
    /\ banking \in [Tellers -> [step : BankSteps, bank : BankAccounts \cup {NoBank},
                                code : Codes \cup {NoBank}, lines : SUBSET StatementLines]]

\* "statement line(s) are already reconciled" (reconcile): a line of an
\* account whose reconciliations do not overlap is claimed by one of them, and
\* every reconciliation keeps the lines it asked for.  (Of two that overlap
\* the second takes the lines of the first.)
ClaimedOnce ==
    \A n \in runs : n.bank \in Exclusive =>
      \A l \in n.lines : line[l].bank = n.bank /\ line[l].run = n.id
=============================================================================
