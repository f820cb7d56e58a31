------------------------------- MODULE Ledger -------------------------------
(***************************************************************************)
(* The auto-posting engine (LedgerService): which accounts an entry of     *)
(* each source type debits and credits, and posting that is idempotent per *)
(* (sourceType, sourceId).                                                 *)
(*                                                                         *)
(* A journal is a set of entries.  Revenue and output VAT, which an entry  *)
(* always moves together, are one account here, and so are inventory and   *)
(* input VAT of a purchase: an entry is a debit account, a credit account  *)
(* and an amount, balanced like the two or three lines it stands for.      *)
(***************************************************************************)
EXTENDS Integers, FiniteSets, FiniteSetsExt

\* The account (or pair of accounts) an entry debits and the one it credits.
DebitOf ==
    [SALE_INVOICE          |-> "AR",        SALE_VOID                 |-> "Revenue",
     SALE_COGS             |-> "COGS",      SALE_COGS_REVERSAL        |-> "Inventory",
     SALE_PAYMENT          |-> "Cash",      SALE_PAYMENT_REVERSAL     |-> "AR",
     CREDIT_NOTE           |-> "Revenue",
     PURCHASE_INVOICE      |-> "Inventory", PURCHASE_VOID             |-> "AP",
     PURCHASE_PAYMENT      |-> "AP",        PURCHASE_PAYMENT_REVERSAL |-> "Cash"]

CreditOf ==
    [SALE_INVOICE          |-> "Revenue",   SALE_VOID                 |-> "AR",
     SALE_COGS             |-> "Inventory", SALE_COGS_REVERSAL        |-> "COGS",
     SALE_PAYMENT          |-> "AR",        SALE_PAYMENT_REVERSAL     |-> "Cash",
     CREDIT_NOTE           |-> "AR",
     PURCHASE_INVOICE      |-> "AP",        PURCHASE_VOID             |-> "Inventory",
     PURCHASE_PAYMENT      |-> "Cash",      PURCHASE_PAYMENT_REVERSAL |-> "AP"]

SourceType == DOMAIN DebitOf

\* The entries of one source, and whether post() would find one.
EntriesOf(journal, type, source) == {e \in journal : e.type = type /\ e.source = source}
Posted(journal, type, source) == EntriesOf(journal, type, source) # {}

\* "copy" keeps two entries of one source apart, as their entry numbers would.
AddEntry(journal, type, source, amount) ==
    journal \cup {[type |-> type, source |-> source, amount |-> amount,
                   copy |-> Cardinality(EntriesOf(journal, type, source)) + 1]}

\* post(): nothing when the source was already posted.
Post(journal, type, source, amount) ==
    IF Posted(journal, type, source)
    THEN journal
    ELSE AddEntry(journal, type, source, amount)

\* post() rejects an entry with a line that has neither a debit nor a credit:
\* a document whose tax, or whose net amount, is zero cannot be posted.
Postable(total, tax) == tax > 0 /\ total > tax

\* What a set of entries, or of payments, adds up to.
AmountOf(rows) == SumFunction([e \in rows |-> e.amount])

\* Debits minus credits of an account over a set of entries.
Balance(account, entries) ==
    AmountOf({e \in entries : DebitOf[e.type] = account})
  - AmountOf({e \in entries : CreditOf[e.type] = account})
=============================================================================
