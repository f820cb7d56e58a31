----------------------------- MODULE MCJournals -----------------------------
(* An instance of Journals for TLC: one voucher on two accounts.           *)
EXTENDS Journals, TLC

CONSTANTS cash, sales

TypeEach == [a \in Accounts |-> IF a = cash THEN "ASSET" ELSE "INCOME"]
=============================================================================
