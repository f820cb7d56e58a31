----------------------------- MODULE MCTurnover -----------------------------
(* An instance of TurnoverTax for TLC: one month, listed from its first day *)
(* and from a later one.                                                    *)
EXTENDS TurnoverTax, TLC
=============================================================================
