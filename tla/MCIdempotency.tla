--------------------------- MODULE MCIdempotency ---------------------------
(* An instance of Idempotency for TLC: two attempts with one key.          *)
EXTENDS Idempotency
=============================================================================
