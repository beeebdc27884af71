--------------------------- MODULE MCTransaction ---------------------------
(* An instance of Transaction for TLC: one row per transaction, two names.    *)
EXTENDS Transaction
=============================================================================
