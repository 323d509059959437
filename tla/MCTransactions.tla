--------------------------- MODULE MCTransactions ---------------------------
(* Two transactions of one charger, a register of two units. *)
EXTENDS Transactions
=============================================================================
