------------------------------ MODULE MCPayments ------------------------------
(* Payments for TLC: the constants are given in the configurations. *)
EXTENDS Payments
=============================================================================
