----------------------------- MODULE MCStellarSBT -----------------------------
(* StellarSBT for TLC: the constants are given in the configurations. *)
EXTENDS StellarSBT
=============================================================================
