------------------------------ MODULE MCAztecSBT ------------------------------
(* AztecSBT for TLC: the constants are given in the configurations. *)
EXTENDS AztecSBT
=============================================================================
