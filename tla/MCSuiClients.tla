----------------------------- MODULE MCSuiClients -----------------------------
(* SuiClients for TLC: the constants are given in the configurations. *)
EXTENDS SuiClients
=============================================================================
