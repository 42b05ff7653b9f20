------------------------------ MODULE MCHubBatch ------------------------------
(* HubBatch for TLC: the constants are given in the configurations. *)
EXTENDS HubBatch
=============================================================================
