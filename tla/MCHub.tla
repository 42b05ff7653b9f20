--------------------------------- MODULE MCHub --------------------------------
(* Hub for TLC: the constants are given in the configurations. *)
EXTENDS Hub, TLC

(* No definition names a circuit, or a value other than NoValues. *)
ClaimSymmetry == Permutations(Circuits) \cup Permutations(Values)
=============================================================================
