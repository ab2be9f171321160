------------------------------ MODULE MCAgent ------------------------------
(* The components around the executors of the agent, for TLC.                 *)
EXTENDS Agent, TLC

(* The requests of the panel may be permuted: nothing puts them in order. *)
PanelSymmetry == Permutations(Requests)
=============================================================================
