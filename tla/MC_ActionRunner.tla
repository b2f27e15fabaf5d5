-------------------------- MODULE MC_ActionRunner --------------------------
(* ActionRunner on one request at a time: requests share none of its state. *)
EXTENDS ActionRunner
=============================================================================
