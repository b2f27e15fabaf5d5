---------------------------- MODULE MC_ConfigCache ----------------------------
(* ConfigCache on one action and two fields; processes are interchangeable. *)
EXTENDS ConfigCache, TLC

Symmetry == Permutations(Procs)
=============================================================================
