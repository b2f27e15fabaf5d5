------------------------ MODULE MC_PullObservations ------------------------
(* PullObservations on small instances; invocations and devices are interchangeable. *)
EXTENDS PullObservations, TLC

Symmetry == Permutations(Runs) \cup Permutations(Devices)
=============================================================================
