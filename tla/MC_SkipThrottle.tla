--------------------------- MODULE MC_SkipThrottle ---------------------------
(* SkipThrottle on a few overlapping runs, which are interchangeable. *)
EXTENDS SkipThrottle, TLC

Symmetry == Permutations(Runs)
=============================================================================
