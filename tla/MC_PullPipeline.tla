--------------------------- MODULE MC_PullPipeline ---------------------------
(* PullPipeline on every snapshot of a few rows over two devices. *)
EXTENDS PullPipeline

(* One fleet-wide offset, west or east of the clock's zone. *)
WestAndEast == {-1, 0, 1}
=============================================================================
