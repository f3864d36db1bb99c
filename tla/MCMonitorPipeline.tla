------------------------- MODULE MCMonitorPipeline -------------------------
(***************************************************************************)
(* Small instances of MonitorPipeline.                                     *)
(***************************************************************************)
EXTENDS MonitorPipeline, TLC

TickSymmetry == Permutations(Executions) \cup Permutations(Sweepers)
=============================================================================
