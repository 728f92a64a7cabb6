--------------------------- MODULE MCParallelFor ---------------------------
(* One small call for TLC. *)
EXTENDS ParallelFor
=============================================================================
