------------------------------- MODULE MCJobs -------------------------------
(* Small job registries for TLC. *)
EXTENDS Jobs
=============================================================================
