----------------------------- MODULE MCDiffJobs -----------------------------
(* A few diffs at a time for TLC. *)
EXTENDS DiffJobs
=============================================================================
