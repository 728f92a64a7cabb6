---------------------------- MODULE MCWorkQueue ----------------------------
(* Small pools for TLC: threads and closures are interchangeable. *)
EXTENDS WorkQueue, TLC

Symmetry == Permutations(Task) \cup Permutations(Worker)
=============================================================================
