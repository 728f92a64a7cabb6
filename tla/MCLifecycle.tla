---------------------------- MODULE MCLifecycle ----------------------------
(* Two engines for TLC. *)
EXTENDS Lifecycle
=============================================================================
