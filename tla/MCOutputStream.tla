--------------------------- MODULE MCOutputStream ---------------------------
(* A short output session for TLC. *)
EXTENDS OutputStream
=============================================================================
