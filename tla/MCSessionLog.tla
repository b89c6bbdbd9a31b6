--------------------------- MODULE MCSessionLog ---------------------------
(* SessionLog for TLC. *)
EXTENDS SessionLog
=============================================================================
