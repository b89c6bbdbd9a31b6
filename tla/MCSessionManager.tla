-------------------------- MODULE MCSessionManager --------------------------
(* SessionManager for TLC. *)
EXTENDS SessionManager, TLC

Symmetry == Permutations(Request)
=============================================================================
