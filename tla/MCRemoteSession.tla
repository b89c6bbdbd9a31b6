-------------------------- MODULE MCRemoteSession --------------------------
(* RemoteSession for TLC. *)
EXTENDS RemoteSession
=============================================================================
