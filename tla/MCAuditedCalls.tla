-------------------------- MODULE MCAuditedCalls --------------------------
(* AuditedCalls for TLC. *)
EXTENDS AuditedCalls

MCEntry == (Call \X {"first", "last"}) \union (Bundle \X {"bundle"})
=============================================================================
