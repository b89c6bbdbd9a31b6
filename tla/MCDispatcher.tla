---------------------------- MODULE MCDispatcher ----------------------------
(* Dispatcher for TLC: r1 and r2 use the same id, n is a notification.     *)
EXTENDS Dispatcher

MCRequest == {"r1", "r2", "r3", "n"}
MCKeyOf == [r1 |-> 1, r2 |-> 1, r3 |-> 3, n |-> 0]
=============================================================================
