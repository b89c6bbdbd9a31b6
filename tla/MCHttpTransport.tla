-------------------------- MODULE MCHttpTransport --------------------------
(* HttpTransport for TLC: two clients that use the same JSON-RPC ids; B's   *)
(* batch holds a cancellation and an initialize whose handler may stall.    *)
EXTENDS HttpTransport

MCClient == [initA |-> "A", workA |-> "A", stopA |-> "A", workB |-> "B"]
MCPost == DOMAIN MCClient
M(kind, id) == [kind |-> kind, id |-> id]
MCBody == [initA |-> <<M("initialize", 1)>>,
           workA |-> <<M("request", 1), M("bad", 0), M("notification", 0)>>,
           stopA |-> <<M("cancel", 1)>>,
           workB |-> <<M("cancel", 1), M("initialize", 1)>>]
=============================================================================
