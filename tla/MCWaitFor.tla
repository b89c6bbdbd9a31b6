----------------------------- MODULE MCWaitFor -----------------------------
(* WaitFor for TLC: a two-byte pattern that chunks and lines can cut, and  *)
(* a ring that two writes overrun.                                         *)
EXTENDS WaitFor

MCChunk == {<<"o">>, <<"k">>, <<"n">>, <<"o", "k">>, <<"n", "o">>}
MCPattern == <<"o", "k">>
=============================================================================
