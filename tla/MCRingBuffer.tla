---------------------------- MODULE MCRingBuffer ----------------------------
(* RingBuffer for TLC: two writers, slices empty (a remote read with no   *)
(* output), shorter and longer than the array, enough bytes to wrap twice. *)
EXTENDS RingBuffer

MCChunk == {<<>>, <<"a">>, <<"b">>, <<"a", "b">>, <<"b", "a", "a", "b">>}
=============================================================================
