--------------------------- MODULE MCScreenReader ---------------------------
(* ScreenReader for TLC: one byte per Write call of the terminal, and one  *)
(* two-byte slice, so that the ring is overrun inside a poll.              *)
EXTENDS ScreenReader

MCChunk == {<<"a">>, <<"$">>, <<"a", "a">>}
=============================================================================
