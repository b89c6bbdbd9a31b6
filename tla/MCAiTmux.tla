----------------------------- MODULE MCAiTmux -----------------------------
(* AiTmux for TLC. *)
EXTENDS AiTmux
=============================================================================
