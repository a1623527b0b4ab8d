---------------------------- MODULE MCPiperTts -----------------------------
(* The instance of PiperTts for TLC. *)
EXTENDS PiperTts
===========================================================================
