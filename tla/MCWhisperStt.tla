--------------------------- MODULE MCWhisperStt ----------------------------
(* The instance of WhisperStt for TLC. *)
EXTENDS WhisperStt
===========================================================================
