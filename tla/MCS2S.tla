------------------------------- MODULE MCS2S -------------------------------
(* The instances of S2S for TLC. *)
EXTENDS S2S
===========================================================================
