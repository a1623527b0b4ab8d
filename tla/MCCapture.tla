----------------------------- MODULE MCCapture -----------------------------
(* The instance of Capture for TLC. *)
EXTENDS Capture
===========================================================================
