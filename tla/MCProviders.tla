---------------------------- MODULE MCProviders -----------------------------
(* The instance of Providers for TLC. *)
EXTENDS Providers

BothBackends == {"realtime", "gemini"}
===========================================================================
