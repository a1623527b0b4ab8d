---------------------------- MODULE MCPipeline ----------------------------
(* Instances of the pipeline for TLC; the constants are in the cfg files. *)
EXTENDS Pipeline

NoFaults  == {}
AllFaults == FaultKinds
OnlyCancel == {"cancel"}
OnlyPlayback == {"playback"}
===========================================================================
