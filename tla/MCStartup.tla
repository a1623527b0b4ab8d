----------------------------- MODULE MCStartup -----------------------------
(* The instance of Startup for TLC: the model and the config of one Piper  *)
(* voice, whose file names begin alike, and two adapters.                  *)
EXTENDS Startup

VoiceFiles == <<"onnx", "json">>
SweptFiles == [onnx |-> {"onnx", "json"}, json |-> {"json"}]
TwoAdapters == <<"stt", "tts">>
BothWays == <<"ab", "ba">>
===========================================================================
