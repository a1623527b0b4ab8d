----------------------------- MODULE EnergyVad -----------------------------
(***************************************************************************)
(* EnergyVAD of vad.py: a frame is speech when it is loud, or when it is   *)
(* quiet and less than the hangover has passed since the last loud one.    *)
(*                                                                         *)
(* Time is counted in frames, which all have the same duration; a frame's  *)
(* RMS against the threshold is its field loud.                            *)
(***************************************************************************)
EXTENDS Naturals, Sequences

CONSTANT Hangover     \* hangover_ms, in frames

ASSUME HangoverAssumption == Hangover \in Nat

VadStart == [inSpeech |-> FALSE, silence |-> 0]

(* is_speech(): the state after a frame; its verdict is the new inSpeech. *)
VadAfter(vad, frame) ==
  IF frame.loud THEN [inSpeech |-> TRUE, silence |-> 0]
  ELSE IF vad.inSpeech
    THEN [inSpeech |-> vad.silence + 1 < Hangover, silence |-> vad.silence + 1]
    ELSE vad

(* What the verdict on frame i is meant to be, given which were loud. *)
IsSpeech(loud, i) ==
  \/ loud[i]
  \/ \E j \in 1..(i - 1) : loud[j] /\ i - j < Hangover
===========================================================================
