-------------------------- MODULE Interpretation --------------------------
(***************************************************************************)
(* What a listener is promised, with none of the machinery: units of       *)
(* translated speech are heard one at a time and in source order, none of  *)
(* them twice, and an utterance that was interrupted is silenced for good. *)
(*                                                                         *)
(* It is what a barge-in and the playback of a queue leave of pipeline.py  *)
(* and audio_io.py for somebody who only listens: _present() begins and    *)
(* ends a unit, _handle_barge_in() interrupts.  Pipeline.tla implements    *)
(* this module.                                                            *)
(***************************************************************************)
CONSTANTS
  Owner(_),        \* the utterance a unit of speech is part of
  Precedes(_, _),  \* Precedes(u, v): u is heard before v
  Silence          \* no unit: nothing heard yet, or nothing sounding

VARIABLES
  heard,           \* the last unit that began to sound
  sounding,        \* the unit sounding now
  interrupted,     \* the utterances a barge-in has hit
  silenced         \* those of them whose audio is gone for good

vars == <<heard, sounding, interrupted, silenced>>

Init ==
  /\ heard = Silence
  /\ sounding = Silence
  /\ interrupted = {}
  /\ silenced = {}

(* Utterances fall silent: interrupted ones only, and none of them returns. *)
Quieten ==
  /\ silenced \subseteq silenced'
  /\ silenced' \subseteq interrupted'

(* A unit begins: after every unit heard so far, and of no silenced one. *)
Begin ==
  /\ sounding = Silence
  /\ sounding' # Silence
  /\ heard = Silence \/ Precedes(heard, sounding')
  /\ Owner(sounding') \notin silenced
  /\ heard' = sounding'
  /\ UNCHANGED <<interrupted, silenced>>

(* A unit ends or is cut short. *)
End ==
  /\ sounding # Silence
  /\ sounding' = Silence
  /\ UNCHANGED <<heard, interrupted>>
  /\ Quieten

(* A barge-in hits utterances, or discards audio nobody has heard yet. *)
Interrupt ==
  /\ interrupted \subseteq interrupted'
  /\ Quieten
  /\ sounding # Silence => Owner(sounding) \notin silenced'
  /\ UNCHANGED <<heard, sounding>>

Next == Begin \/ End \/ Interrupt

Spec == Init /\ [][Next]_vars
===========================================================================
