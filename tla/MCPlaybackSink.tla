-------------------------- MODULE MCPlaybackSink --------------------------
(* A small sink for TLC: two kinds of chunk, three generations. *)
EXTENDS PlaybackSink

CONSTANTS a, b
MCUnit == {a, b}
===========================================================================
