-------------------------- MODULE PlaybackContract --------------------------
(***************************************************************************)
(* What an AudioSink promises those who play audio through it (types.py).  *)
(*                                                                         *)
(* One generation owns the sink at a time.  Its chunks begin to sound in   *)
(* the order they were accepted, complete in that order, and not before    *)
(* they were heard; a stop ends all of its generation and nothing else,    *)
(* and nothing of it is accepted or begins to sound again.  What stays     *)
(* open is when: how soon a chunk sounds, and how many complete at once.   *)
(***************************************************************************)
EXTENDS Naturals, FiniteSets

CONSTANT Capacity   \* how many chunks may wait or sound

VARIABLES
  genSeq,     \* the last generation issued
  stopped,    \* the generations that were stopped
  playing,    \* the chunks accepted and not yet resolved
  accepted,   \* how many chunks were ever accepted, which numbers them
  begun,      \* the number of the last chunk that has begun to sound
  soundless   \* the numbers of chunks in which nothing sounds

vars == <<genSeq, stopped, playing, accepted, begun, soundless>>

Init ==
  /\ genSeq = 0 /\ stopped = {} /\ playing = {} /\ accepted = 0 /\ begun = 0
  /\ soundless = {}

(* new_generation(): a later one than all before. *)
NewGeneration ==
  /\ genSeq' = genSeq + 1
  /\ UNCHANGED <<stopped, playing, accepted, begun, soundless>>

(* schedule() of a generation that was not stopped, once there is room and *)
(* no other generation owns the sink.                                      *)
Accept(g) ==
  /\ g \notin stopped
  /\ Cardinality(playing) < Capacity
  /\ \A c \in playing : c.gen = g
  /\ accepted' = accepted + 1
  /\ playing' = playing \cup {[order |-> accepted', gen |-> g]}
  /\ soundless' \subseteq soundless \cup {accepted'}
  /\ UNCHANGED <<genSeq, stopped, begun>>

(* The first sample of a chunk is audible. *)
Begin(c) ==
  /\ c \in playing /\ begun < c.order
  /\ begun' = c.order
  /\ UNCHANGED <<genSeq, stopped, playing, accepted, soundless>>

(* The first chunks that play have been heard, and complete. *)
Complete ==
  /\ playing' \subseteq playing
  /\ \A c \in playing \ playing' :
       /\ c.order <= begun \/ c.order \in soundless
       /\ \A other \in playing' : c.order < other.order
  /\ soundless' \subseteq soundless
  /\ UNCHANGED <<genSeq, stopped, accepted, begun>>

(* stop(): the chunks of g are resolved, and no others. *)
Stop(g) ==
  /\ stopped' = stopped \cup {g}
  /\ playing' = {c \in playing : c.gen # g}
  /\ soundless' \subseteq soundless
  /\ UNCHANGED <<genSeq, accepted, begun>>

(* aclose(): everything is resolved. *)
Close ==
  /\ playing' = {} /\ soundless' = {}
  /\ UNCHANGED <<genSeq, stopped, accepted, begun>>

Next ==
  \/ NewGeneration
  \/ \E g \in 1..genSeq : Accept(g) \/ Stop(g)
  \/ \E c \in playing : Begin(c)
  \/ Complete
  \/ Close

Spec == Init /\ [][Next]_vars
=============================================================================
