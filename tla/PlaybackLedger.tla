-------------------------- MODULE PlaybackLedger --------------------------
(***************************************************************************)
(* The playback contract of an audio sink: generations, the handles that   *)
(* are outstanding, and the schedule() calls that wait for capacity.       *)
(*                                                                         *)
(* Source: _GenerationLedger and FakeAudioSink of audio_io.py.  Every body *)
(* under the sink's condition runs without suspending, so each of them is  *)
(* one step; the only suspensions are the wait for capacity inside         *)
(* schedule() (a member of calls) and the presentation of a chunk (a       *)
(* handle that is sounding).                                               *)
(***************************************************************************)
EXTENDS Naturals, FiniteSets

CONSTANT Capacity     \* capacity: scheduled, unfinished chunks the sink holds

ASSUME CapacityAssumption == Capacity \in Nat \ {0}

VARIABLES
  genSeq,        \* gen_seq: the last generation token issued
  invalidated,   \* the generations that stop() has invalidated
  outstanding,   \* the handles scheduled and not yet finished or stopped
  accepted,      \* how many chunks were ever accepted: it orders the handles
  calls          \* the schedule() calls blocked in wait_for

ledgerVars == <<genSeq, invalidated, outstanding, accepted, calls>>

(***************************************************************************)
(* order stands for the chain of prev handles: a handle is presented after *)
(* every handle of a smaller order.                                        *)
(***************************************************************************)
Handle(Unit) == [order : Nat, gen : Nat, unit : Unit, sounding : BOOLEAN]
Call(Unit)   == [gen : Nat, unit : Unit]

LedgerInit ==
  /\ genSeq = 0
  /\ invalidated = {}
  /\ outstanding = {}
  /\ accepted = 0
  /\ calls = {}

(* Mutant of Schedulable: no wake-up when the generation is invalidated. *)
SchedulableIfRoom(g) ==
  /\ Cardinality(outstanding) < Capacity
  /\ \A h \in outstanding : h.gen = g

(* Mutant of Schedulable: a generation does not wait for the one before.  *)
SchedulableByAnyone(g) ==
  g \in invalidated \/ Cardinality(outstanding) < Capacity

(***************************************************************************)
(* schedulable(): wake on invalidation, or when there is room and no other *)
(* generation still has outstanding audio.                                 *)
(***************************************************************************)
Schedulable(g) ==
  \/ g \in invalidated
  \/ /\ Cardinality(outstanding) < Capacity
     /\ \A h \in outstanding : h.gen = g

(* Mutant of Admit: the generation is not checked again after the wait. *)
AdmitUnchecked(g, u) ==
  /\ outstanding' = outstanding \cup
       {[order |-> accepted, gen |-> g, unit |-> u, sounding |-> FALSE]}
  /\ accepted' = accepted + 1

(***************************************************************************)
(* The end of schedule(), once the condition holds: the generation is      *)
(* checked again, and the chunk is either rejected or becomes a handle.    *)
(***************************************************************************)
Admit(g, u) ==
  IF g \in invalidated
    THEN UNCHANGED <<outstanding, accepted>>
    ELSE /\ outstanding' = outstanding \cup
              {[order |-> accepted, gen |-> g, unit |-> u, sounding |-> FALSE]}
         /\ accepted' = accepted + 1

(* Mutant of Schedule: a chunk that finds no room is dropped. *)
ScheduleOrDrop(g, u) ==
  /\ IF Schedulable(g) THEN Admit(g, u) ELSE UNCHANGED <<outstanding, accepted>>
  /\ UNCHANGED <<invalidated, calls>>

(* schedule(): it returns or raises at once, or joins the blocked calls. *)
Schedule(g, u) ==
  /\ IF Schedulable(g)
       THEN Admit(g, u) /\ UNCHANGED calls
       ELSE /\ calls' = calls \cup {[gen |-> g, unit |-> u]}
            /\ UNCHANGED <<outstanding, accepted>>
  /\ UNCHANGED invalidated

(* A blocked call wakes, re-evaluates schedulable() and re-checks. *)
Resume(c) ==
  /\ c \in calls
  /\ Schedulable(c.gen)
  /\ calls' = calls \ {c}
  /\ Admit(c.gen, c.unit)
  /\ UNCHANGED <<genSeq, invalidated>>

(* Mutant of StartSounding: a chunk does not wait for its predecessors. *)
StartSoundingAtOnce(h) ==
  /\ h \in outstanding
  /\ ~h.sounding
  /\ outstanding' = (outstanding \ {h}) \cup {[h EXCEPT !.sounding = TRUE]}
  /\ UNCHANGED <<genSeq, invalidated, accepted, calls>>

(* _present(): a chunk becomes audible after all of its predecessors ended. *)
StartSounding(h) ==
  /\ h \in outstanding
  /\ ~h.sounding
  /\ \A other \in outstanding : h.order <= other.order
  /\ outstanding' = (outstanding \ {h}) \cup {[h EXCEPT !.sounding = TRUE]}
  /\ UNCHANGED <<genSeq, invalidated, accepted, calls>>

(* _present(): the chunk has been presented and leaves the ledger. *)
FinishSounding(h) ==
  /\ h \in outstanding
  /\ h.sounding
  /\ outstanding' = outstanding \ {h}
  /\ UNCHANGED <<genSeq, invalidated, accepted, calls>>

(* stop(): invalidate first, then resolve and release every handle of g. *)
Stop(g) ==
  /\ invalidated' = invalidated \cup {g}
  /\ outstanding' = {h \in outstanding : h.gen # g}
  /\ UNCHANGED <<genSeq, accepted, calls>>

(* The condition drain() waits for. *)
Drained == outstanding = {}
===========================================================================
