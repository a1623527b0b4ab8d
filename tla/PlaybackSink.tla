--------------------------- MODULE PlaybackSink ---------------------------
(***************************************************************************)
(* A sink used by any number of concurrent callers.  They ask for          *)
(* generations, schedule chunks under any generation ever issued (a        *)
(* stopped one included) and stop generations, in any order.               *)
(***************************************************************************)
EXTENDS PlaybackLedger

CONSTANTS
  Unit,             \* what a chunk is told apart by
  MaxGenerations,   \* bound: generations the callers ask for
  MaxBlocked,       \* bound: schedule() calls blocked at the same time
  MaxAccepted       \* bound: chunks accepted in a run

VARIABLE lastStarted   \* history: how many handles up to the last one heard

sinkVars == <<ledgerVars, lastStarted>>

CallersInit == LedgerInit /\ lastStarted = 0

AskGeneration ==
  /\ genSeq < MaxGenerations
  /\ genSeq' = genSeq + 1
  /\ UNCHANGED <<invalidated, outstanding, accepted, calls, lastStarted>>

CallSchedule(g, u) ==
  /\ accepted + Cardinality(calls) < MaxAccepted
  /\ Cardinality(calls) < MaxBlocked
  /\ [gen |-> g, unit |-> u] \notin calls
  /\ Schedule(g, u)
  /\ UNCHANGED <<genSeq, lastStarted>>

WakeCall(c) == Resume(c) /\ UNCHANGED lastStarted

Present(h) == StartSounding(h) /\ lastStarted' = h.order + 1

Silence(h) == FinishSounding(h) /\ UNCHANGED lastStarted

CallStop(g) == Stop(g) /\ UNCHANGED lastStarted

CallersNext ==
  \/ AskGeneration
  \/ \E g \in 1..genSeq, u \in Unit : CallSchedule(g, u)
  \/ \E c \in calls : WakeCall(c)
  \/ \E h \in outstanding : Present(h) \/ Silence(h)
  \/ \E g \in 1..genSeq : CallStop(g)

CallersSpec == CallersInit /\ [][CallersNext]_sinkVars

(***************************************************************************)
(* The event loop runs a woken call: notify_all() wakes every waiter.      *)
(* Nothing is assumed of the audio, which may never come to its end.       *)
(***************************************************************************)
FairCallersSpec ==
  /\ CallersSpec
  /\ \A g \in 1..MaxGenerations, u \in Unit :
       WF_sinkVars(WakeCall([gen |-> g, unit |-> u]))

---------------------------------------------------------------------------

CallersTypeOK ==
  /\ genSeq \in Nat
  /\ invalidated \subseteq Nat
  /\ outstanding \subseteq Handle(Unit)
  /\ Cardinality(outstanding) <= Capacity
  /\ accepted \in Nat
  /\ calls \subseteq Call(Unit)
  /\ lastStarted \in Nat

(***************************************************************************)
(* Single-generation ownership: whatever the callers do, the outstanding   *)
(* audio belongs to one generation.  A call that waited must find the sink *)
(* free of other generations when it is admitted, not when it was made.    *)
(***************************************************************************)
OneOwner == \A h1, h2 \in outstanding : h1.gen = h2.gen

(***************************************************************************)
(* Once stop() returned for a generation, nothing of it is outstanding     *)
(* again: neither a late schedule() nor one that was blocked across the    *)
(* stop gets a chunk in.                                                   *)
(***************************************************************************)
StoppedIsSilent == \A h \in outstanding : h.gen \notin invalidated

(***************************************************************************)
(* Chunks are heard in the order they were accepted, one at a time, and    *)
(* none twice, although stop() removes handles from the middle of the      *)
(* chain of presentations.                                                 *)
(***************************************************************************)
HeardInOrder ==
  /\ \A h \in outstanding : h.sounding => h.order < lastStarted
  /\ \A h \in outstanding : ~h.sounding => h.order >= lastStarted
  /\ \A h1, h2 \in outstanding : h1.sounding /\ h2.sounding => h1 = h2

(***************************************************************************)
(* The sink is sound: it never holds more than its capacity nor the audio  *)
(* of two generations, what was stopped stays silent, and chunks are heard *)
(* in the order they were accepted.                                        *)
(***************************************************************************)
PlaybackIsSound ==
  /\ CallersTypeOK
  /\ OneOwner
  /\ StoppedIsSilent
  /\ HeardInOrder

(***************************************************************************)
(* With any callers the sink keeps the contract of AudioSink (types.py):   *)
(* what is accepted under which generation, begins to sound, completes and *)
(* is stopped, is what PlaybackContract allows.                            *)
(***************************************************************************)
Contract == INSTANCE PlaybackContract WITH
  stopped   <- invalidated,
  playing   <- {[order |-> h.order + 1, gen |-> h.gen] : h \in outstanding},
  begun     <- lastStarted,
  soundless <- {}

ImplementsContract == Contract!Spec

(***************************************************************************)
(* A caller blocked in schedule() when its generation is stopped returns   *)
(* (rejected) even if the sink stays full with other audio for ever.       *)
(***************************************************************************)
StoppedCallReturns ==
  \A g \in 1..MaxGenerations, u \in Unit :
    ([gen |-> g, unit |-> u] \in calls /\ g \in invalidated)
      ~> [gen |-> g, unit |-> u] \notin calls
===========================================================================
