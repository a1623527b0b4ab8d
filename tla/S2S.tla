-------------------------------- MODULE S2S --------------------------------
(***************************************************************************)
(* S2SPipeline of s2s.py: one provider session whose events a receiver     *)
(* queues and a scheduler plays, raced against barge-in onsets.            *)
(*                                                                         *)
(* The provider is the environment: it works on one response at a time,    *)
(* sends its audio in order, and answers a cancel some time later, or not  *)
(* at all if the response has ended.  Once its stream is over, OpenAI's    *)
(* adapter refuses to be interrupted, Gemini's does not.  An action is     *)
(* what the scheduler does between two suspensions.                        *)
(***************************************************************************)
EXTENDS PlaybackLedger, Sequences, Functions

CONSTANTS
  MaxResponses,  \* bound: responses of the provider
  MaxAudio,      \* bound: audio events of a response
  MaxOnsets,     \* bound: onsets the barge-in detector reports
  QueueSize,     \* queue_maxsize of the event queue
  Faults,        \* "fail" and "crash": a response fails, the stream raises
  RingSink       \* TRUE: stop() empties the whole ring, as SpeakerSink's does

ASSUME S2SAssumption ==
  /\ {MaxResponses, MaxAudio, MaxOnsets, QueueSize} \subseteq Nat
  /\ QueueSize > 0 /\ RingSink \in BOOLEAN

VARIABLES
  active, made, audio,     \* provider: its response, how many, audio of each
  cancels,                 \* provider: the responses it was told to cancel
  refuses,                 \* provider: interrupt() raises once its stream is over
  faulted,                 \* history: the provider failed or crashed
  events,                  \* event_q
  interrupt, onsets,       \* the interrupt event; history: onsets so far
  pc,                      \* where the scheduler is suspended
  target,                  \* the response a barge-in is cutting, 0 for none
  responses,               \* _responses: the generation of each
  order,                   \* _response_order
  abandoned, current,      \* _abandoned, _current_response (0 for none)
  utterances,              \* _utt_by_input: the turns that have an utterance
  handles, absorbed,       \* of a response state: live handles, heard receipts
  heard,                   \* history: what of each response began to sound
  lost,                    \* handles whose frames are gone from the ring
  sent                     \* history: what interrupt() told the provider

provider  == <<active, made, audio, cancels, refuses, faulted>>
ownership == <<responses, order, abandoned, current, utterances>>
receipts  == <<handles, absorbed, heard, lost>>
vars == <<ledgerVars, provider, events, interrupt, onsets, pc, target, ownership,
          receipts, sent>>

Responses == 1..MaxResponses
Over == {"done", "failed"}

Init ==
  /\ LedgerInit
  /\ active = 0 /\ made = 0 /\ audio = [r \in Responses |-> 0]
  /\ cancels = {} /\ refuses \in BOOLEAN /\ faulted = FALSE
  /\ events = <<>> /\ interrupt = FALSE /\ onsets = 0
  /\ pc = "get" /\ target = 0
  /\ responses = <<>> /\ order = <<>>
  /\ abandoned = {} /\ current = 0 /\ utterances = {}
  /\ handles = [r \in Responses |-> {}] /\ absorbed = [r \in Responses |-> 0]
  /\ heard = [r \in Responses |-> {}] /\ lost = {} /\ sent = <<>>

---------------------------------------------------------------------------
(* The provider, whose events the receiver task puts into the queue. *)

Emit(es) ==
  /\ pc \notin Over
  /\ Len(events) + Len(es) <= QueueSize + 1   \* the receiver holds one more
  /\ events' = events \o es

Event(kind, r) == [kind |-> kind, resp |-> r]
Ended == made > MaxResponses

StartResponse ==
  /\ active = 0 /\ made < MaxResponses
  /\ Emit(<<Event("speech", made + 1), Event("started", made + 1)>>)
  /\ active' = made + 1 /\ made' = made + 1
  /\ UNCHANGED <<audio, cancels, refuses, faulted>>

SendAudio ==
  /\ active # 0 /\ audio[active] < MaxAudio
  /\ Emit(<<Event("audio", active)>>)
  /\ audio' = [audio EXCEPT ![active] = @ + 1]
  /\ UNCHANGED <<active, made, cancels, refuses, faulted>>

EndResponse(status) ==
  /\ active # 0
  /\ status = "cancelled" => active \in cancels
  /\ status = "failed" => "fail" \in Faults
  /\ Emit(<<Event(status, active)>>)
  /\ active' = 0
  /\ faulted' = (faulted \/ status = "failed")
  /\ UNCHANGED <<made, audio, cancels, refuses>>

EndStream(kind) ==
  /\ ~Ended
  /\ kind = "end" => active = 0
  /\ kind = "error" => "crash" \in Faults
  /\ Emit(<<Event(kind, 0)>>)
  /\ made' = MaxResponses + 1 /\ active' = 0
  /\ faulted' = (faulted \/ kind = "error")
  /\ UNCHANGED <<audio, cancels, refuses>>

ProviderStep ==
  /\ \/ StartResponse
     \/ SendAudio
     \/ \E s \in {"completed", "cancelled", "failed"} : EndResponse(s)
     \/ \E k \in {"end", "error"} : EndStream(k)
  /\ UNCHANGED <<ledgerVars, interrupt, onsets, pc, target, ownership, receipts, sent>>

Onset ==
  /\ pc \notin Over /\ onsets < MaxOnsets
  /\ onsets' = onsets + 1
  /\ interrupt' = TRUE
  /\ UNCHANGED <<ledgerVars, provider, events, pc, target, ownership, receipts, sent>>

---------------------------------------------------------------------------
(* Receipts. *)

Known(r) == r \in DOMAIN responses
Live(os) == {o \in os : \E h \in outstanding : h.order = o}
Audible(r, os) == Cardinality(os \cap heard[r])

(* Mutant of Remember: receipts are absorbed and their handles kept. *)
RememberAll(r, o) ==
  /\ absorbed' = [absorbed EXCEPT ![r] = @ + Audible(r, handles[r] \ Live(handles[r]))]
  /\ handles' = [handles EXCEPT ![r] = @ \cup {o}]

(* The handle of a schedule() that succeeded is remembered, and the        *)
(* receipts of the finished ones are absorbed (reap_completed()).          *)
Remember(r, o) ==
  /\ absorbed' = [absorbed EXCEPT ![r] = @ + Audible(r, handles[r] \ Live(handles[r]))]
  /\ handles' = [handles EXCEPT ![r] = Live(@) \cup {o}]

---------------------------------------------------------------------------
(* The scheduler: one event. *)

(* A speech start creates the utterance of its turn, once. *)
OnSpeechStarted(r) ==
  /\ utterances' = utterances \cup {r}
  /\ pc' = "get"
  /\ UNCHANGED <<ledgerVars, responses, order, abandoned, current, handles, absorbed>>

OnResponseStarted(r) ==
  /\ IF Known(r) \/ r \in abandoned
       THEN UNCHANGED <<genSeq, responses, order, current>> /\ pc' = "get"
     ELSE IF r \notin utterances
       THEN UNCHANGED <<genSeq, responses, order, current>> /\ pc' = "failed"
     ELSE /\ genSeq' = genSeq + 1
          /\ responses' = [x \in DOMAIN responses \cup {r} |->
                             IF x = r THEN genSeq + 1 ELSE responses[x]]
          /\ order' = Append(order, r)
          /\ current' = r
          /\ pc' = "get"
  /\ UNCHANGED <<invalidated, outstanding, accepted, calls, abandoned, utterances,
                 handles, absorbed>>

(* Audio of a live response is scheduled; the wait for capacity is raced   *)
(* against the interrupt.                                                  *)
OnAudio(r) ==
  IF r \in abandoned \/ ~Known(r)
    THEN /\ pc' = IF r \in abandoned THEN "get" ELSE "failed"
         /\ UNCHANGED <<ledgerVars, ownership, handles, absorbed>>
    ELSE /\ Schedule(responses[r], r)
         /\ IF calls' # calls
              THEN pc' = "audio" /\ UNCHANGED <<handles, absorbed>>
              ELSE /\ pc' = "get"
                   /\ IF accepted' > accepted THEN Remember(r, accepted)
                      ELSE UNCHANGED <<handles, absorbed>>
         /\ UNCHANGED <<genSeq, ownership>>

(* Mutant of Acknowledged: a cancelled response is looked up like another. *)
NeverAcknowledged(r) == FALSE

(* The end of an abandoned response only acknowledges the interrupt. *)
Acknowledged(r) == r \in abandoned

OnResponseDone(r, status) ==
  /\ IF Acknowledged(r)
       THEN /\ abandoned' = abandoned \ {r}
            /\ responses' = Restrict(responses, DOMAIN responses \ {r})
            /\ pc' = "get"
            /\ UNCHANGED current
       ELSE /\ current' = IF current = r THEN 0 ELSE current
            /\ pc' = IF Known(r) /\ status = "completed" THEN "get" ELSE "failed"
            /\ UNCHANGED <<abandoned, responses>>
  /\ UNCHANGED <<ledgerVars, order, utterances, handles, absorbed>>

(* An event that is there is taken before a pending interrupt is looked at. *)
TakeEvent ==
  /\ pc = "get" /\ events # <<>>
  /\ events' = Tail(events)
  /\ LET e == Head(events)
     IN  \/ e.kind = "speech"  /\ OnSpeechStarted(e.resp)
         \/ e.kind = "started" /\ OnResponseStarted(e.resp)
         \/ e.kind = "audio"   /\ OnAudio(e.resp)
         \/ /\ e.kind \in {"completed", "cancelled", "failed"}
            /\ OnResponseDone(e.resp, e.kind)
         \/ /\ e.kind \in {"end", "error"}
            /\ pc' = IF e.kind = "end" THEN "drain" ELSE "failed"
            /\ UNCHANGED <<ledgerVars, ownership, handles, absorbed>>
  /\ UNCHANGED <<provider, interrupt, onsets, target, heard, lost, sent>>

(* The blocked schedule() wakes: its handle is remembered unless it was    *)
(* rejected, or a barge-in came while it was blocked.                      *)
WakeSchedule ==
  \E c \in calls :
    /\ Resume(c)
    /\ pc' = IF pc \in {"audio", "wait"} THEN "get" ELSE pc
    /\ IF pc = "audio" /\ accepted' > accepted THEN Remember(c.unit, accepted)
       ELSE UNCHANGED <<handles, absorbed>>
    /\ UNCHANGED <<provider, events, interrupt, onsets, target, ownership, heard,
                   lost, sent>>

FinishDrain ==
  /\ pc = "drain" /\ Drained
  /\ pc' = "done"
  /\ UNCHANGED <<ledgerVars, provider, events, interrupt, onsets, target, ownership,
                 receipts, sent>>

---------------------------------------------------------------------------
(* Barge-in. *)

Observes == pc = "audio" \/ (pc = "get" /\ events = <<>>) \/ (pc = "drain" /\ ~Drained)

(* Mutant of Trailing: only the last response is looked at. *)
TrailingLast ==
  IF order # <<>> /\ Live(handles[order[Len(order)]]) # {}
    THEN order[Len(order)] ELSE 0

(* The newest response that ended but is still queued or playing. *)
Trailing ==
  LET rs == {r \in Responses : Known(r) /\ r \notin abandoned /\ Live(handles[r]) # {}}
  IN  IF rs = {} THEN 0 ELSE CHOOSE r \in rs : \A x \in rs : x <= r

InterruptTarget == IF current # 0 THEN current ELSE Trailing

CurrentAfter(r) == IF current = r THEN 0 ELSE current

(* A barge-in with nothing to interrupt: the onset is a new turn. *)
IgnoreOnset ==
  /\ Observes /\ interrupt /\ InterruptTarget = 0
  /\ interrupt' = FALSE
  /\ pc' = IF pc = "audio" THEN "wait" ELSE pc
  /\ UNCHANGED <<ledgerVars, provider, events, onsets, target, ownership, receipts,
                 sent>>

(***************************************************************************)
(* _handle_barge_in() up to its first real suspension: the response is     *)
(* abandoned, its generation stopped and every receipt folded in.          *)
(***************************************************************************)
BargeIn ==
  /\ Observes /\ interrupt /\ InterruptTarget # 0
  /\ LET r == InterruptTarget
     IN  /\ target' = r
         /\ abandoned' = abandoned \cup {r}
         /\ current' = CurrentAfter(r)
         /\ Stop(responses[r])
         /\ absorbed' = [absorbed EXCEPT ![r] = @ + Audible(r, handles[r])]
         /\ handles' = [handles EXCEPT ![r] = {}]
         /\ lost' = IF RingSink
                      THEN lost \cup {h.order : h \in {x \in outstanding :
                                                         x.gen # responses[r]}}
                      ELSE lost
  /\ pc' = IF pc = "drain" THEN "cutDrain" ELSE "cut"
  /\ UNCHANGED <<provider, events, interrupt, onsets, responses, order, utterances,
                 heard, sent>>

(* A Realtime session takes its pump away as its stream ends, just before  *)
(* the end is queued.                                                      *)
Refuses == refuses /\ Ended

(* s2s.interrupt(): the provider is told what to cancel and what was heard. *)
TellProvider ==
  /\ pc \in {"cut", "cutDrain"} /\ target # 0
  /\ ~Refuses
  /\ sent' = Append(sent, [resp |-> target, heard |-> absorbed[target]])
  /\ cancels' = cancels \cup {target}
  /\ target' = 0
  /\ UNCHANGED <<ledgerVars, active, made, audio, refuses, faulted, events, interrupt,
                 onsets, pc, ownership, receipts>>

(* s2s.interrupt() raises instead, which nothing catches: the session      *)
(* fails.  A schedule() that was blocked is left to be rejected.           *)
InterruptRefused ==
  /\ pc \in {"cut", "cutDrain"} /\ target # 0
  /\ Refuses
  /\ pc' = "failed"
  /\ UNCHANGED <<ledgerVars, provider, events, interrupt, onsets, target, ownership,
                 receipts, sent>>

(* Mutant of Back: a barge-in always returns to the event queue. *)
BackToEvents == "get"

(* Where a barge-in returns to: the drain, a schedule() that has not yet   *)
(* returned, or the event queue.                                           *)
Back == IF pc = "cutDrain" THEN "drain" ELSE IF calls # {} THEN "wait" ELSE "get"

(* A new interrupt event takes the place of the one that was set. *)
EndBargeIn ==
  /\ pc \in {"cut", "cutDrain"} /\ target = 0
  /\ interrupt' = FALSE
  /\ pc' = Back
  /\ UNCHANGED <<ledgerVars, provider, events, onsets, target, ownership, receipts,
                 sent>>

---------------------------------------------------------------------------
(* The sink presents on its own. *)

Sound(h) ==
  /\ StartSounding(h)
  /\ heard' = [heard EXCEPT ![h.unit] = @ \cup {h.order}]
  /\ UNCHANGED <<provider, events, interrupt, onsets, pc, target, ownership, handles,
                 absorbed, lost, sent>>

Quiet(h) ==
  /\ h.order \notin lost
  /\ FinishSounding(h)
  /\ UNCHANGED <<provider, events, interrupt, onsets, pc, target, ownership, receipts,
                 sent>>

SchedulerStep ==
  \/ TakeEvent \/ WakeSchedule \/ FinishDrain
  \/ IgnoreOnset \/ BargeIn \/ TellProvider \/ InterruptRefused \/ EndBargeIn
SinkStep == \E h \in outstanding : Sound(h) \/ Quiet(h)

Next == ProviderStep \/ Onset \/ SchedulerStep \/ SinkStep

Spec == Init /\ [][Next]_vars

(* The loop runs what can run, audio plays on, responses and streams end.  *)
FairSpec ==
  /\ Spec
  /\ WF_vars(SchedulerStep) /\ WF_vars(SinkStep)
  /\ WF_vars(ProviderStep)

---------------------------------------------------------------------------
TypeOK ==
  /\ Cardinality(outstanding) <= Capacity
  /\ Cardinality(calls) <= 1
  /\ Len(events) <= QueueSize + 1
  /\ current \in 0..MaxResponses /\ target \in 0..MaxResponses
  /\ DOMAIN responses \subseteq Responses /\ abandoned \subseteq Responses
  /\ pc \in {"get", "audio", "wait", "drain", "cut", "cutDrain"} \cup Over

Cut == {sent[i].resp : i \in DOMAIN sent} \cup ({target} \ {0})

(***************************************************************************)
(* Once a barge-in has cut a response, nothing of it is queued or sounds   *)
(* again: not the chunk that was blocked in schedule(), not the audio      *)
(* events still queued, not late deltas of the provider.                   *)
(***************************************************************************)
CutIsSilent == \A h \in outstanding : h.unit \notin Cut

(***************************************************************************)
(* The provider is told to cancel a response at most once, although onsets *)
(* may follow each other before it answers and a response can end while it *)
(* is being cut.                                                           *)
(***************************************************************************)
OneCancelEach ==
  \A i, j \in DOMAIN sent : sent[i].resp = sent[j].resp => i = j

(***************************************************************************)
(* What the provider is told was heard is what was heard: the receipts     *)
(* reaped as audio went on and the snapshot of the stop count each chunk   *)
(* that became audible once.                                               *)
(***************************************************************************)
CursorIsHeard ==
  \A i \in DOMAIN sent : sent[i].heard = Cardinality(heard[sent[i].resp])

(***************************************************************************)
(* Events that a barge-in overtakes (late audio, the acknowledgement, an   *)
(* end that lost the race) never look like errors: the session fails only  *)
(* if the provider did, or if a response was cut when the stream of a      *)
(* provider that then refuses to be interrupted was over.                  *)
(***************************************************************************)
FailsForCause == pc = "failed" => faulted \/ (Refuses /\ target # 0)

(***************************************************************************)
(* Every chunk of a response that no barge-in cut has been heard when the  *)
(* session ends, however the responses around it were cut.                 *)
(***************************************************************************)
UncutIsHeard ==
  pc = "done" => \A r \in Responses \ Cut : Cardinality(heard[r]) = audio[r]

(***************************************************************************)
(* An onset is put aside as a new turn only when nothing is left to        *)
(* interrupt: not while a response that has ended, and perhaps an older    *)
(* one than the last, is queued or sounds.                                 *)
(***************************************************************************)
IgnoredOnsetsAreIdle ==
  [][interrupt /\ ~interrupt' /\ pc \notin {"cut", "cutDrain"} => outstanding = {}]_vars

(* The session ends once the provider's stream has ended, whatever onsets  *)
(* come during its last audio.                                             *)
SessionEnds == Ended ~> pc \in Over

(***************************************************************************)
(* What a barge-in leaves behind: a response that is silent, told to the   *)
(* provider once, with the cursor of what was heard (s2s.py                *)
(* _handle_barge_in).                                                      *)
(***************************************************************************)
CutIsClean ==
  /\ TypeOK
  /\ CutIsSilent
  /\ OneCancelEach
  /\ CursorIsHeard

(***************************************************************************)
(* What a barge-in spares: the session goes on while the provider does and *)
(* lets itself be interrupted, and the responses that were not cut are     *)
(* heard to their ends (s2s.py _dispatch_event, _on_response_done).        *)
(***************************************************************************)
OthersUnharmed == FailsForCause /\ UncutIsHeard

(***************************************************************************)
(* "a barge-in during that window must still stop the sink and             *)
(* cancel/truncate the finished response" (s2s.py:271): whoever interrupts *)
(* the last audio of a session is done only when the provider was told.    *)
(***************************************************************************)
TrailingCutIsTold == [][pc = "cutDrain" /\ pc' # "cutDrain" => target = 0]_vars
===========================================================================
