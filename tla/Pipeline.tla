----------------------------- MODULE Pipeline -----------------------------
(***************************************************************************)
(* The interruptible pipeline of pipeline.py: one action per piece of a    *)
(* task that runs between two suspensions of the event loop.               *)
(*                                                                         *)
(*   STT stage --segQ--> supervisor (+ its work task) --ttsQ--> playback   *)
(*        ^                   |  ^                                |        *)
(*        +---rollRequests----+  +---interrupt--- barge-in stage  v        *)
(*                            +--------stop()----------------->  sink      *)
(*                                                                         *)
(* A token is its position in its source turn: a recogniser whose          *)
(* hypotheses extend each other says how many tokens it has heard.  What   *)
(* LocalAgreement commits of them and where segments close is any choice   *)
(* Stabilizer.tla could make.                                              *)
(***************************************************************************)
EXTENDS PlaybackLedger, Sequences

CONSTANTS
  NumTurns,      \* bound: source turns the recogniser hears
  MaxTokens,     \* bound: tokens of a turn
  MaxChunks,     \* bound: chunks a segment is synthesized into
  MaxOnsets,     \* bound: onsets the barge-in detector debounces
  QueueMax,      \* queue_maxsize of seg_queue and of tts_queue
  HasTurnIds,    \* do hypotheses carry a source_turn_id (live adapters do)
  Faults         \* what may go wrong: a subset of FaultKinds

FaultKinds == {"work", "playback", "cancel"}

ASSUME BoundsAssumption ==
  /\ NumTurns \in Nat
  /\ MaxTokens \in Nat
  /\ MaxChunks \in Nat
  /\ MaxOnsets \in Nat
ASSUME QueueMaxAssumption == QueueMax \in Nat \ {0}
ASSUME HasTurnIdsAssumption == HasTurnIds \in BOOLEAN
ASSUME FaultsAssumption == Faults \subseteq FaultKinds

VARIABLES
  \* the recogniser: the turn it is hearing (NumTurns + 1 after the last)
  turn,
  \* STT stage
  sttPc,            \* where it is suspended
  curTurn,          \* _current_source_turn, 0 for None
  staleTurns,       \* _abandoned_source_turns
  utt,              \* _utterance_id (the number in it)
  committed,        \* committed_end of the stabilizer
  closed,           \* tokens already in closed segments of the segmenter
  puts,             \* segments of this hypothesis still to be put
  ending,           \* is the hypothesis being processed final
  rollDone,         \* _roll_done
  \* shared
  segQ, ttsQ,       \* seg_queue and tts_queue
  interrupt,        \* is the interrupt event set
  rollRequests,     \* _roll_requests
  abandoned,        \* _abandoned_utterances
  gens,             \* _utt_generations, as a set of [utt, gen] pairs
  aborting,         \* the TaskGroup has cancelled its tasks
  \* supervisor and its work task
  supPc, cur,       \* cur: the segment in its hands
  lastUtt,          \* _last_seg_utterance_id, 0 for None
  work, nextChunk,  \* state of the work task, and the chunk it makes next
  stops,            \* generations the barge-in handler still has to stop
  \* playback task and barge-in stage
  playPc, bargePc,
  \* history
  onsets,           \* onsets so far
  hitTurns,         \* the source turn of each interrupt that was acted on
  translated,       \* the last segment given to MT
  heard             \* the last chunk that became audible

sttVars  == <<turn, sttPc, curTurn, staleTurns, utt, committed, closed, puts, ending,
              rollDone>>
rollVars == <<rollRequests, abandoned, hitTurns>>
supVars  == <<supPc, cur, lastUtt, stops, rollVars>>
workVars == <<work, nextChunk, translated>>
bargeVars == <<bargePc, onsets>>

vars == <<sttVars, segQ, ttsQ, interrupt, gens, aborting, supVars, workVars, playPc,
          bargeVars, heard, ledgerVars>>

(* What a step of one task leaves alone. *)
beyondStt  == <<ttsQ, interrupt, gens, aborting, supVars, workVars, playPc, bargeVars,
                heard, ledgerVars>>
beyondSup  == <<sttVars, aborting, playPc, bargeVars, heard>>
noBargeIn  == <<rollVars, gens, stops, ledgerVars>>
beyondWork == <<sttVars, segQ, interrupt, gens, aborting, supVars, playPc, bargeVars,
                heard, ledgerVars>>
beyondPlay == <<sttVars, segQ, interrupt, aborting, supVars, workVars, bargeVars, heard>>
beyondSink == <<sttVars, segQ, ttsQ, interrupt, gens, aborting, supVars, workVars,
                playPc, bargeVars>>

---------------------------------------------------------------------------
(* Data.                                                                   *)

Utterances == Nat \ {0}

(* A closed segment: tokens lo+1..hi of a turn, stamped with its utterance. *)
Segment == [utt : Utterances, turn : Nat, lo : Nat, hi : Nat]
Chunk   == [seg : Segment, k : Nat]

(* None: the end-of-stream sentinel of a queue, and "no segment yet". *)
NoSegment == [utt |-> 0, turn |-> 0, lo |-> 0, hi |-> 0]
NoChunk   == [seg |-> NoSegment, k |-> 0]

(* Mutants of Drain: nothing is discarded; the sentinel is discarded too. *)
DrainNothing(q, sentinel) == q
DrainEverything(q, sentinel) == <<>>

(* _drain(): payload goes, sentinels are put back. *)
Drain(q, sentinel) ==
  [i \in 1..Cardinality({j \in DOMAIN q : q[j] = sentinel}) |-> sentinel]

(* Segments that tile tokens from lo up to some point not after hi. *)
Tilings(u, t, lo, hi) ==
  LET Piece == [utt : {u}, turn : {t}, lo : lo..hi, hi : lo..hi]
  IN  {s \in UNION {[1..n -> Piece] : n \in 0..(hi - lo)} :
         \A i \in DOMAIN s :
           /\ s[i].lo = IF i = 1 THEN lo ELSE s[i - 1].hi
           /\ s[i].lo < s[i].hi}

EndOf(s, lo) == IF s = <<>> THEN lo ELSE s[Len(s)].hi

Init ==
  /\ turn = 1
  /\ sttPc = "listen" /\ curTurn = 0 /\ staleTurns = {} /\ utt = 1
  /\ committed = 0 /\ closed = 0 /\ puts = <<>> /\ ending = FALSE /\ rollDone = 0
  /\ segQ = <<>> /\ ttsQ = <<>>
  /\ interrupt = FALSE /\ rollRequests = 0 /\ abandoned = {} /\ gens = {}
  /\ aborting = FALSE
  /\ supPc = "next" /\ cur = NoSegment /\ lastUtt = 0 /\ stops = {}
  /\ work = "none" /\ nextChunk = 1
  /\ playPc = "get" /\ bargePc = "watch"
  /\ onsets = 0 /\ hitTurns = {} /\ translated = NoSegment /\ heard = NoChunk
  /\ LedgerInit

---------------------------------------------------------------------------
(* Stage 1: the STT stage.                                                 *)

(* _apply_pending_rolls(): what a hypothesis finds once the rolls that are *)
(* owed have been applied.                                                 *)
RollsPending   == rollDone < rollRequests
RolledUtt      == utt + (rollRequests - rollDone)
RolledClosed   == IF RollsPending THEN 0 ELSE closed
RolledCommits  == IF RollsPending THEN 0 ELSE committed
(* Mutant of RolledStale: the interrupted turn is not marked. *)
RolledUnmarked == staleTurns
RolledStale    == IF RollsPending /\ curTurn # 0
                    THEN staleTurns \cup {curTurn} ELSE staleTurns

(* _is_stale_hypothesis() *)
IsStale(final) ==
  IF HasTurnIds THEN turn \in RolledStale ELSE RollsPending /\ final

HypothesisArrives(final) ==
  /\ sttPc = "listen"
  /\ turn <= NumTurns
  /\ turn' = IF final THEN turn + 1 ELSE turn
  /\ rollDone' = rollRequests
  /\ staleTurns' = RolledStale

(* A hypothesis of an interrupted turn is dropped. *)
DropHypothesis(final) ==
  /\ HypothesisArrives(final)
  /\ IsStale(final)
  /\ utt' = RolledUtt
  /\ committed' = RolledCommits
  /\ closed' = RolledClosed
  /\ UNCHANGED <<sttPc, curTurn, puts, ending, segQ, beyondStt>>

(* put() runs on without suspending while the queue has room. *)
Room == QueueMax - Len(segQ)

(* Mutant of PutSegments: what does not fit is dropped instead of awaited. *)
PutWhatFits(segs, final, u, committedNow, closedNow) ==
  /\ segQ' = segQ \o SubSeq(segs, 1, IF Len(segs) <= Room THEN Len(segs) ELSE Room)
  /\ puts' = <<>>
  /\ sttPc' = "listen"
  /\ ending' = FALSE
  /\ utt' = IF final THEN u + 1 ELSE u
  /\ committed' = IF final THEN 0 ELSE committedNow
  /\ closed' = IF final THEN 0 ELSE closedNow

PutSegments(segs, final, u, committedNow, closedNow) ==
  IF Len(segs) <= Room
    THEN /\ segQ' = segQ \o segs
         /\ puts' = <<>>
         /\ sttPc' = "listen"
         /\ ending' = FALSE
         \* _roll_utterance() after the flush of a final hypothesis
         /\ utt' = IF final THEN u + 1 ELSE u
         /\ committed' = IF final THEN 0 ELSE committedNow
         /\ closed' = IF final THEN 0 ELSE closedNow
    ELSE /\ segQ' = segQ \o SubSeq(segs, 1, Room)
         /\ puts' = SubSeq(segs, Room + 1, Len(segs))
         /\ sttPc' = "put"
         /\ ending' = final
         /\ utt' = u
         /\ committed' = committedNow
         /\ closed' = closedNow

(***************************************************************************)
(* A hypothesis of n tokens is committed up to m and segmented.  A final   *)
(* one is committed to its end and the open segment is flushed.            *)
(***************************************************************************)
KeepHypothesis(final) ==
  /\ HypothesisArrives(final)
  /\ ~IsStale(final)
  /\ curTurn' = IF HasTurnIds THEN turn ELSE curTurn
  /\ \E n \in 0..MaxTokens, m \in 0..MaxTokens :
       /\ RolledCommits <= m
       /\ m <= n \/ m = RolledCommits
       /\ final => n <= m
       /\ \E segs \in Tilings(RolledUtt, turn, RolledClosed, m) :
            /\ final => EndOf(segs, RolledClosed) = m
            /\ PutSegments(segs, final, RolledUtt, m, EndOf(segs, RolledClosed))
  /\ UNCHANGED beyondStt

(* The put that was blocked on a full queue goes on. *)
ResumePut ==
  /\ sttPc = "put"
  /\ Room > 0
  /\ PutSegments(puts, ending, utt, committed, closed)
  /\ UNCHANGED <<turn, curTurn, staleTurns, rollDone, beyondStt>>

(* finally: await seg_queue.put(None), which may block in its turn. *)
PutSentinel ==
  IF Room > 0
    THEN segQ' = Append(segQ, NoSegment) /\ sttPc' = "done"
    ELSE sttPc' = "close" /\ UNCHANGED segQ

(* The stream of hypotheses is exhausted. *)
StreamEnds ==
  /\ sttPc = "listen"
  /\ turn = NumTurns + 1
  /\ PutSentinel
  /\ UNCHANGED <<turn, curTurn, staleTurns, utt, committed, closed, puts,
                 ending, rollDone, beyondStt>>

ResumePutSentinel ==
  /\ sttPc = "close"
  /\ Room > 0
  /\ PutSentinel
  /\ UNCHANGED <<turn, curTurn, staleTurns, utt, committed, closed, puts,
                 ending, rollDone, beyondStt>>

(***************************************************************************)
(* The TaskGroup cancels its tasks, once.  The cancelled STT stage runs    *)
(* its finally clause, unless it is that clause that gets cancelled.       *)
(***************************************************************************)
AbortSttStage ==
  /\ CASE sttPc \in {"listen", "put"} -> PutSentinel
       [] sttPc = "close" -> sttPc' = "done" /\ UNCHANGED segQ
       [] OTHER -> UNCHANGED <<sttPc, segQ>>
  /\ puts' = <<>>
  /\ UNCHANGED <<turn, curTurn, staleTurns, utt, committed, closed, ending,
                 rollDone>>

AbortGroup ==
  IF aborting
    THEN UNCHANGED <<aborting, sttVars, segQ, bargePc>>
    ELSE aborting' = TRUE /\ AbortSttStage /\ bargePc' = "done"

---------------------------------------------------------------------------
(* Stage 2: the supervisor.                                                *)

(* _next_segment(): the get task takes a segment, or both racers wait. *)
TakeSegment ==
  /\ supPc \in {"next", "wait"}
  /\ segQ # <<>>
  /\ cur' = Head(segQ)
  /\ segQ' = Tail(segQ)
  /\ supPc' = "got"
  /\ UNCHANGED <<ttsQ, interrupt, lastUtt, workVars, noBargeIn, beyondSup>>

WaitForSegment ==
  /\ supPc = "next"
  /\ segQ = <<>>
  /\ supPc' = "wait"
  /\ UNCHANGED <<segQ, ttsQ, interrupt, cur, lastUtt, workVars, noBargeIn,
                 beyondSup>>

(* _target_work_active(); the live handles are the outstanding ones. *)
TargetWorkActive == segQ # <<>> \/ ttsQ # <<>> \/ outstanding # {}

(* _generation_for(): the generation of utterance u, a new one if need be. *)
HasGeneration(u) == \E p \in gens : p.utt = u
GenerationOf(u) ==
  IF HasGeneration(u) THEN (CHOOSE p \in gens : p.utt = u).gen ELSE genSeq + 1
ClaimGeneration(u) ==
  /\ gens' = gens \cup {[utt |-> u, gen |-> GenerationOf(u)]}
  /\ genSeq' = IF HasGeneration(u) THEN genSeq ELSE genSeq + 1

(* Mutant of Rearm: no roll is requested. *)
RearmOnly ==
  /\ UNCHANGED rollRequests
  /\ interrupt' = FALSE
  /\ supPc' = "next"

(* The end of _handle_barge_in(): ask for a roll, re-arm, and go on. *)
Rearm ==
  /\ rollRequests' = rollRequests + 1
  /\ interrupt' = FALSE
  /\ supPc' = "next"

(***************************************************************************)
(* _handle_barge_in() up to its first suspension: abandon the utterance,   *)
(* give it a generation to invalidate, drain both queues, and list the     *)
(* generations to stop.                                                    *)
(***************************************************************************)
BargeIn(u) ==
  /\ IF u = 0
       THEN UNCHANGED <<abandoned, gens, genSeq>>
       ELSE abandoned' = abandoned \cup {u} /\ ClaimGeneration(u)
  /\ ttsQ' = Drain(ttsQ, NoChunk)
  /\ segQ' = Drain(segQ, NoSegment)
  /\ stops' = gens'
  /\ IF gens' = {}
       THEN Rearm
       ELSE supPc' = "stopping" /\ UNCHANGED <<rollRequests, interrupt>>

(***************************************************************************)
(* The interrupt wins the idle race only while the get task has nothing to *)
(* get; a segment can still be put while that task is being cancelled.     *)
(***************************************************************************)
CancelGet ==
  /\ supPc = "wait"
  /\ interrupt
  /\ segQ = <<>>
  /\ supPc' = "waking"
  /\ UNCHANGED <<segQ, ttsQ, interrupt, cur, lastUtt, workVars, noBargeIn,
                 beyondSup>>

(* An interrupt while no segment is in hand. *)
BargeInWhileIdle ==
  /\ supPc = "waking"
  /\ TargetWorkActive
  /\ BargeIn(lastUtt)
  /\ hitTurns' = hitTurns \cup {curTurn}
  /\ UNCHANGED <<cur, lastUtt, workVars, invalidated, outstanding, accepted,
                 calls, beyondSup>>

(* An interrupt with nothing to interrupt is consumed. *)
IgnoreOnset ==
  /\ supPc = "waking"
  /\ ~TargetWorkActive
  /\ interrupt' = FALSE
  /\ supPc' = "next"
  /\ UNCHANGED <<segQ, ttsQ, cur, lastUtt, workVars, noBargeIn, beyondSup>>

(* A segment of an abandoned utterance is dropped. *)
DropSegment ==
  /\ supPc = "got"
  /\ cur # NoSegment
  /\ cur.utt \in abandoned
  /\ lastUtt' = cur.utt
  /\ supPc' = "next"
  /\ UNCHANGED <<segQ, ttsQ, interrupt, cur, workVars, noBargeIn, beyondSup>>

(* _synthesize_segment() starts the work task. *)
StartWork ==
  /\ supPc = "got"
  /\ cur # NoSegment
  /\ cur.utt \notin abandoned
  /\ lastUtt' = cur.utt
  /\ supPc' = "work"
  /\ work' = "running"
  /\ nextChunk' = 1
  /\ translated' = cur
  /\ UNCHANGED <<segQ, ttsQ, interrupt, cur, noBargeIn, beyondSup>>

(* _enqueue_tts_sentinel() drops the oldest chunk of a full queue. *)
MakeRoom(q) == IF Len(q) = QueueMax THEN Tail(q) ELSE q

(* The sentinel ends the supervisor's loop and closes the queue to playback. *)
CloseTtsQueue ==
  /\ supPc = "got"
  /\ cur = NoSegment
  /\ ttsQ' = Append(MakeRoom(ttsQ), NoChunk)
  /\ supPc' = "draining"
  /\ UNCHANGED <<segQ, interrupt, cur, lastUtt, workVars, noBargeIn,
                 beyondSup>>

(***************************************************************************)
(* The work task won the race.  An interrupt that is set is consumed,      *)
(* unless its waiter has not run yet: then the next wait will see it.      *)
(***************************************************************************)
FinishSegment ==
  /\ supPc = "work"
  /\ work = "done"
  /\ supPc' = "next"
  /\ work' = "none"
  /\ interrupt' \in (IF interrupt THEN BOOLEAN ELSE {FALSE})
  /\ UNCHANGED <<segQ, ttsQ, cur, lastUtt, nextChunk, translated, noBargeIn,
                 beyondSup>>

WorkUnfinished == work \in {"running", "putting"}

(* The interrupt won the race: the work task is cancelled and awaited. *)
CancelWork ==
  /\ supPc = "work"
  /\ interrupt
  /\ WorkUnfinished
  /\ supPc' = "cancelling"
  /\ work' = "none"
  /\ hitTurns' = hitTurns \cup {curTurn}
  /\ UNCHANGED <<segQ, ttsQ, interrupt, gens, cur, lastUtt, stops, rollRequests,
                 abandoned, nextChunk, translated, ledgerVars, beyondSup>>

BargeInOnWork ==
  /\ supPc = "cancelling"
  /\ BargeIn(cur.utt)
  /\ UNCHANGED <<cur, lastUtt, hitTurns, workVars, invalidated, outstanding,
                 accepted, calls, beyondSup>>

(* One generation is stopped, its watchers settled, its entry deleted. *)
StopGeneration(p) ==
  /\ supPc = "stopping"
  /\ p \in stops
  /\ Stop(p.gen)
  /\ stops' = stops \ {p}
  /\ gens' = gens \ {p}
  /\ UNCHANGED <<segQ, ttsQ, interrupt, supPc, cur, lastUtt, workVars,
                 rollVars, beyondSup>>

EndBargeIn ==
  /\ supPc = "stopping"
  /\ stops = {}
  /\ Rearm
  /\ UNCHANGED <<segQ, ttsQ, gens, cur, lastUtt, stops, abandoned, hitTurns,
                 workVars, ledgerVars, beyondSup>>

SupervisorEnds ==
  /\ supPc = "draining"
  /\ playPc = "done"
  /\ supPc' = "done"
  /\ UNCHANGED <<segQ, ttsQ, interrupt, cur, lastUtt, workVars, noBargeIn,
                 beyondSup>>

(* Mutant of SupervisorRaises: the playback task is left running. *)
SupervisorRaisesOnly ==
  /\ supPc' = "failed"
  /\ work' = "none"
  /\ UNCHANGED <<playPc, calls>>

(* except BaseException: the playback task is cancelled; the group aborts. *)
SupervisorRaises ==
  /\ supPc' = "failed"
  /\ work' = "none"
  /\ playPc' = IF playPc = "failed" THEN "failed" ELSE "done"
  /\ calls' = {}

SupervisorFails ==
  /\ \/ supPc = "work" /\ work = "failed"
     \/ supPc = "draining" /\ playPc = "failed"
  /\ SupervisorRaises
  /\ AbortGroup
  /\ UNCHANGED <<ttsQ, interrupt, gens, cur, lastUtt, stops, nextChunk,
                 translated, onsets, heard, genSeq, invalidated, outstanding,
                 accepted, rollVars>>

(***************************************************************************)
(* The session is cancelled from outside.  A supervisor that is awaiting   *)
(* what it cancelled itself suppresses the CancelledError and goes on.     *)
(***************************************************************************)
CancelSession ==
  /\ "cancel" \in Faults
  /\ ~aborting
  /\ ~(sttPc = "done" /\ supPc = "done" /\ bargePc = "done")
  /\ AbortGroup
  /\ IF supPc \in {"waking", "cancelling", "stopping", "done", "failed"}
       THEN UNCHANGED <<supPc, work, playPc, calls>>
       ELSE SupervisorRaises
  /\ UNCHANGED <<ttsQ, interrupt, gens, cur, lastUtt, stops, nextChunk,
                 translated, onsets, heard, genSeq, invalidated, outstanding,
                 accepted, rollVars>>

---------------------------------------------------------------------------
(* The work task: _translate_and_synthesize().                             *)

SendChunk == ttsQ' = Append(ttsQ, [seg |-> cur, k |-> nextChunk])

(* TTS yields a chunk; the put suspends if the queue is full. *)
YieldChunk ==
  /\ work = "running"
  /\ nextChunk <= MaxChunks
  /\ IF Len(ttsQ) < QueueMax
       THEN SendChunk /\ nextChunk' = nextChunk + 1 /\ UNCHANGED work
       ELSE work' = "putting" /\ UNCHANGED <<ttsQ, nextChunk>>
  /\ UNCHANGED <<translated, beyondWork>>

ResumePutChunk ==
  /\ work = "putting"
  /\ Len(ttsQ) < QueueMax
  /\ SendChunk
  /\ nextChunk' = nextChunk + 1
  /\ work' = "running"
  /\ UNCHANGED <<translated, beyondWork>>

EndWork ==
  /\ work = "running"
  /\ work' = "done"
  /\ UNCHANGED <<ttsQ, nextChunk, translated, beyondWork>>

FailWork ==
  /\ "work" \in Faults
  /\ work = "running"
  /\ work' = "failed"
  /\ UNCHANGED <<ttsQ, nextChunk, translated, beyondWork>>

---------------------------------------------------------------------------
(* Stage 3: playback, and the sink.                                        *)

HasChunk == playPc = "get" /\ ttsQ # <<>>

PlaybackEof ==
  /\ HasChunk
  /\ Head(ttsQ) = NoChunk
  /\ ttsQ' = Tail(ttsQ)
  /\ playPc' = "drain"
  /\ UNCHANGED <<gens, ledgerVars, beyondPlay>>

(***************************************************************************)
(* A chunk of an abandoned utterance is dropped; any other is scheduled    *)
(* under its utterance's generation, where it may block.                   *)
(***************************************************************************)
PlayChunk ==
  /\ HasChunk
  /\ Head(ttsQ) # NoChunk
  /\ ttsQ' = Tail(ttsQ)
  /\ LET u == Head(ttsQ).seg.utt
         g == GenerationOf(u)
     IN  IF u \in abandoned
           THEN UNCHANGED <<gens, playPc, ledgerVars>>
           ELSE /\ ClaimGeneration(u)
                /\ Schedule(g, Head(ttsQ))
                /\ playPc' = IF Schedulable(g) THEN "get" ELSE "blocked"
  /\ UNCHANGED beyondPlay

(* The blocked schedule() returns, or raises PlaybackRejectedError. *)
ResumeSchedule ==
  /\ playPc = "blocked"
  /\ \E c \in calls : Resume(c)
  /\ playPc' = "get"
  /\ UNCHANGED <<ttsQ, gens, beyondPlay>>

FinishDrain ==
  /\ playPc = "drain"
  /\ Drained
  /\ playPc' = "done"
  /\ UNCHANGED <<ttsQ, gens, ledgerVars, beyondPlay>>

(* schedule() raises what is not a rejection: the device has failed. *)
FailPlayback ==
  /\ "playback" \in Faults
  /\ playPc = "blocked" \/ (HasChunk /\ Head(ttsQ) # NoChunk)
  /\ ttsQ' = IF playPc = "get" THEN Tail(ttsQ) ELSE ttsQ
  /\ playPc' = "failed"
  /\ calls' = {}
  /\ UNCHANGED <<gens, genSeq, invalidated, outstanding, accepted, beyondPlay>>

Sound(h) ==
  /\ StartSounding(h)
  /\ heard' = h.unit
  /\ UNCHANGED beyondSink

Quiet(h) == FinishSounding(h) /\ UNCHANGED <<heard, beyondSink>>

---------------------------------------------------------------------------
(* The barge-in stage.                                                     *)

beyondBarge == <<sttVars, segQ, ttsQ, gens, aborting, supVars, workVars, playPc, heard,
                 ledgerVars>>

Onset ==
  /\ bargePc = "watch"
  /\ onsets < MaxOnsets
  /\ onsets' = onsets + 1
  /\ interrupt' = TRUE
  /\ UNCHANGED <<bargePc, beyondBarge>>

BargeStreamEnds ==
  /\ bargePc = "watch"
  /\ bargePc' = "done"
  /\ UNCHANGED <<onsets, interrupt, beyondBarge>>

---------------------------------------------------------------------------

(* run_with_barge_in() has returned or raised. *)
Finished == sttPc = "done" /\ supPc \in {"done", "failed"} /\ bargePc = "done"

Finish == Finished /\ outstanding = {} /\ UNCHANGED vars

SttStep ==
  \/ \E final \in BOOLEAN : DropHypothesis(final) \/ KeepHypothesis(final)
  \/ ResumePut \/ StreamEnds \/ ResumePutSentinel

SupervisorStep ==
  \/ TakeSegment \/ WaitForSegment
  \/ CancelGet \/ BargeInWhileIdle \/ IgnoreOnset
  \/ DropSegment \/ StartWork \/ CloseTtsQueue
  \/ FinishSegment \/ CancelWork \/ BargeInOnWork
  \/ \E p \in stops : StopGeneration(p)
  \/ EndBargeIn \/ SupervisorEnds \/ SupervisorFails

WorkStep == YieldChunk \/ ResumePutChunk \/ EndWork

PlaybackStep ==
  \/ PlaybackEof \/ PlayChunk \/ ResumeSchedule \/ FinishDrain

SinkStep == \E h \in outstanding : Sound(h) \/ Quiet(h)

BargeStep == Onset \/ BargeStreamEnds

FaultStep == CancelSession \/ FailWork \/ FailPlayback

Next ==
  \/ SttStep \/ SupervisorStep \/ WorkStep \/ PlaybackStep \/ SinkStep \/ BargeStep
  \/ FaultStep \/ Finish

Spec == Init /\ [][Next]_vars

(***************************************************************************)
(* A task that can run runs: the event loop's ready queue is a FIFO.  The  *)
(* recogniser ends each turn with a final hypothesis, the microphone       *)
(* closes, MT and TTS end, and audio plays on.  Onsets and faults are not  *)
(* owed to anybody.                                                        *)
(***************************************************************************)
Fairness ==
  /\ WF_vars(DropHypothesis(TRUE) \/ KeepHypothesis(TRUE))
  /\ WF_vars(ResumePut \/ StreamEnds \/ ResumePutSentinel)
  /\ WF_vars(SupervisorStep)
  /\ WF_vars(ResumePutChunk \/ EndWork)
  /\ WF_vars(PlaybackStep)
  /\ WF_vars(SinkStep)
  /\ WF_vars(BargeStreamEnds)

FairSpec == Spec /\ Fairness

---------------------------------------------------------------------------
(* Properties.                                                             *)

SttPcs  == {"listen", "put", "close", "done"}
SupPcs  == {"next", "wait", "waking", "got", "work", "cancelling", "stopping", "draining",
            "done", "failed"}
PlayPcs == {"get", "blocked", "drain", "done", "failed"}

SttTypeOK ==
  /\ turn \in Nat /\ sttPc \in SttPcs /\ curTurn \in Nat /\ staleTurns \subseteq Nat
  /\ utt \in Utterances /\ committed \in Nat /\ closed \in Nat
  /\ puts \in Seq(Segment) /\ ending \in BOOLEAN /\ rollDone \in Nat

SupTypeOK ==
  /\ supPc \in SupPcs /\ cur \in Segment \cup {NoSegment} /\ lastUtt \in Nat
  /\ work \in {"none", "running", "putting", "done", "failed"} /\ nextChunk \in Nat
  /\ translated \in Segment \cup {NoSegment}
  /\ interrupt \in BOOLEAN /\ aborting \in BOOLEAN
  /\ rollRequests \in Nat /\ abandoned \subseteq Utterances /\ hitTurns \subseteq Nat
  /\ gens \subseteq [utt : Utterances, gen : Nat] /\ stops \subseteq gens

QueueTypeOK ==
  /\ segQ \in Seq(Segment \cup {NoSegment}) /\ Len(segQ) <= QueueMax
  /\ ttsQ \in Seq(Chunk \cup {NoChunk}) /\ Len(ttsQ) <= QueueMax

SinkTypeOK ==
  /\ genSeq \in Nat /\ invalidated \subseteq Nat /\ accepted \in Nat
  /\ outstanding \subseteq Handle(Chunk) /\ calls \subseteq Call(Chunk)

TypeOK ==
  /\ SttTypeOK /\ SupTypeOK /\ QueueTypeOK /\ SinkTypeOK
  /\ rollDone <= rollRequests
  /\ playPc \in PlayPcs /\ bargePc \in {"watch", "done"} /\ onsets \in Nat
  /\ heard \in Chunk \cup {NoChunk}

(***************************************************************************)
(* From the moment a barge-in has been handled, nothing of an abandoned    *)
(* utterance is audible or about to be: no handle of it is outstanding,    *)
(* no chunk of it is queued, none is being synthesized, and a schedule()   *)
(* call that was blocked across the barge-in can only be rejected.         *)
(***************************************************************************)
SilentAfterBargeIn ==
  /\ WorkUnfinished => cur.utt \notin abandoned
  /\ \A i \in DOMAIN ttsQ : ttsQ[i].seg.utt \notin abandoned
  /\ supPc # "stopping" =>
       /\ \A h \in outstanding : h.unit.seg.utt \notin abandoned
       /\ \A c \in calls : c.unit.seg.utt \in abandoned => c.gen \in invalidated

(***************************************************************************)
(* A barge-in stops all pre-interrupt audio, whichever utterances it is    *)
(* of: once every listed generation has been stopped, although playback    *)
(* ran in between, the sink is empty, nothing is queued for it and a       *)
(* blocked call has lost its generation.                                   *)
(***************************************************************************)
BargeInEmptiesSink ==
  supPc = "stopping" /\ stops = {} =>
    /\ outstanding = {}
    /\ ttsQ = <<>>
    /\ \A c \in calls : c.gen \in invalidated

(***************************************************************************)
(* Leak freedom: when the supervisor is gone, normally or not, so are the  *)
(* playback task, its blocked schedule() call and the work task.           *)
(***************************************************************************)
NoTaskLeft ==
  supPc \in {"done", "failed"} =>
    work = "none" /\ playPc \in {"done", "failed"} /\ calls = {}

(***************************************************************************)
(* The pipeline is sound: neither queue is ever over its bound, no roll is *)
(* applied that was not asked for, and whatever fails leaves no task.      *)
(***************************************************************************)
PipelineIsSound == TypeOK /\ NoTaskLeft

(* Segment order of the source: by turn, then by position in the turn. *)
After(s, t) == s.turn < t.turn \/ (s.turn = t.turn /\ s.hi <= t.lo)

(***************************************************************************)
(* No token is ever given to MT twice, across rolls, barge-ins and         *)
(* segments that were stuck in a put, and turns are translated in order    *)
(* ("already-emitted segments are kept and never re-translated").          *)
(***************************************************************************)
NeverRetranslated ==
  [][translated' # translated =>
       translated = NoSegment \/ After(translated, translated')]_vars

(***************************************************************************)
(* Without a barge-in nothing is skipped either: within an utterance each  *)
(* segment given to MT starts where the one before ended.                  *)
(***************************************************************************)
NoGapWithoutBargeIn ==
  [][translated' # translated /\ hitTurns = {} =>
       translated'.lo = IF translated.utt = translated'.utt THEN translated.hi ELSE 0]_vars

(***************************************************************************)
(* Once the roll a barge-in asked for has been applied, the STT stage      *)
(* stamps new speech with an utterance nobody has abandoned: otherwise the *)
(* supervisor would discard everything said from then on.                  *)
(***************************************************************************)
NewSpeechIsOwned ==
  supPc # "stopping" /\ ~RollsPending => utt \notin abandoned

(***************************************************************************)
(* run_with_barge_in() returns once the source has ended, however barge-   *)
(* ins race the end of the stream and the full queues.                     *)
(***************************************************************************)
Termination == <>Finished

(***************************************************************************)
(* Every chunk that is synthesized is heard.  The exception is the head of *)
(* a full tts_queue that the supervisor is about to close: the sentinel    *)
(* takes its place, unless playback is faster.  An onset releases the      *)
(* pipeline from the promise.                                              *)
(***************************************************************************)
GivesWayToSentinel(c) ==
  supPc = "got" /\ cur = NoSegment /\ Len(ttsQ) = QueueMax /\ Head(ttsQ) = c

SynthesizedIsHeard ==
  \A t \in 1..NumTurns, a, b \in 0..MaxTokens, k \in 1..MaxChunks :
    LET c == [seg |-> [utt |-> t, turn |-> t, lo |-> a, hi |-> b], k |-> k]
    IN  (\E i \in DOMAIN ttsQ : ttsQ[i] = c)
          ~> heard = c \/ onsets > 0 \/ GivesWayToSentinel(c)

(***************************************************************************)
(* What the listener hears.  An abandoned utterance counts as silenced     *)
(* once nothing of it is outstanding and no blocked call can bring it back *)
(* (stopping another generation may still let such a call in).             *)
(***************************************************************************)
Before(c, d) == After(c.seg, d.seg) \/ (c.seg = d.seg /\ c.k < d.k)
UtteranceOf(c) == c.seg.utt
SoundingUnit ==
  IF \E h \in outstanding : h.sounding
    THEN (CHOOSE h \in outstanding : h.sounding).unit ELSE NoChunk
SilencedNow ==
  {u \in abandoned :
     /\ \A h \in outstanding : h.unit.seg.utt # u
     /\ \A c \in calls : c.unit.seg.utt = u => c.gen \in invalidated}

Listener ==
  INSTANCE Interpretation WITH
    Owner <- UtteranceOf, Precedes <- Before, Silence <- NoChunk,
    sounding <- SoundingUnit, interrupted <- abandoned, silenced <- SilencedNow

(***************************************************************************)
(* The pipeline implements Interpretation: units are heard one at a time,  *)
(* in source order and at most once, and an interrupted utterance that has *)
(* fallen silent is never heard again.                                     *)
(***************************************************************************)
ImplementsInterpretation == Listener!Spec

(***************************************************************************)
(* What the repository says, and the code does otherwise in some schedule. *)
(***************************************************************************)

(* pipeline.py:169: only output of an interrupted turn is ever discarded. *)
OnlyInterruptedTurnsAreStale == staleTurns \subseteq hitTurns

(* pipeline.py:14: only the current utterance's queued work is discarded. *)
DiscardsOnlyInterrupted ==
  [][supPc' = "stopping" /\ supPc # "stopping" =>
       \A i \in DOMAIN segQ : segQ[i] # NoSegment => segQ[i].utt \in abandoned']_vars

(* pipeline.py:424: an onset is ignored only if nothing is in flight. *)
IgnoresOnlyIdleOnsets == [][IgnoreOnset => calls = {}]_vars

(* live-adapters.md:162: a cancelled session ends. *)
CancelledSessionEnds == aborting ~> Finished

(* A failed playback task fails the session. *)
PlaybackFailureSurfaces == playPc = "failed" ~> Finished
===========================================================================
