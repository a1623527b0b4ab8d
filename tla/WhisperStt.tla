---------------------------- MODULE WhisperStt -----------------------------
(***************************************************************************)
(* WhisperSTT of backends/whisper.py with the UtteranceEndpointDetector of *)
(* vad.py: live audio is cut into turns, buffered, and decoded whole by a  *)
(* worker that may be slower than speech.                                  *)
(*                                                                         *)
(* The ingest task and the decode pump share the dispatch queue; the       *)
(* caller reads the output queue.  Audio is counted in frames of one       *)
(* duration, and a buffer is the sequence of their numbers.                *)
(***************************************************************************)
EXTENDS EnergyVad, FiniteSets, SequencesExt

CONSTANTS
  PreRoll,          \* pre_roll_ms, in frames
  PartialInterval,  \* partial_interval_ms
  EndSilence,       \* end_silence_ms
  MaxUtterance,     \* max_utterance_ms
  MaxPending,       \* max_pending_turns
  MaxFrames         \* bound: frames of the source

ASSUME WhisperAssumption ==
  /\ {PartialInterval, MaxUtterance, MaxPending} \subseteq Nat \ {0}
  /\ {PreRoll, EndSilence, MaxFrames} \subseteq Nat

VARIABLES
  loud,       \* history: which frames of the source were loud
  detector,   \* the endpoint detector
  turns,      \* _turn_count: the last turn started
  turn,       \* the turn whose audio is in buffer, 0 for none
  buffer,     \* buffer
  ingest,     \* the ingest task: "running", "done" or "failed"
  queue,      \* _Dispatch.queue
  eof, error, \* _Dispatch.eof; whether _Dispatch.error is set
  pump,       \* the decode pump: "idle", "busy" or "done"
  request,    \* what the worker decodes
  out,        \* out_q
  stream,     \* the caller's iterator: "open", "returned" or "raised"
  finals,     \* history: the finals submitted
  emitted,    \* history: the hypotheses yielded
  tailEnds    \* history: the resampler's tail ended the last turn

cutting  == <<loud, detector, turns, turn, buffer>>
dispatch == <<queue, eof, error>>
pumping  == <<pump, request>>
history  == <<emitted, tailEnds>>
vars == <<cutting, ingest, dispatch, finals, pumping, out, stream, history>>

Least(a, b) == IF a < b THEN a ELSE b
Nothing == [turn |-> 0, final |-> FALSE, frames |-> <<>>]
Failure == [kind |-> "error"]
EndOfStream == [kind |-> "end"]
NotInTurn(vad) ==
  [vad |-> vad, preRoll |-> <<>>, inTurn |-> FALSE, length |-> 0, silence |-> 0, partial |-> 0]

Init ==
  /\ loud = <<>> /\ turns = 0 /\ turn = 0 /\ buffer = <<>>
  /\ detector = NotInTurn(VadStart)
  /\ ingest = "running"
  /\ queue = <<>> /\ eof = FALSE /\ error = FALSE
  /\ pump = "idle" /\ request = Nothing
  /\ out = <<>> /\ stream = "open"
  /\ finals = <<>> /\ emitted = <<>> /\ tailEnds = FALSE

---------------------------------------------------------------------------
(* UtteranceEndpointDetector *)

(* _retain_pre_roll() *)
Retained(d, n) ==
  LET q == Append(d.preRoll, n)
  IN  [d EXCEPT !.preRoll = IF Len(q) > PreRoll THEN Tail(q) ELSE q]

(* _reset_turn_state() *)
Closed(d) == NotInTurn(d.vad)

(* An EndpointAction, with the detector after it; _take_partial_tick() is  *)
(* asked whenever the action carries frames.                               *)
Action(d, ends, starts, frames) ==
  LET due == frames # <<>> /\ d.partial >= PartialInterval
  IN  [detector |-> IF due THEN [d EXCEPT !.partial = 0] ELSE d,
       ends |-> ends, starts |-> starts, frames |-> frames, due |-> due]

(* _start_turn() *)
Start(d, ends, n) ==
  LET frames == Append(d.preRoll, n)
  IN  Action([vad |-> d.vad, preRoll |-> <<>>, inTurn |-> TRUE, length |-> Len(frames),
              silence |-> 0, partial |-> Len(frames)], ends, TRUE, frames)

(* Mutant of InTurn: the frame at a split is in neither turn. *)
InTurnLosingSplit(d, n) ==
  LET more == [d EXCEPT !.length = @ + 1, !.partial = @ + 1,
                        !.silence = IF d.vad.inSpeech THEN 0 ELSE @ + 1]
  IN  CASE more.length > MaxUtterance     -> Action(Closed(d), TRUE, FALSE, <<>>)
        [] more.silence >= EndSilence /\ ~d.vad.inSpeech
                                          -> Action(Retained(Closed(d), n), TRUE, FALSE, <<>>)
        [] OTHER                          -> Action(more, FALSE, FALSE, <<n>>)

(* feed() inside a turn: a split, the end by silence, or one more frame. *)
InTurn(d, n) ==
  LET more == [d EXCEPT !.length = @ + 1, !.partial = @ + 1,
                        !.silence = IF d.vad.inSpeech THEN 0 ELSE @ + 1]
  IN  CASE more.length > MaxUtterance /\ d.vad.inSpeech  -> Start(Closed(d), TRUE, n)
        [] more.length > MaxUtterance /\ ~d.vad.inSpeech ->
             Action(Retained(Closed(d), n), TRUE, FALSE, <<>>)
        [] more.length <= MaxUtterance /\ ~d.vad.inSpeech /\ more.silence >= EndSilence ->
             Action(Retained(Closed(d), n), TRUE, FALSE, <<>>)
        [] OTHER -> Action(more, FALSE, FALSE, <<n>>)

(* feed() of frame n. *)
Feed(d0, n, isLoud) ==
  LET d == [d0 EXCEPT !.vad = VadAfter(@, [loud |-> isLoud])]
  IN  IF d.inTurn THEN InTurn(d, n)
      ELSE IF d.vad.inSpeech THEN Start(d, FALSE, n)
      ELSE Action(Retained(d, n), FALSE, FALSE, <<>>)

---------------------------------------------------------------------------
(* _Dispatch *)

Request(t, final, frames) == [turn |-> t, final |-> final, frames |-> frames]

(* Mutant of PartialPushed: partials go ahead of finals. *)
PartialAhead(q, r) ==
  IF q # <<>> /\ ~Last(q).final THEN Append(Front(q), r) ELSE <<r>> \o q

(* push_partial(): the latest one wins. *)
PartialPushed(q, r) ==
  IF q # <<>> /\ ~Last(q).final THEN Append(Front(q), r) ELSE Append(q, r)

(* push_final(), when it does not overrun: it replaces its turn's partial. *)
FinalPushed(q, r) ==
  IF q # <<>> /\ ~Last(q).final /\ Last(q).turn = r.turn
    THEN Append(Front(q), r) ELSE Append(q, r)

FinalsIn(q) == Cardinality({i \in DOMAIN q : q[i].final})

(* Too many finals wait: SttOverrunError. *)
Overrun(q) == FinalsIn(q) >= MaxPending

---------------------------------------------------------------------------
(* _ingest() *)

(* Mutant of IngestFails: the caller hears of it only through the pump. *)
IngestFailsQuietly ==
  /\ ingest' = "failed"
  /\ error' = TRUE
  /\ UNCHANGED <<queue, finals, out>>

(* An exception: it is kept for the pump and shown to the caller. *)
IngestFails ==
  /\ ingest' = "failed"
  /\ error' = TRUE
  /\ out' = Append(out, Failure)
  /\ UNCHANGED <<queue, finals>>

(* A final of the buffer so far is submitted, and then perhaps a partial. *)
Submit(final, partial) ==
  IF final # Nothing /\ Overrun(queue) THEN IngestFails
  ELSE LET q == IF final = Nothing THEN queue ELSE FinalPushed(queue, final)
       IN  /\ queue' = IF partial = Nothing THEN q ELSE PartialPushed(q, partial)
           /\ finals' = IF final = Nothing THEN finals ELSE Append(finals, final)
           /\ UNCHANGED <<ingest, error, out>>

(* A frame of the source. *)
IngestFrame(isLoud) ==
  /\ ingest = "running" /\ stream = "open" /\ Len(loud) < MaxFrames
  /\ loud' = Append(loud, isLoud)
  /\ LET action == Feed(detector, Len(loud'), isLoud)
     IN  /\ detector' = action.detector
         /\ turns' = turns + IF action.starts THEN 1 ELSE 0
         /\ turn' = IF action.starts THEN turns' ELSE IF action.ends THEN 0 ELSE turn
         /\ buffer' = (IF action.ends THEN <<>> ELSE buffer) \o action.frames
         /\ Submit(IF action.ends THEN Request(turn, TRUE, buffer) ELSE Nothing,
                   IF action.due THEN Request(turn', FALSE, buffer') ELSE Nothing)
  /\ UNCHANGED <<eof, pumping, stream, history>>

(* The source raises, or changes its sample rate. *)
SourceFails ==
  /\ ingest = "running" /\ stream = "open"
  /\ IngestFails
  /\ UNCHANGED <<cutting, eof, pumping, stream, history>>

(***************************************************************************)
(* The source ends.  What the resampler still holds is fed to an open      *)
(* turn, whose buffer takes it; what else the detector says of it is not   *)
(* looked at.  An open turn is then submitted.                             *)
(***************************************************************************)
EndOfAudio(tail, isLoud) ==
  /\ ingest = "running" /\ stream = "open"
  /\ LET feeds == tail /\ detector.inTurn
         action == IF feeds THEN Feed(detector, Len(loud) + 1, isLoud)
                   ELSE Action(detector, FALSE, FALSE, <<>>)
     IN  /\ loud' = IF feeds THEN Append(loud, isLoud) ELSE loud
         /\ buffer' = buffer \o action.frames
         /\ tailEnds' = (action.ends /\ ~action.starts)
         /\ detector' = Closed(action.detector)
         /\ turns' = turns + IF action.starts THEN 1 ELSE 0
         /\ IF action.detector.inTurn /\ Overrun(queue) THEN IngestFails /\ UNCHANGED eof
            ELSE /\ ingest' = "done" /\ eof' = TRUE
                 /\ LET last == Request(turn, TRUE, buffer')
                    IN  IF action.detector.inTurn
                          THEN queue' = FinalPushed(queue, last) /\ finals' = Append(finals, last)
                          ELSE UNCHANGED <<queue, finals>>
                 /\ UNCHANGED <<error, out>>
  /\ UNCHANGED <<turn, pumping, stream, emitted>>

---------------------------------------------------------------------------
(* _decode_pump() *)

PumpTakes ==
  /\ pump = "idle" /\ queue # <<>> /\ ~error
  /\ pump' = "busy" /\ request' = Head(queue) /\ queue' = Tail(queue)
  /\ UNCHANGED <<cutting, ingest, eof, error, finals, out, stream, history>>

(* The worker answers: tokens, none, or a cancellation, or it fails. *)
WorkerAnswers(answer) ==
  /\ pump = "busy"
  /\ request' = Nothing
  /\ pump' = IF answer = "error" THEN "done" ELSE "idle"
  /\ out' = CASE answer = "tokens"  -> Append(out, [kind |-> "tokens", hyp |-> request])
              [] answer = "error"   -> Append(out, Failure)
              [] answer = "nothing" -> out
  /\ UNCHANGED <<cutting, ingest, dispatch, finals, stream, history>>

(* Nothing is left to decode and nothing will come. *)
AtEnd == queue = <<>> /\ eof

PumpEnds ==
  /\ pump = "idle"
  /\ \/ error /\ out' = Append(out, Failure)
     \/ ~error /\ AtEnd /\ out' = Append(out, EndOfStream)
  /\ pump' = "done"
  /\ UNCHANGED <<cutting, ingest, dispatch, finals, request, stream, history>>

---------------------------------------------------------------------------
(* _stream(): the caller. *)

(* When the iterator is left, both tasks are cancelled; awaiting an ingest *)
(* task that failed raises before the pump's turn comes.                   *)
Leave(how) ==
  /\ stream' = how
  /\ ingest' = IF ingest = "running" THEN "done" ELSE ingest
  /\ pump' = IF ingest = "failed" THEN pump ELSE "done"
  /\ request' = IF ingest = "failed" THEN request ELSE Nothing

Receive ==
  /\ stream = "open" /\ out # <<>>
  /\ out' = Tail(out)
  /\ LET item == Head(out)
     IN  \/ /\ item.kind = "tokens"
            /\ emitted' = Append(emitted, item.hyp)
            /\ UNCHANGED <<stream, ingest, pumping>>
         \/ item.kind = "error" /\ Leave("raised") /\ UNCHANGED emitted
         \/ item.kind = "end" /\ Leave("returned") /\ UNCHANGED emitted
  /\ UNCHANGED <<cutting, dispatch, finals, tailEnds>>

(* The session is over: the caller closes the iterator. *)
Close ==
  /\ stream = "open"
  /\ Leave("closed")
  /\ UNCHANGED <<cutting, dispatch, finals, out, history>>

Next ==
  \/ \E isLoud \in BOOLEAN : IngestFrame(isLoud)
  \/ SourceFails
  \/ \E tail, isLoud \in BOOLEAN : EndOfAudio(tail, isLoud)
  \/ PumpTakes
  \/ \E answer \in {"tokens", "nothing", "error"} : WorkerAnswers(answer)
  \/ PumpEnds
  \/ Receive \/ Close

Spec == Init /\ [][Next]_vars

(* The loop runs the pump and the caller; nothing makes the worker answer. *)
FairSpec == Spec /\ WF_vars(PumpTakes \/ PumpEnds) /\ WF_vars(Receive)

---------------------------------------------------------------------------
TypeOK ==
  /\ ingest \in {"running", "done", "failed"}
  /\ pump \in {"idle", "busy", "done"}
  /\ stream \in {"open", "returned", "raised", "closed"}
  /\ Len(queue) <= MaxPending + 1 /\ FinalsIn(queue) <= MaxPending
  /\ turn \in 0..turns /\ turns <= Len(loud)

Speech == {i \in DOMAIN loud : IsSpeech(loud, i)}
Cut == {ToSet(finals[i].frames) : i \in DOMAIN finals}

(***************************************************************************)
(* Every frame of speech is decoded in exactly one turn, the open one or   *)
(* one that was submitted, across ends by silence, splits and the end of   *)
(* the source; unless the tail of the resampler itself ended the turn,     *)
(* which is then never submitted.                                          *)
(***************************************************************************)
SpeechIsInOneTurn ==
  ingest # "failed" /\ ~tailEnds =>
    \A n \in Speech :
      \/ n \in ToSet(buffer) /\ \A frames \in Cut : n \in frames => ToSet(buffer) = frames
      \/ \E frames \in Cut : n \in frames /\ \A others \in Cut : n \in others => others = frames

(* The silence that ends a turn; whatever EndSilence, it has a frame. *)
Pause == IF EndSilence = 0 THEN 1 ELSE EndSilence

(***************************************************************************)
(* Turns are cut where they should be: a turn is an unbroken stretch of    *)
(* audio with at most the pre-roll before its first speech, it holds no    *)
(* silence long enough to end it, and it ends because such a silence, its  *)
(* greatest length or the end of the source has come.                      *)
(***************************************************************************)
TurnsAreCutRight ==
  \A i \in DOMAIN finals :
    LET frames == finals[i].frames
        first == Head(frames)
        last == Last(frames)
        Silent(a, b) == \A n \in a..b : n \notin Speech
    IN  /\ \A k \in DOMAIN frames : frames[k] = first + k - 1
        /\ ~Silent(first, Least(first + PreRoll, last))
        /\ \A n \in first..last :
             (n - Pause + 1 >= first /\ n > first + PreRoll) => ~Silent(n - Pause + 1, n)
        /\ \/ Len(frames) >= MaxUtterance
           \/ Silent(last + 2 - Pause, last + 1)
           \/ eof /\ i = Len(finals)

(***************************************************************************)
(* What is yielded comes in the order the recogniser's user relies on:     *)
(* turn after turn, each hypothesis covering at least what the one before  *)
(* covered, and nothing of a turn after its final.                         *)
(***************************************************************************)
HypothesesInOrder ==
  \A i, j \in DOMAIN emitted :
    i < j =>
      \/ emitted[i].turn < emitted[j].turn
      \/ /\ emitted[i].turn = emitted[j].turn /\ ~emitted[i].final
         /\ IsPrefix(emitted[i].frames, emitted[j].frames)

(***************************************************************************)
(* "The last hypothesis of an utterance has is_final=True"                 *)
(* (backends/__init__.py:36): the pipeline stabilises what comes next from *)
(* the start only because of it.  A final that decodes to nothing is not   *)
(* yielded, whatever partials of that turn were.                           *)
(***************************************************************************)
TurnsEndWithFinal ==
  \A i \in DOMAIN emitted :
    (\/ i < Len(emitted) /\ emitted[i + 1].turn > emitted[i].turn
     \/ i = Len(emitted) /\ stream = "returned") => emitted[i].final

(***************************************************************************)
(* However far decoding falls behind, at most one partial waits, it is the *)
(* last in the queue, and it is of the turn that is still open.            *)
(***************************************************************************)
OnePartialWaits ==
  ingest = "running" =>
    \A i \in DOMAIN queue : ~queue[i].final => i = Len(queue) /\ queue[i].turn = turn

(* A failure of the source ends the stream although the pump may be parked *)
(* in a decode that never returns.                                         *)
FailureSurfaces == ingest = "failed" ~> stream # "open"

(* The end of the source ends the stream if the worker goes on answering,  *)
(* after whatever was still to be decoded.                                 *)
EndSurfaces == []<>(pump # "busy") => (eof ~> stream # "open")

(***************************************************************************)
(* The endpointer and the decode queue together: all speech is in one      *)
(* turn, and turns are cut where they should be (vad.py feed, whisper.py   *)
(* _ingest).                                                               *)
(***************************************************************************)
TurnsAreRight == SpeechIsInOneTurn /\ TurnsAreCutRight

(***************************************************************************)
(* The decode queue and the pump together: at most one partial waits, of   *)
(* the open turn, and what is yielded comes in order (whisper.py           *)
(* push_partial, push_final, _decode_pump).                                *)
(***************************************************************************)
HypothesesAreRight ==
  /\ TypeOK
  /\ OnePartialWaits
  /\ HypothesesInOrder

(***************************************************************************)
(* The stream ends when its source does, with an error if that was one     *)
(* (whisper.py _stream, _Dispatch.fail).                                   *)
(***************************************************************************)
StreamEnds == FailureSurfaces /\ EndSurfaces
===========================================================================
