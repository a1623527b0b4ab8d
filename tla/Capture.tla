------------------------------ MODULE Capture ------------------------------
(***************************************************************************)
(* From the microphone to the consumers: MicSource's callback thread and   *)
(* frame queue, the Broadcaster that fans frames out to bounded queues,    *)
(* and the BargeInDetector that reads one of them (audio_io.py, vad.py).   *)
(* The other subscriber is the recogniser, which may fall behind or leave. *)
(***************************************************************************)
EXTENDS EnergyVad, SequencesExt

CONSTANTS
  OnsetFrames,   \* onset_ms, in frames
  MicQueue,      \* queue_frames of the microphone
  SubQueue,      \* maxsize of the broadcaster's queues
  MaxFrames      \* bound: frames captured

ASSUME CaptureAssumption ==
  /\ {OnsetFrames, MicQueue, SubQueue} \subseteq Nat \ {0}
  /\ MaxFrames \in Nat

Subs == {"stt", "barge"}

VARIABLES
  live,       \* TRUE: a microphone; FALSE: a finite source, read on demand
  source,     \* "open", "ended" (its iterator returned) or "failed" (it raised)
  captured,   \* history: how many frames there were
  posted,     \* frames the callback thread handed to the event loop
  micQ, micDropped,
  offered,    \* history: the numbers of the frames the broadcaster took
  queues,     \* _queues: frames, then perhaps the sentinel
  dropped,    \* dropped: how many frames each queue lost
  got,        \* history: how many frames each subscriber received
  watched,    \* history: the frames the barge-in detector received
  reader,     \* each subscriber: "reading", "ended" or "left"
  detector,   \* the barge-in detector: its VAD, armed and the run of speech
  onsets      \* history: at which of its frames an onset fired

mic   == <<source, captured, posted, micQ, micDropped>>
fanOut == <<offered, queues, dropped>>
reading == <<got, watched, reader, detector, onsets>>
vars == <<live, mic, fanOut, reading>>

Sentinel == [n |-> 0]

Init ==
  /\ live \in BOOLEAN
  /\ source = "open"
  /\ captured = 0 /\ posted = <<>> /\ micQ = <<>> /\ micDropped = 0
  /\ offered = <<>>
  /\ queues = [s \in Subs |-> <<>>] /\ dropped = [s \in Subs |-> 0]
  /\ got = [s \in Subs |-> 0] /\ watched = <<>>
  /\ reader = [s \in Subs |-> "reading"]
  /\ detector = [vad |-> VadStart, armed |-> FALSE, run |-> 0]
  /\ onsets = {}

---------------------------------------------------------------------------
(* The microphone. *)

NewFrame(loud, note) == [n |-> captured + 1, loud |-> loud, note |-> note]

(* _callback(), on PortAudio's thread: the frame is posted to the loop. *)
Callback(loud, note) ==
  /\ live /\ source = "open" /\ captured < MaxFrames
  /\ captured' = captured + 1
  /\ posted' = Append(posted, NewFrame(loud, note))
  /\ UNCHANGED <<live, source, micQ, micDropped, fanOut, reading>>

(* Mutant of Squeezed: the newest frame of a full queue makes room. *)
SqueezedNewest(q, max) == IF Len(q) >= max THEN Front(q) ELSE q

(* Drop-oldest: what is left of a queue that must take one more. *)
Squeezed(q, max) == IF Len(q) >= max THEN Tail(q) ELSE q

(* _push(), on the loop. *)
Push ==
  /\ posted # <<>>
  /\ micQ' = Append(Squeezed(micQ, MicQueue), Head(posted))
  /\ micDropped' = micDropped + IF Len(micQ) >= MicQueue THEN 1 ELSE 0
  /\ posted' = Tail(posted)
  /\ UNCHANGED <<live, source, captured, fanOut, reading>>

---------------------------------------------------------------------------
(* The broadcaster. *)

(* _offer() to every subscriber. *)
Offer(frame) ==
  /\ offered' = Append(offered, frame.n)
  /\ queues' = [s \in Subs |-> Append(Squeezed(queues[s], SubQueue), frame)]
  /\ dropped' = [s \in Subs |-> dropped[s] + IF Len(queues[s]) >= SubQueue THEN 1 ELSE 0]

(* The broadcaster's turn: a frame of the microphone, whose status raises. *)
TakeFromMic ==
  /\ live /\ source = "open" /\ micQ # <<>>
  /\ micQ' = Tail(micQ)
  /\ IF Head(micQ).note
       THEN source' = "failed" /\ UNCHANGED fanOut
       ELSE Offer(Head(micQ)) /\ UNCHANGED source
  /\ UNCHANGED <<live, captured, posted, micDropped, reading>>

(* A frame of a finite source. *)
TakeFromFile(loud) ==
  /\ ~live /\ source = "open" /\ captured < MaxFrames
  /\ captured' = captured + 1
  /\ Offer(NewFrame(loud, FALSE))
  /\ UNCHANGED <<live, source, posted, micQ, micDropped, reading>>

(* Mutant of WithSentinel: a full queue gets no sentinel. *)
WithSentinelIfRoom(q) == IF Len(q) >= SubQueue THEN q ELSE Append(q, Sentinel)

(* The sentinel takes the place of the oldest frame of a full queue. *)
WithSentinel(q) == Append(Squeezed(q, SubQueue), Sentinel)

EndOfSource ==
  /\ ~live /\ source = "open"
  /\ source' = "ended"
  /\ queues' = [s \in Subs |-> WithSentinel(queues[s])]
  /\ UNCHANGED <<live, captured, posted, micQ, micDropped, offered, dropped, reading>>

---------------------------------------------------------------------------
(* The subscribers. *)

(* feed() returns TRUE: the run of speech has just become long enough. *)
Fires(d) == d.armed /\ d.vad.inSpeech /\ d.run + 1 >= OnsetFrames

(* Mutant of DetectorAfter: an onset does not disarm. *)
DetectorStaysArmed(d, frame) ==
  LET heard == [d EXCEPT !.vad = VadAfter(@, frame)]
  IN  IF ~heard.vad.inSpeech THEN [heard EXCEPT !.armed = TRUE, !.run = 0]
      ELSE IF Fires(heard) THEN [heard EXCEPT !.run = 0]
      ELSE [heard EXCEPT !.run = IF d.armed THEN @ + 1 ELSE @]

(* feed(): the detector after a frame. *)
DetectorAfter(d, frame) ==
  LET heard == [d EXCEPT !.vad = VadAfter(@, frame)]
  IN  IF ~heard.vad.inSpeech THEN [heard EXCEPT !.armed = TRUE, !.run = 0]
      ELSE IF Fires(heard) THEN [heard EXCEPT !.armed = FALSE, !.run = 0]
      ELSE [heard EXCEPT !.run = IF d.armed THEN @ + 1 ELSE @]

Feed(frame) ==
  /\ watched' = Append(watched, frame.loud)
  /\ detector' = DetectorAfter(detector, frame)
  /\ onsets' = IF Fires([detector EXCEPT !.vad = VadAfter(@, frame)])
                 THEN onsets \cup {Len(watched) + 1} ELSE onsets

(* A subscriber takes the next item of its queue. *)
Receive(s) ==
  /\ reader[s] = "reading" /\ queues[s] # <<>>
  /\ queues' = [queues EXCEPT ![s] = Tail(@)]
  /\ LET frame == Head(queues[s])
     IN  IF frame = Sentinel
           THEN reader' = [reader EXCEPT ![s] = "ended"] /\ UNCHANGED <<got, watched, detector, onsets>>
           ELSE /\ got' = [got EXCEPT ![s] = @ + 1]
                /\ IF s = "barge" THEN Feed(frame) ELSE UNCHANGED <<watched, detector, onsets>>
                /\ UNCHANGED reader
  /\ UNCHANGED <<live, mic, offered, dropped>>

(* The recogniser stops reading before the source ends. *)
Leave ==
  /\ reader["stt"] = "reading"
  /\ reader' = [reader EXCEPT !["stt"] = "left"]
  /\ UNCHANGED <<live, mic, fanOut, got, watched, detector, onsets>>

Next ==
  \/ \E loud, note \in BOOLEAN : Callback(loud, note)
  \/ Push
  \/ TakeFromMic
  \/ \E loud \in BOOLEAN : TakeFromFile(loud)
  \/ EndOfSource
  \/ \E s \in Subs : Receive(s)
  \/ Leave

Spec == Init /\ [][Next]_vars

(* The loop runs the callbacks posted to it and the tasks that can go on.  *)
FairSpec ==
  Spec /\ WF_vars(Push) /\ WF_vars(TakeFromMic) /\ \A s \in Subs : WF_vars(Receive(s))

---------------------------------------------------------------------------
(* The frames in a queue, which perhaps ends with the sentinel. *)
Numbers(q) ==
  LET frames == IF q # <<>> /\ Last(q) = Sentinel THEN Front(q) ELSE q
  IN  [i \in DOMAIN frames |-> frames[i].n]

TypeOK ==
  /\ source \in {"open", "ended", "failed"}
  /\ Len(micQ) <= MicQueue
  /\ \A s \in Subs : Len(queues[s]) <= SubQueue
  /\ onsets \subseteq DOMAIN watched

(***************************************************************************)
(* Live speech loses only its oldest frames: what a subscriber has still   *)
(* to read are the newest frames there were, none repeated or out of       *)
(* order, and every loss is counted, until the sentinel makes room.  The   *)
(* same holds for the microphone's own queue.                              *)
(***************************************************************************)
LosesOnlyTheOldest ==
  /\ live /\ source = "open" =>
       /\ \A i \in DOMAIN micQ : micQ[i].n = captured - Len(posted) - Len(micQ) + i
       /\ captured = Len(offered) + Len(micQ) + Len(posted) + micDropped
  /\ \A s \in Subs :
       /\ IsSuffix(Numbers(queues[s]), offered)
       /\ source # "ended" =>
            Len(offered) = got[s] + Len(queues[s]) + dropped[s]

(***************************************************************************)
(* An onset is reported exactly when a run of speech that follows silence  *)
(* reaches the debounce length, once for each run: not for the first       *)
(* speech of the session, not for blips, and not again within the run.     *)
(* Silence and speech are those of the frames the detector received.       *)
(***************************************************************************)
OnsetsAreDebounced ==
  LET Speech(i) == IsSpeech(watched, i)
  IN  onsets = {i \in DOMAIN watched :
                  /\ i > OnsetFrames /\ ~Speech(i - OnsetFrames)
                  /\ \A j \in (i - OnsetFrames + 1)..i : Speech(j)}

(***************************************************************************)
(* A subscriber that still reads is told that the source has ended, even   *)
(* when its queue is full and the other subscriber has left.               *)
(***************************************************************************)
EndIsDelivered ==
  \A s \in Subs : source = "ended" ~> reader[s] \in {"ended", "left"}

(***************************************************************************)
(* The queues between the device and the subscribers keep their bounds,    *)
(* and drop only what is oldest (audio_io.py _offer, _push).               *)
(***************************************************************************)
DropsAreRight == TypeOK /\ LosesOnlyTheOldest
===========================================================================
