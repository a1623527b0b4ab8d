# A verification project for interpret-live

`interpret-live` translates speech to speech while the speaker is still talking.
This directory holds TLA+ models of its control logic, TLC configurations that
check them on small instances, and theorems that TLAPS proves for every value of
the constants. Source paths are relative to the repository root; the package is
`src/interpret_live/`.

To repeat everything: `tlc -config X.cfg M` for each row of the table of runs, and
`tlapm` on `PipelineProofs`, `SpeakerRingProofs`, `S2SProofs`, `ListeningProofs`,
`WhisperSttProofs`, `PiperTtsProofs`, `StartupProofs` and `ProvidersProofs` (the last takes
about ten minutes).

## 1. The system

| component | state | operations | who it talks to |
|---|---|---|---|
| **Interruptible pipeline** `pipeline.py` | two bounded queues, the interrupt event, utterance id, roll counters, abandoned utterances and turns, generation per utterance | STT stage, supervisor with its work task, playback task, barge-in stage | recogniser (async iterator), MT/TTS (awaited by the work task), sink |
| **Playback contract** `audio_io.py` `_GenerationLedger`, `FakeAudioSink` | generations issued, invalidated; outstanding handles | `new_generation`, `schedule` (blocks), `stop`, `drain`, presentation | every caller that plays audio |
| **Stabilizer and segmenter** `stabilize.py`, `segment.py` | window, committed prefix, disagreement counter; open segment, history, spans | `commit`, `reset`; `feed`, `flush`, `context_for`, `reset` | owned by the STT stage |
| **Speaker sink** `audio_io.py` `SpeakerSink` | ring buffer with read/write positions, ledger, stream | the contract above, plus a PortAudio callback on another thread | sound card |
| **Broadcaster, microphone** `audio_io.py` | a bounded queue per subscriber; the frame queue of the mic thread | `run`, `subscribe`, drop-oldest `_offer` | STT, barge-in detector |
| **Speech-to-speech pipeline** `s2s.py` | response ledger, cursor of each response, interrupt event | pump, event scheduler, barge-in | provider adapter, sink |
| **Model worker** `model_worker.py` | child process, request queue, cancel event, pending futures, bridge thread | `start`, `request`, `signal_cancel`, `aclose` | Whisper, NLLB, Piper |
| **Whisper adapter** `backends/whisper.py` | dispatch queue (replaceable partials, finals), turn state | ingest, decode pump | model worker, endpointing |
| **VAD, debounce, endpointing** `vad.py` | armed/run length; turn, pre-roll, silence run | `feed`, `flush`, `reset` | Whisper adapter, barge-in stages |
| **OpenAI realtime adapter** `backends/realtime.py` | command queue, sent-audio ledger, EOF state | pump, receive, interrupt | provider socket |
| **Gemini adapter** `backends/gemini.py` | current turn, onset claims | receive, interrupt, finish | provider socket |
| **NLLB, Piper, ElevenLabs** `backends/` | a request in flight | translate, synthesize | model worker, HTTP |
| **Session, dual channel, runtime** `session.py`, `runtime.py` | what was started | negotiate, start under a budget, run, close | everything above |
| **Model manager** `models.py` | files of the cache | resolve, download, verify, purge | file system, HTTP |
| clock, metrics, codec, types, config, CLI, bench, fakes | data and test doubles | | |

What is hard in it:

* **Interleavings.** Five tasks share two queues, an event, two counters and the
  sink, and each of them suspends in the middle of what it does: the STT stage in a
  put per segment, the playback task inside `schedule()`, the barge-in handler once
  per generation it stops.
* **Stale state.** A put or a `schedule()` that was blocked before a barge-in goes on
  after it; a roll is applied when the next hypothesis arrives and not when it was
  asked for.
* **Failure and shutdown.** MT, TTS or the device may fail and the session may be
  cancelled while any task is blocked on a full queue; the end of the stream travels
  as a sentinel through queues that a barge-in drains.
* **Boundaries.** Queues, the sink, the agreement window and the segment cap at
  their limits.

* **Threads, processes, servers.** A sound-card thread moves the ring's read position
  while the loop moves the write position; a child process answers requests that may
  have been abandoned; a provider's events cross the client's on the wire; a download
  may be killed while another process waits for its lock.

`PROJECT.json` lists each hazard with its line and the properties that cover it; the
ones without a property say why.

What makes each component correct: the *pipeline* never lets an interrupted
utterance be heard again, translates nothing twice, loses nothing without a barge-in,
returns, and leaks no task; the *sink* has one owner, plays in order and stays silent
after a stop; the *stabilizer* commits what all hypotheses of a window agree on, never
retracts, and the *segmenter* cuts exactly that into segments; the *speaker* must
keep the sink's contract across two threads; the *broadcaster* must deliver the end;
*s2s* must truncate the response the listener hears; the *worker* must answer or fail
every request; the *dispatch* must not reorder or lose finals; *endpointing* must
attribute every frame to one turn; the *realtime* pump must keep a control group
together; *Gemini* must not let late content open a turn; *sessions* must close what
they started; the *cache* must never show an unverified file as resolved.

## 2. The modules

| module | models | composed of |
|---|---|---|
| `PlaybackContract` | what an `AudioSink` promises (abstract) | instantiated by `PlaybackSink` and `SpeakerRing` |
| `PlaybackLedger` | the generation ledger and `FakeAudioSink` | |
| `PlaybackSink` | that sink with any number of callers | extends `PlaybackLedger` |
| `Pipeline` | `run_with_barge_in()` with its tasks and its sink | extends `PlaybackLedger` |
| `Interpretation` | what the listener is promised (abstract) | instantiated by `Pipeline` |
| `Stabilizer` | stabilizer and segmenter under the STT stage | |
| `SpeakerRing` | `SpeakerSink`: ring, callback thread, receipts | |
| `S2S` | `S2SPipeline` with its sink, over any provider | extends `PlaybackLedger` |
| `EnergyVad` | the hangover VAD | |
| `Capture` | microphone, broadcaster, barge-in debounce | extends `EnergyVad` |
| `WhisperStt` | endpointing, dispatch queue, decode pump | extends `EnergyVad` |
| `ModelWorker` | the child process, its bridge thread and its parent | |
| `PiperTts` | block-wise synthesis over that worker | extends `ModelWorker` |
| `ProviderStream` | what both live adapters share, and the provider | |
| `RealtimeS2S`, `GeminiS2S` | the two adapters | extend `ProviderStream` |
| `ResponseEvents` | the event stream `s2s.py` relies on (abstract) | instantiated by `Providers` |
| `Providers` | a session of either adapter | extends both |
| `ModelCache` | downloads by several processes into one cache | |
| `Startup` | `run_session`: preflight, adapters, sessions, exit stack | extends `ModelCache` |
| `MC...` | the instances for TLC | |
| `PipelineProofs` | theorems about `PlaybackSink` and `Pipeline` | extends both |
| `ListeningProofs` | theorems about `Capture` and `Stabilizer` | extends both |
| `SpeakerRingProofs`, `S2SProofs`, `WhisperSttProofs`, `PiperTtsProofs`, `StartupProofs`, `ProvidersProofs` | theorems | the module they are about |

### PlaybackLedger and PlaybackSink

A handle is a record `[order, gen, unit, sounding]`. `order` stands for the chain of
`prev` handles: a chunk starts to sound when no outstanding handle precedes it. Every
body under the sink's condition runs without suspending, so it is one action; a
`schedule()` that waits for capacity is a member of `calls` and `Resume` is its
wake-up, which re-evaluates `schedulable()` and then runs `check()` again.
`Schedulable`, `Admit`, `Schedule`, `Stop`, `StartSounding` and `FinishSounding` are
the methods of those names (`_present` is split at its suspension). `PlaybackSink`
adds callers that ask for generations and schedule under any of them, stopped or not.

`PlaybackContract` is what both sinks have in common, seen by a caller: when a chunk is
accepted, that chunks begin to sound and complete in the order they were accepted, that none
completes unheard (unless nothing sounds in it), and what a stop ends. It leaves open when
things happen, and how many chunks complete at once. `PlaybackSink` refines it with
`begun` mapped to its last handle that started. `audio_io.py:376` says of this sink that it
behaves like the real speaker; `SpeakerRing` refines the same contract, with `begun` mapped
to the last chunk the callback took frames of, as long as nothing of `harm` has happened.

### Pipeline

One action per piece of a task that runs between two suspensions. `sttPc`, `supPc`,
`work`, `playPc` and `bargePc` say where each task is suspended; the other variables
carry the names of the attributes they stand for. In the code, for instance,
`_handle_barge_in` marks the utterances, drains both queues and counts a roll without
suspending (`BargeIn`), stops the remembered generations one by one with a suspension
in each (`StopGeneration`), and re-arms the event (`EndBargeIn`, `Rearm`).

A token is its position in its source turn and a segment is a span of a turn stamped
with an utterance: enough to say that something is heard twice, skipped or stale. What
is committed and where segments close is any choice `Stabilizer` could make
(`Tilings`). A turn's hypotheses may be any number, a partial may shrink, the turn ends
with a final one. The work task may yield any number of chunks up to `MaxChunks`, end
or fail at any suspension.

`Interpretation` says what remains for the listener: units begin one at a time, in
source order, none twice, none of a silenced utterance. `Pipeline` refines it with
`sounding` mapped to the handle that sounds and `silenced` to the abandoned utterances
of which nothing is outstanding and whose blocked calls have lost their generation.

### Stabilizer

One action per hypothesis. A token is a word (what `normalize_token` leaves) and
whether it closes a segment, so two tokens may agree while only one closes. The loop of
`feed()` is a recursive function of the number of tokens it has taken (`FeedTokens`), which
the proofs can follow token by token. `recent` and `finished` are history:
the partials of this utterance and the outcome of the one that just ended.

### SpeakerRing

Positions are absolute frame numbers, as `_write_abs` and `_read_abs` are, and a frame
is `[order, frame]`: the how-manieth frame of which chunk. The callback is two actions,
because the loop may run between its look at the positions and its advance. A chunk is
written in pieces (`WriteOn`), each as large as the ring has room for. `PresentedNow` is
the set of values `_presented_abs()` may return: it depends on the stream's clock.
`harm` records four things that go wrong in the code and that the properties are then
not asked about; section 6 names them.

### S2S

An action is what the scheduler does between two suspensions; `pc` says where it is
suspended. The receiver and the event queue are one sequence, one longer than the queue
(the event the receiver holds). Responses are numbered; a chunk's `unit` is its
response. `heard` is the truth that the receipts are compared with. The provider is the
environment, and in one respect there are two: once its stream is over, the OpenAI adapter
refuses to be interrupted and the Gemini adapter does not (`refuses`, chosen in `Init`). A
barge-in that is refused fails the session (`InterruptRefused`), because nothing between
`_handle_barge_in` and the session catches what `interrupt()` raises.

### Capture and EnergyVad

A frame is a number and whether it is loud. `Callback` runs on the device's thread and
hands the frame to the loop (`call_soon_threadsafe`), `Push` is what the loop then runs.
Both consumers are subscribers that may lag or leave; the second one feeds the detector.

### WhisperStt

`IngestFrame` is one turn of the loop in `_ingest` with the whole of
`UtteranceEndpointDetector.feed()`; a buffer is the sequence of frame numbers in it. The
worker answers with text, with nothing or with an error, or does not answer. With
`end_silence_ms = 0` the first frame that is not speech ends the turn, so the silence the
properties speak of (`Pause`) has at least one frame.

### ModelWorker and PiperTts

The two queues between the processes are sequences, the cancel event is a flag both
sides see, and the child may die at any step. `PiperTts` is a sequence of utterances
through it, each abandoned at any suspension.

### ProviderStream, RealtimeS2S, GeminiS2S, Providers

The server is the environment: its VAD begins and ends turns of speech in the audio it
received, it owes each turn one response, and its messages wait in `inbox`. `Providers`
chooses one of the adapters. `races` records two encounters the code has no answer to
(section 6). `Providers` implements `ResponseEvents`: a response begins once, its audio
comes before its end, at most one is open, nothing follows the end of the stream.

### ModelCache and Startup

A process of the cache is the preflight child or an `interpret-live models download`
next to it. The file system is `file` (under the final name) and `part` (one partial file
for each process). In `Startup` an adapter stands for its worker, and time is counted in
ticks only while something closes, because that is where budgets meet: a worker's
`aclose()` waits two graces, and the stack gives it one budget.

## 3. The runs

| run | shows |
|---|---|
| `sink` (`MCPlaybackSink.cfg`) | capacity, one generation at a time, silence after a stop, order, and that a blocked call returns once its generation is stopped; it implements `PlaybackContract` |
| `pipeline_safety` (`PipelineSafety.cfg`) | with an onset, failures and a cancellation at any moment: silence after a barge-in, nothing translated twice, no gap without a barge-in, new speech owned by a live utterance, bounded queues and no task left behind, and the refinement of `Interpretation` |
| `pipeline_liveness` (`PipelineLiveness.cfg`) | `run_with_barge_in()` returns whatever two onsets race; every chunk synthesized is heard unless an onset comes, or the sentinel takes its place in a full queue |
| `stabilizer` (`MCStabilizer.cfg`) | only what a whole window agrees on is committed, never retracted, and cut into segments without loss, repetition or foreign context |
| `speaker` (`SpeakerRing.cfg`) | the ring holds what is due, in order, across wraps; receipts claim no more than was heard; a stopped generation is silent; calls return and handles resolve; until something goes wrong it implements `PlaybackContract` |
| `s2s` (`S2S.cfg`) | a response that was cut is silent, cancelled once, with the cursor that was heard; late events are no errors, the session fails only with its provider or when that refuses an interrupt; an onset is put aside only when nothing sounds; what was not cut is heard; the session ends |
| `capture` (`Capture.cfg`) | only the oldest frames are lost and each loss is counted; an onset is a debounced one; the end reaches every subscriber |
| `whisper` (`WhisperStt.cfg`) | every speech frame is decoded in one turn, turns are cut where they should be, hypotheses come in order, one partial waits at most, failure and end reach the consumer |
| `worker` (`PiperTts.cfg`) | an utterance is answered with its own blocks and one final chunk, a cancellation hits its own request only, a request is answered although the child dies, a close leaves no process |
| `providers` (`Providers.cfg`) | no turn is answered twice, errors have a cause, the open turn is awaited at the end, a control group is sent together, interrupted audio is dropped, the stream ends; both adapters implement `ResponseEvents` |
| `startup` (`Startup.cfg`) | no download under way loses its partial file, only verified files appear, the start settles, nothing runs behind the cleanup, no child is left, the outcome is the true one, a stop or a failure reaches every task and `run_session` returns if these end |
| `cancelled_start` (`CancelledStart.cfg`) | the counterexample of section 6 |

Most modules end with properties that put related statements together, so that a run
names one of them for each question; each part has its own comment and can be checked by
itself. `PlaybackIsSound`, `PipelineIsSound`, `SegmentsAreRight`, `RingIsSound`,
`CutIsClean`, `DropsAreRight`, `HypothesesAreRight`, `AnswersAreOwn`, `TurnsAreAnswered`
and `ReturnsClean` contain the type invariant of their module; `CallsEnd`, `StreamEnds` of `WhisperStt` (`FailureSurfaces`
and `EndSurfaces`), `StreamEndsForCause` and `RunEnds` (`StartupSettles` and `StopReturns`)
put the ends of several waits together.

**Bounds.** Queues of one place and a sink of one chunk make every put and every
`schedule()` able to block; a larger queue only delays that. Two turns of two tokens
give two segments in one hypothesis (a put that suspends half-way), a segment of the
next turn queued behind an interrupted one, and a change of generation. One onset may
land at any suspension; two in the liveness run let one fall inside the handling of the
other. Liveness uses one token per turn: its hazards are queues, sentinel and rolls,
and two turns of one segment already fill both queues. The sink run has two places,
three generations and two blocked callers, so a stop can hit a sounding chunk, a queued
chunk and blocked calls of either generation. The stabilizer's window of three tells
agreement of all hypotheses from agreement of neighbours; three words with a cap of two
put a forced flush inside one commit; five hypotheses fill the window and contradict,
extend and finish what it committed.

*Speaker*: a ring of two frames, a block of two and a chunk of three, so that writes
wrap, suspend and meet a starved callback, and an empty chunk that ends without
sounding; two generations and three chunks, one of
another input rate with a tail. *S2S*: three responses of two chunks over a sink and a
queue of one, two onsets: one response can be in progress while an earlier one sounds
and a later one waits, and the second onset can fall into the first's handling.
*Capture*: five frames are silence, two frames of debounce and a dip on either side of
the hangover; queues of one and two drop at every stage. *Whisper*: six frames hold two
turns, or a split at four with what follows it; one final may wait, so the second one
overruns. *Worker*: three utterances of two blocks on a request queue of two, which
abandoned requests fill. *Providers*: two turns and two blocks; queues of one.
*Startup*: the two files of a voice, whose names begin alike, two processes, two
attempts, two adapters, two directions; grace and budget are the defaults in seconds;
one cancellation from outside.

**Deadlock** is checked in the sink and stabilizer runs. `pipeline_safety` switches it
off because with faults the pipeline really can hang (section 6); in
`pipeline_liveness` a hang is a violation of `Termination`. The other systems really
stop: a session, a stream or a run ends, and each of these runs has a liveness property
that says when it must.

**Fairness.** Weak fairness of each task and of the loop's callbacks: asyncio's ready
queue is a FIFO, so what can run does. Beyond the loop:

* `Pipeline`, `PlaybackSink`: a final hypothesis, the end of the microphone stream, the
  end of MT/TTS and presentation: the recogniser ends each turn, streams end, audio
  plays on. `StoppedCallReturns` of the sink assumes nothing of the audio.
* `SpeakerRing`: the callback is called again, and sooner or later its stream time shows
  everything copied as presented. Nobody has to schedule or stop.
* `S2S`: the provider goes on with its responses and ends its stream; it refuses interrupts
  after that or does not.
* `Capture`: nothing of the device; `EndIsDelivered` starts from the source's end.
* `WhisperStt`: nothing of the worker; `EndSurfaces` is about a worker that is idle again
  and again, `FailureSurfaces` holds with one that never answers.
* `PiperTts`: the child runs what it was given, or dies.
* `Providers`: the timeouts of `_finish_input` elapse (`settle_ms`, the response and commit
  timeouts are real waits), and the server answers a commit it received.
* `Startup`: downloads proceed and time passes while something closes; nobody has to press
  Ctrl-C, fail or end. Nothing is assumed of the tasks of the sessions, because a pipeline
  that is cancelled can hang, and one whose playback has died can run on without failing
  (section 6). `StopReturns` is conditional instead: if no task is for ever one that was
  asked to end and has not (`Hangs`), then after a stop or a failure `run_session` returns.
  What is left to go wrong is whether the request reaches every task of both directions,
  and whether the exit stack then gets to its end.

Onsets, faults, crashes and cancellations are owed to nobody.

## 4. What is proved

For every value of the constants the named `ASSUME`s allow: any number of turns, tokens,
chunks, onsets, callers, responses, frames, utterances, processes, artifacts and
adapters, any queue size and any capacity, any ring, block and chunk sizes, any audio and
any thresholds of the endpointing, any words, agreement window and segment cap; for
`Providers` either adapter, any faults and a server that may meet both races; for
`Pipeline` also every set of faults, with or without turn ids (but for two theorems), for
`S2S` both sinks, for `Capture` a live microphone and a file. The assumptions say that sizes are natural numbers, that queues, sink and
debounce hold at least one item, which adapters there are, and what kind of data the lists
of `Startup` are. Three say more:

* `SweepAssumption` (`ModelCache`): an artifact that a sweep would take along comes later
  in the order of resolution. The sweep goes by the beginning of a name, and
  `models.py` lists a voice before its config, whose name begins with the voice's.
* `2 * Grace < Budget`, a hypothesis of `StartupReturnsClean` alone: `aclose()` of a worker
  waits two graces, and the exit stack gives it one budget. True of the defaults; the
  budget is configurable (section 6), and below it the theorem would be false.
* `HasTurnIds`, a hypothesis of `NothingRetranslated` and `HeardAsPromised`: the recogniser
  numbers its turns. `WhisperSTT` does; for one that does not, TLC refutes
  `NeverRetranslated` (section 6), and both theorems would be false.

| theorem | says | inductive invariant |
|---|---|---|
| `CallersKeepTypes`, `SinkHasOneOwner`, `StoppedStaysSilent`, `PlaysInOrder`, together `SinkStaysSound` | `PlaybackIsSound`, the invariant of the sink run: types and capacity, one owner, silence after a stop, order | `SinkInv`: the four of them, `outstanding` finite, and handles numbered below `accepted`, each number once |
| `SinkKeepsContract` | `ImplementsContract`: `PlaybackSink` implements `PlaybackContract` | `SinkInv`, and that a call which waits is of a generation that was issued |
| `PipelineTypeOK` | types, both queue bounds, rolls never over-applied | `TypeInv`: `TypeOK` and `WorkInHand` (which work-task states go with which supervisor states, so that the segment in hand is one) |
| `SilenceAfterBargeIn`, `BargeInStopsAll` | `SilentAfterBargeIn`, `BargeInEmptiesSink` | `SilenceInv` |
| `NothingLeaks` | `NoTaskLeft` | `LeakInv`: `WorkInHand`, at most the playback task is blocked in `schedule()`, `NoTaskLeft` |
| `PipelineStaysSound` | `PipelineIsSound`: both | those of `PipelineTypeOK` and `NothingLeaks` |
| `NewSpeechOwned` | `NewSpeechIsOwned` | `OwnershipInv`: no stamp that is queued, in hand or abandoned is later than the current utterance |
| `NothingRetranslated` | `NeverRetranslated` | `OrderInv`: `SegmentsInv`, `LedgerInv`, `ChunksInv` |
| `NothingSkipped` | `NoGapWithoutBargeIn` | `GapInv` |
| `HeardAsPromised` | `ImplementsInterpretation`: `Pipeline` implements `Interpretation` | `OrderInv` |
| `SpeakerRingIsSound`, `SpeakerReceiptsAreHeard`, `SpeakerStoppedIsNotHeard` | both invariants of the run and its action property | `RingInv`: `LedgerInv`, `PositionsInv`, `SilenceInv`, `SpansInv` |
| `SpeakerKeepsContract` | `KeepsContract`: until something goes wrong, so does the speaker | `RingInv` |
| `S2SCutIsClean`, `S2SOthersUnharmed`, `S2SIgnoredOnsetsAreIdle` | both invariants of the run and its action property; a session fails only with its provider or when that refuses an interrupt, its stream over (`FailsForCause`) | `S2SInv` (`SpecS2SInv`) |
| `CaptureDropsAreRight`, `CaptureOnsetsAreDebounced` | both invariants of the run | `CaptureInv` (`SpecCaptureInv`) |
| `SpeechIsCutRight`, `HypothesesComeInOrder` | both invariants of the run `whisper` | `WhisperInv` (`WhisperInvariant`): `CutInv`, `QueueInv`, `FlowInv` |
| `PiperAnswersAreOwn` | the invariant of the run | `PiperInv` (`SpecPiperInv`) |
| `StartupCacheIsSound`, `StartupReturnsClean` | both invariants of the run | `CacheInv` (`SpecCacheInv`), `RunInv` |
| `TurnsAnswered`, `InterruptsClean`, `StreamsResponses` | the invariant of the run `providers`, its action property, and `ImplementsResponseEvents`: either adapter implements `ResponseEvents` | `IInv` (`ProvidersInvariant`): `Types`, and `CommandInv` with `RealtimeFlow` for Realtime, `GeminiInv` for Gemini |
| `RaisedForCause` | `RaisesForCause`, the safety half of `StreamEndsForCause` | the same |
| `SegmentsStayRight`, `OnlyAgreedCommits`, `RetractsNothing` | all three properties of the run `stabilizer` | `StabilizerInv` (`StabilizerInvariant`): `WindowInv`, `CutInv`, `CountInv`, `FinishedInv` |

`SilentAfterBargeIn` is not inductive: a stop silences a *generation*, and the property
is about an *utterance*. `SilenceInv` ties the two. Every outstanding handle, and every
blocked call whose generation is still valid, is of a pair `[utt, gen]` in
`_utt_generations` (`HandlesAreOwned`); outside a barge-in none of those pairs is of an
abandoned utterance (`LiveGenerations`); and during one, the pairs still to be stopped
are all there are, because playback finds an empty queue and can add none
(`StopsEverything`, which needs `NoEarlySentinel`: no sentinel is queued before the
supervisor's end). So when the last stop is done, nothing is outstanding.

`NewSpeechIsOwned` needs time: utterances are numbered, everything queued or in hand is
stamped at or before the present, and a barge-in abandons stamps of the present at most,
so the roll it asks for leaves all of them behind.

`OrderInv` is about places. A segment travels from the puts of the STT stage through
`segQ` and the work in hand to what was translated, a chunk from `ttsQ` through a blocked
`schedule()` and its handle to what was heard; each place is in order, and each lies
before the one upstream. What makes this inductive is `Behind`: everything on its way lies
behind what the STT stage may still cut. The stage's count of tokens restarts only in a
roll, and a roll makes the turn it restarts stale, so that nothing of it is cut again;
this is where the turn ids are needed. Within one hypothesis the segments tile the tokens,
and their order comes from there (`LeastNumber`, a least counterexample again). For the
refinement little more is needed: a step that lets a handle sound is `Begin`, one that
lets the sounding handle complete or stops it is `End`, a barge-in is `Interrupt`, and the
rest stutters, because one handle sounds at a time and nothing of a silenced utterance is
ever scheduled.

`GapInv` needs no turn ids. Until an interrupt is acted on, no roll is owed and nothing is
abandoned or stale (`Calm`), so what was last taken for translation, `segQ` and the puts
under way form one line in which each segment follows the one before (`Chained`), and
which reaches the token where the STT stage cuts next (`UpTo`). A sentinel, an abort or a
fault only ends the line; it takes nothing out of its middle.

`RingInv` gives every frame between the read and the write position to one outstanding
handle, as the frame of its chunk that the position is of the handle's span
(`QueuedIsSpanned`); spans follow each other without overlap, and what has been heard of
a chunk is the part of its span behind the read position (`HeardIsSpan`). The last span
reaches at least as far as is written, and further only while a `schedule()` is still
writing it (`LastIsWritten`), so that the next chunk begins where the last one ended. The
exceptions are those of the properties (`harm`), and each part of the invariant has its
own: types and bounds of the positions survive everything, silence after a stop all but a
torn callback and a stop that raised, the spans all but what a stop or a cut tail took out.
That no write overwrites a frame still due is the arithmetic of `SlotsApart`: positions
less than a ring apart differ modulo the ring. The contract follows from the same invariant:
the frames a callback takes are of outstanding handles (`QueuedIsSpanned`), so that one which
begins to sound does so while it is outstanding; a span that has been presented to its end
was heard to its end (`HeardIsSpan`), and the spans before it too, so handles complete in
order; and the tail of another rate lengthens a handle but changes neither number nor
generation.

`S2SInv` follows a response through the places that remember it. The event queue holds
the provider's order as far as it decides what may still follow an event (`QueueShape`);
the registry says which responses were announced and which are open; the ledger, that
handles and blocked calls are of live generations; the receipts, that what a handle
absorbed was heard. What makes `OthersUnharmed` provable is a count, `AllIsThere`: each
audio event of a response that no barge-in cut is in exactly one of the queue, a blocked
`schedule()`, the sink, or what was heard. The response a receipt cuts at is the newest
one that has been scheduled. That a non-empty set of numbers has a newest is itself an
induction, and is proved here by the least counterexample (`Newest`, over the library's
well-foundedness of the naturals).

`CaptureInv` has no history of what was lost; it says frame by frame what each queue holds
(`MicInOrder`: what waits on the way from the microphone are the last frames captured),
so that what is dropped can only be older. For the detector it says what its few numbers
mean for all the frames it was fed: while it is armed or the run is long, which frames of
the past were loud (`VadInv`, `RunInv`); an onset is then right at every frame although the
detector never looks back.

`WhisperInv` has the audio on one side and the hypotheses on the other. `CutInv` says of
the open turn's buffer what the property says of a turn, as far as it has come
(`Stretch`, `CutRight`), and what the detector's counters mean for the frames behind it:
its length is the buffer's, its silence the run of frames since the last speech
(`SilenceInv`), the VAD's hangover the run since the last loud one (`VadInv`). A turn that
starts takes the pre-roll along; that this is a stretch no earlier turn has taken frames
of is `CutBefore`. `FlowInv` follows a hypothesis from the dispatch queue through the
worker and the output queue to the caller, each place in order and before the one
upstream, as in `OrderInv`; all of it is `Past`: of an earlier turn, or a partial of the
open one whose frames are a prefix of what the buffer now holds. So a partial that
replaces the one waiting comes after everything ahead of it, and so does a final that
replaces it. `QueueInv` says that all but the last place of the dispatch queue hold finals,
which is why replacing at its end is enough.

`PiperInv` numbers requests in the order of the queue and lets no answer be newer than
what is unhandled. So when somebody waits, an answer with the last number means that the
child has nothing left to do, and its generator is where the adapter's lookahead of one
block expects it, whatever was abandoned before (`Waiting`, `Between`).

`CacheInv` is about locks: who is past the lock of an artifact holds it, and what comes
before that artifact in the order of resolution is there already. A partial file that a
sweep takes along is of a later artifact; were somebody writing it, the earlier one would
be complete, and the sweeper, who looks again under its lock, would not sweep
(`SweepSpares`). `RunInv` says where the close
of each living child is (on the stack, under way, or done) and how much of the budget
its waits can have used, and why the run raises what it raises.

`IInv` of `ProvidersProofs` is two invariants, because the adapters have little in common
but the queue to the caller. *Realtime* sends commands, and a turn is answered once because
a manual commit and the response it asks for are each in one place only: in the normal
lane, on the wire, acknowledged, or back as an event, and the phase of the encoder says
which (`PhaseInv`, `CommitInv`). The one exception is the server's own commit that is taken
for ours (`"mistaken"`). A refusal on the wire is one of a command that is still pending
(`RefusalsInv`), so that the receiver knows it and a session raises for no refusal of its
own making; `CauseInv` says of everything that failed or was closed why. *Gemini* sends no
identifiers: turns are counted by the messages that complete them, and those counted and
those under way are the responses of the server, but for the one in progress and the turn
that is open (`TurnInv`). After the message that says a turn is interrupted comes no audio
of it (`SilentInv`), and what the adapter was told to drop it knows as the open turn
(`DroppedInv`). For the refinement, the events of a response keep their order from the
server to the caller, and what is still on its way can still be yielded (`RealtimeFlow`,
`GeminiFlow`): its beginning if that was not yielded, the rest if the end was not.

`StabilizerInv` is three statements. What the adapter compares (`window`) are the last
partials of the utterance (`recent`), so what it commits, every one of them holds; that the
longest common prefix is one, and within all of them, is `CommonLength`'s own lemma, since
it is the greatest of a bounded set of lengths. The segmenter was given exactly the
committed words (`history`, `Fed`), and what it closed cuts them without gap or overlap, one
piece after the other, up to where the open one begins (`Cut`, `Segmented`); each piece
closes where a segment has to and no earlier. The final flush takes what is open, and so
the finished utterance was delivered to its last word (`FinishedInv`).

The provers cannot instantiate an induction principle. Where a statement is about what a
loop or a recursive function computes (`FeedTokens`, the segmentation of a hypothesis, the
concatenation of what was delivered, the newest response), the proof takes a least
counterexample instead: were there a number for which the statement fails, there would be a
least one (the library's well-foundedness of the naturals), and the step from its
predecessor refutes it.

The proofs live in modules of their own, one lemma per action, and the temporal step of
each theorem combines initial case, step and consequence.

## 5. What is only model-checked, and what is left out

Every invariant, every action property and both refinements that the passing runs check
are proved. Only checked, and out of the provers' reach, is liveness under fairness:
`StoppedCallReturns`, `Termination`, `SynthesizedIsHeard`, `CallsEnd`, `SessionEnds`,
`EndIsDelivered`, `StreamEnds`, `RequestIsAnswered`, `CloseReaps`, the rest of
`StreamEndsForCause`, and `RunEnds`. They need `ENABLED` of each fair action, which none of
the provers expands. The counterexamples of section 6 are TLC's too.

Abstractions of the modelled components:

* The wait for the lock of the sink's condition is not a suspension point: no holder
  suspends while holding it. A cancellation that hits a task in that wait is left out.
* A handle that completed leaves the ledger in the step that completes it.
* `_synthesize_segment` cancels and awaits its interrupt waiter in one step with the end
  of the work.
* Metric events, first-audio watchers, receipts (presented samples), `aclose()` of the
  sink and the token texts are left out; `run()` without a detector is the pipeline with
  `MaxOnsets = 0`.
* `Pipeline` and `S2S` are driven by the sink of the contract. What the speaker's ring
  does differently is in `SpeakerRing`; for `S2S` the constant `RingSink` makes `stop()`
  empty the whole ring (section 6).
* `SpeakerRing` has one caller with one `schedule()` at a time, as both pipelines have,
  and generations are stopped once each. Both close it only when that caller is gone, which
  is what `Close` models; the loop that writes never looks at `_closed` (`audio_io.py:799`),
  and a `schedule()` across or after an `aclose()` is left out.
* `Capture`: timestamps, device status notes and the size of a block are data. An onset is
  judged by the frames the detector received: a drop may join two blips, which the code
  logs and accepts (`audio_io.py:121`).
* `WhisperStt`: the resampler of the input is one optional tail at the end of the source.
* `ModelWorker`: a message is atomic; a child killed in the middle of writing one is a
  crash before or after it. `start()` is not cancelled here (it is in `Startup`).
* `Providers`: the speech events, the dating of onsets, the sent-audio ledger, the session
  payload, and a consumer that closes the stream early. `MayInterrupt` is what `s2s.py`
  asks for: a response it has seen begin, once.
* `Startup`: a dual run resolves one voice after another in a preflight each; the model
  has one with all the artifacts. A second Ctrl-C, which Python's default handler
  takes once the session is over, is left out, and so is an end of the pipeline before
  a live microphone's that nobody follows with a stop (the task group then waits).

Not modelled: codec, metrics, CLI, configuration, bench, clock and the test doubles, which
hold no concurrent state; `ElevenLabsTTS`, one HTTP stream per text; `NllbMT`, one request
per segment to the worker of `ModelWorker` with the cancellation handling of
`PiperTTS._step`; option and capability checks that run before anything starts.

## 6. Disagreements found while modelling

One is a run of its own:

| run | code | said by |
|---|---|---|
| `cancelled_start` | a cancellation while a model loads leaves the child process: `start()` closes its worker on `TimeoutError` and `WorkerError` only (`model_worker.py:224`), and the close goes on the exit stack after it (`runtime.py:410-420`) | `docs/plans/2026-07-16-adapters-plan.md:59`: leaves no child processes |

The others are stated in the modules as what the repository says. TLC refutes each of them
under a configuration that differs from the run's as shown; all of them are hazards in
`PROJECT.json`.

| property | configuration | code | said by |
|---|---|---|---|
| `S2S!TrailingCutIsTold` | `S2S.cfg`, one response of one chunk, one onset, no faults | `RealtimeS2S.interrupt()` raises once `_pump` is `None` (`realtime.py:314`), which `_stream` sets as the stream ends (`realtime.py:465`): a barge-in into the last audio of a session, or one under way as the stream ends, stops the sink and then fails the session (`s2s.py:445`). Gemini's does not raise there (`gemini.py:287`) | `s2s.py:271`: a barge-in in that window must cancel and truncate the finished response; `s2s.py:417`: keep the session alive |
| `Pipeline!CancelledSessionEnds` | `PipelineLiveness.cfg`, one turn of two tokens, one chunk, no onset, `Faults <- OnlyCancel` | `pipeline.py:301` puts the sentinel with a blocking put in a `finally`; cancelled while `seg_queue` is full, the stage waits for ever | `docs/live-adapters.md:162`: Ctrl-C stops the session cleanly |
| `Pipeline!PlaybackFailureSurfaces` | the same, two chunks, `Faults <- OnlyPlayback` | `play_task` is awaited only after the supervisor's loop (`pipeline.py:385`); if it dies while the queues are full the loop never ends | `audio_io.py:581`: fail fast |
| `Pipeline!DiscardsOnlyInterrupted` | `PipelineSafety.cfg` without faults | a barge-in drains segments of later turns too (`pipeline.py:506`) | `pipeline.py:14`, `:354`: the current utterance only |
| `Pipeline!IgnoresOnlyIdleOnsets` | the same | a chunk inside `schedule()` is not counted as active (`pipeline.py:425`) | `pipeline.py:424` |
| `Pipeline!OnlyInterruptedTurnsAreStale` | the same | the roll marks the turn current when it is applied, which may be the next one (`pipeline.py:319`) | `pipeline.py:169` |
| `Pipeline!NeverRetranslated` | the same, `HasTurnIds = FALSE` | without turn ids, a partial after a barge-in starts the turn again (`pipeline.py:335`) | `pipeline.py:19` |
| `Providers!FinalResponseAwaited` | `Providers.cfg` | `response_done` stays set after the first response (`realtime.py:643`): at the end of the source a later turn's response is not awaited | `realtime.py:540`: await the final response |
| `WhisperStt!TurnsEndWithFinal` | `WhisperStt.cfg` | a final that decodes to nothing is not yielded though partials of its turn were (`whisper.py:430`), so the stabilizer never starts afresh; nor is the final of a turn that the resampler's tail ends (`whisper.py:366`) | `backends/__init__.py:36`, `whisper.py:16`: the last hypothesis of an utterance is final |
| `SpeakerRing!OthersStayQueued` | `SpeakerRing.cfg`, `TailLength = 0` | `stop()` of one generation empties the ring of the others' frames (`audio_io.py:834`); their handles never resolve | `types.py:294`: a stop is of one generation |
| `SpeakerRing!StarvedIsZeroFilled` | the same | a `stop()` between the two halves of a callback leaves `read` ahead of `write`; the next callback computes a negative count (`audio_io.py:946`) | the fill with zeros at `audio_io.py:957` |
| `S2S!SessionEnds` | `S2S.cfg`, one onset, no faults, `RingSink = TRUE` | the consequence of the last but one: a session whose later response lost its frames waits for a drain that never comes | `docs/live-adapters.md:162` |

Further places where the code has no answer, found while stating the properties around them:

* The child of a worker dies while nobody waits: the bridge thread ends, and the next
  request waits for ever (`model_worker.py:242`; `orphaned` in `RequestIsAnswered`).
* The server's own commit at the end of the source is taken for the answer to the manual
  one, and a second response is created (`realtime.py:586`; `"mistaken"`); the manual
  commit's create meets a response in progress and the server's refusal is fatal
  (`"collided"`).
* The tail of the input resampler ends a turn at the end of the source: the turn is never
  submitted (`whisper.py:366`; `tailEnds`).
* A change of input rate flushes the old resampler into the ring and cuts what does not
  fit, but adds all of it to the span of the last handle (`audio_io.py:909`; `"cut"`).
* `_presented_abs()` walks a deque that the callback's thread appends to, and can raise
  inside `stop()` (`audio_io.py:983`; `"failed"`).
* A worker's `aclose()` fits its budget only because of the defaults; `shutdown_timeout_ms`
  is configurable and the grace is not.

## 7. What could come next

1. `WhisperStt` composed with the roll of `Stabilizer`: what a turn without a final
   (`TurnsEndWithFinal`) costs the next turn, whose words are compared with a prefix of the
   last one.
2. `Pipeline` and `S2S` over `PlaybackContract` instead of the sink of `PlaybackLedger`: what
   is proved of them would then hold with the speaker by its refinement, wherever nothing of
   `harm` happens.
