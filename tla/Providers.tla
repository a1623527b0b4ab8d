----------------------------- MODULE Providers ------------------------------
(***************************************************************************)
(* The two live adapters against one contract: a session of either, chosen *)
(* at the start, and what both must do for S2SPipeline.                    *)
(***************************************************************************)
EXTENDS RealtimeS2S, GeminiS2S

CONSTANT Backends  \* of "realtime" and "gemini"

ASSUME BackendsAssumption == Backends \subseteq {"realtime", "gemini"}

VARIABLE backend

vars == <<provider, link, tasks, caller, realtimeVars, geminiVars, backend>>

Init ==
  /\ StreamInit /\ RealtimeInit /\ GeminiInit
  /\ backend \in Backends

(* What the loop runs, and the environment, of each part. *)
StreamTasks ==
  \/ Take \/ ReceiverEnds \/ CloseAtEnd
  \/ TaskFailed(encoder = "failed" \/ pump = "failed")

StreamStep ==
  /\ \/ StreamTasks \/ EncoderFails
     \/ \E how \in {"hungup", "lost"} : ConnectionBreaks(how)
  /\ UNCHANGED <<realtimeVars, geminiVars>>

RealtimeTasks ==
  \/ RealtimeReceives \/ PumpSends \/ PumpFails \/ Settled \/ Acknowledged
  \/ \E timeout \in BOOLEAN : FinalResponse(timeout)

RealtimeStep ==
  /\ backend = "realtime"
  /\ \/ RealtimeTasks \/ ServerStep \/ AppendAudio \/ FinishInput
     \/ \E r \in Responses : RealtimeInterrupt(r)
  /\ UNCHANGED geminiVars

GeminiTasks ==
  \/ GeminiReceives
  \/ \E elapsed \in BOOLEAN : TurnSettled(elapsed)
  \/ \E timeout \in BOOLEAN : FinalTurn(timeout)

GeminiStep ==
  /\ backend = "gemini"
  /\ \/ GeminiTasks \/ GeminiServerStep \/ SendAudio \/ SendFails \/ EndInput
     \/ \E r \in Responses : GeminiInterrupt(r)
  /\ UNCHANGED realtimeVars

Next == (StreamStep \/ RealtimeStep \/ GeminiStep) /\ UNCHANGED backend

Spec == Init /\ [][Next]_vars

(***************************************************************************)
(* Fairness: the loop runs the tasks and the caller, sends are bounded,    *)
(* and the settle and response timeouts expire.                            *)
(***************************************************************************)
Tasks ==
  \/ StreamTasks
  \/ backend = "realtime" /\ RealtimeTasks
  \/ backend = "gemini" /\ GeminiTasks

FairSpec == Spec /\ WF_vars(Next /\ Tasks)

---------------------------------------------------------------------------
TypeOK ==
  /\ encoder \in {"audio", "settle", "ack", "final", "done", "failed"}
  /\ receiver \in {"reading", "done"} /\ pump \in {"running", "failed"}
  /\ stream \in {"open", "returned", "raised"}
  /\ Len(normal) <= QueueMax
  /\ ended <= spoken /\ spoken <= ended + 1 /\ spoken <= MaxTurns
  /\ turn \in {0, turnCount} /\ turnCount <= Len(answered)
  /\ \A r \in told : yielded["started"][r] > 0

(***************************************************************************)
(* Realtime: the one writer sends a truncation directly after the cancel   *)
(* it belongs to, so that no newer audio comes between them.               *)
(***************************************************************************)
ControlsStayTogether ==
  [][last'.type = "truncate" /\ last' # last => last = Payload("cancel", last'.resp)]_vars

(***************************************************************************)
(* Realtime: no turn is answered twice, however the server's own commit,   *)
(* its automatic response and the manual commit at the end race; unless    *)
(* the server's own commit is taken for the answer to the manual one.      *)
(***************************************************************************)
AnsweredOnce == "mistaken" \notin races => IsInjective(answered)

(***************************************************************************)
(* A session raises only if its provider, its connection or its source     *)
(* failed: a late cancellation or an empty commit is not an error.  Two    *)
(* races are: a create that meets a response in progress, and a payload    *)
(* the pump still had when the end of the source closed the connection.    *)
(***************************************************************************)
RaisesForCause ==
  stream = "raised" => broken \/ races # {} \/ (encoder = "done" /\ pump = "failed")

(***************************************************************************)
(* When the source held one turn of speech, and the encoder did not give   *)
(* up waiting for it, the session is closed only when it was answered.     *)
(***************************************************************************)
OneTurnIsAwaited ==
  encoder = "done" /\ ~gaveUp /\ ~broken /\ races = {} /\ spoken = 1 /\ told = {}
    => ended = 1 /\ owed = <<>> /\ active = 0 /\ answered = <<1>>

(***************************************************************************)
(* The comment of _finish_input(), "Await the final response (or the       *)
(* bounded timeout) before closing": when the encoder is done waiting, no  *)
(* response that the caller was told of is still being generated.          *)
(***************************************************************************)
FinalResponseAwaited ==
  [][encoder # "done" /\ encoder' = "done" /\ ~gaveUp' /\ races = {}
       => active = 0 \/ yielded["started"][active] = 0]_vars

AudioWaiting(r) == Cardinality({i \in DOMAIN outQ : outQ[i] = Event("audio", r)})

(***************************************************************************)
(* Gemini: once a response is interrupted no more of its audio is mapped,  *)
(* although the provider goes on generating it and starts others.          *)
(***************************************************************************)
InterruptedIsDropped ==
  [][backend = "gemini" => \A r \in told : AudioWaiting(r)' <= AudioWaiting(r)]_vars

(* The contract: a stream of either adapter is a stream of responses.      *)
Contract == INSTANCE ResponseEvents WITH
  MaxResponses <- 2 * MaxTurns,
  started <- yielded["started"],
  audio <- yielded["audio"],
  done <- yielded["done"],
  over <- stream # "open"

ImplementsResponseEvents == Contract!Spec

(***************************************************************************)
(* When the source has ended the stream ends, also when the manual commit  *)
(* is refused, a response never ends, or the provider hangs up; the server *)
(* is assumed to answer a commit that reached it.                          *)
(***************************************************************************)
StreamEnds == encoder # "audio" ~> stream # "open"

(***************************************************************************)
(* What is said is answered: once, and before the session is closed if it  *)
(* was the only turn (realtime.py _finish_input, gemini.py                 *)
(* _wait_or_settle).                                                       *)
(***************************************************************************)
TurnsAreAnswered ==
  /\ TypeOK
  /\ AnsweredOnce
  /\ OneTurnIsAwaited

(***************************************************************************)
(* An interruption reaches the provider whole, and no more of that         *)
(* response comes back (realtime.py run, gemini.py _map_message).          *)
(***************************************************************************)
InterruptsAreClean == ControlsStayTogether /\ InterruptedIsDropped

(***************************************************************************)
(* The stream ends, and with an error only for a cause (realtime.py        *)
(* _stream, gemini.py _stream).                                            *)
(***************************************************************************)
StreamEndsForCause == []RaisesForCause /\ StreamEnds
===========================================================================
