--------------------------- MODULE ProviderStream ---------------------------
(***************************************************************************)
(* What the two live adapters, backends/realtime.py and backends/gemini.py,*)
(* have in common: an encoder task sends the source, a receiver task maps  *)
(* what the provider sends and queues it, and _stream() yields it, ends    *)
(* the session when the encoder is done, or raises when a task failed.     *)
(*                                                                         *)
(* The provider is the environment.  Its VAD finds turns of speech in the  *)
(* blocks it received, and it answers the turns it owes one at a time.     *)
(* Of the events of a stream those of the responses are kept: the speech   *)
(* events only make an utterance.                                          *)
(***************************************************************************)
EXTENDS Naturals, FiniteSets, SequencesExt

CONSTANTS
  MaxTurns,   \* bound: turns of speech the provider finds
  MaxAudio,   \* bound: audio messages of a response
  MaxBlocks,  \* bound: blocks of input audio
  QueueMax,   \* queue_maxsize
  MaxInFlight,  \* bound: messages of the provider that are not yet received
  MaxInterrupts \* bound: calls of interrupt()

ASSUME ProviderAssumption ==
  {MaxTurns, MaxAudio, MaxBlocks, MaxInterrupts} \subseteq Nat /\ {QueueMax, MaxInFlight} \subseteq Nat \ {0}

VARIABLES
  unheard,         \* provider: blocks received that its VAD has not looked at
  spoken, ended,   \* provider: turns of speech begun, and over
  owed,            \* provider: the turns it will answer
  active,          \* provider: its response in progress, 0 for none
  answered,        \* provider: the turn each of its responses answers
  audio,           \* provider: audio messages of the response in progress
  conn,            \* "open", "closed" by us, "hungup" or "lost"
  broken,          \* history: the provider or the network failed
  inbox,           \* what the provider sent and is not yet received
  encoder,         \* where _encode_input() is
  appended,        \* blocks of audio it handed over; _audio_sent when not 0
  gaveUp,          \* history: the encoder stopped waiting for an answer
  receiver,        \* _receive(): "reading" or "done"
  outQ,            \* out_q, and after it what the receiver still has to put
  closing,         \* _closing
  stream,          \* the iterator: "open", "returned" or "raised"
  yielded,         \* history: the events yielded, by kind and response
  told             \* history: the responses interrupt() was called for

provider == <<unheard, spoken, ended, owed, active, answered, audio>>
link     == <<conn, broken, inbox>>
tasks    == <<encoder, appended, gaveUp, receiver, outQ>>
caller   == <<closing, stream, yielded, told>>

Responses == 1..(2 * MaxTurns)
Kinds == {"started", "audio", "done"}

Event(kind, r) == [kind |-> kind, resp |-> r]
Failure == Event("failure", 0)
EndOfStream == Event("end", 0)

StreamInit ==
  /\ unheard = 0 /\ spoken = 0 /\ ended = 0
  /\ owed = <<>> /\ active = 0 /\ answered = <<>> /\ audio = 0
  /\ conn = "open" /\ broken = FALSE /\ inbox = <<>>
  /\ encoder = "audio" /\ appended = 0 /\ gaveUp = FALSE
  /\ receiver = "reading" /\ outQ = <<>>
  /\ closing = FALSE /\ stream = "open" /\ yielded = [k \in Kinds |-> [r \in Responses |-> 0]]
  /\ told = {}

---------------------------------------------------------------------------
(* The provider. *)

ProviderSends(messages) ==
  /\ conn = "open" /\ Len(inbox) < MaxInFlight
  /\ inbox' = inbox \o messages
  /\ UNCHANGED <<conn, broken>>

SpeechBegins(messages) ==
  /\ spoken = ended /\ spoken < MaxTurns /\ unheard > 0
  /\ spoken' = spoken + 1 /\ unheard' = unheard - 1
  /\ ProviderSends(messages)
  /\ UNCHANGED <<ended, owed, active, answered, audio>>

SpeechEnds(messages) ==
  /\ spoken > ended
  /\ ended' = spoken
  /\ owed' = Append(owed, spoken)
  /\ ProviderSends(messages)
  /\ UNCHANGED <<unheard, spoken, active, answered, audio>>

Respond(messages) ==
  /\ active = 0 /\ owed # <<>>
  /\ answered' = Append(answered, Head(owed))
  /\ active' = Len(answered')
  /\ owed' = Tail(owed) /\ audio' = 0
  /\ ProviderSends(messages)
  /\ UNCHANGED <<unheard, spoken, ended>>

(* The provider hangs up, or the connection is lost. *)
ConnectionBreaks(how) ==
  /\ conn = "open"
  /\ conn' = how
  /\ broken' = TRUE
  /\ UNCHANGED <<inbox, provider, tasks, caller>>

---------------------------------------------------------------------------
(* _encode_input(): the source raises, or changes its sample rate. *)
EncoderFails ==
  /\ stream = "open" /\ encoder = "audio"
  /\ encoder' = "failed"
  /\ broken' = TRUE
  /\ UNCHANGED <<provider, conn, inbox, gaveUp, appended, receiver, outQ, caller>>

---------------------------------------------------------------------------
(* _receive() *)

(* What a failure of the receiver is mapped to. *)
AfterFailure == IF closing THEN EndOfStream ELSE Failure

(* The receiver has put all it mapped. *)
ReceiverFree == receiver = "reading" /\ Len(outQ) <= QueueMax

(* The connection is over.  What a closed one still holds may be lost. *)
ReceiverEnds ==
  /\ ReceiverFree
  /\ conn # "open" /\ (inbox = <<>> \/ conn = "closed")
  /\ receiver' = "done"
  /\ outQ' = Append(outQ, IF conn = "lost" THEN AfterFailure ELSE EndOfStream)
  /\ UNCHANGED <<provider, link, encoder, appended, gaveUp, caller>>

---------------------------------------------------------------------------
(* _stream() *)

(* The finally block: the tasks are cancelled and the connection closed. *)
Leave(how) ==
  /\ stream' = how
  /\ closing' = TRUE
  /\ conn' = IF conn = "open" THEN "closed" ELSE conn
  /\ receiver' = "done" /\ inbox' = <<>> /\ outQ' = <<>>
  /\ UNCHANGED <<broken, told, provider, encoder, appended, gaveUp>>

Take ==
  /\ stream = "open" /\ outQ # <<>>
  /\ LET item == Head(outQ)
     IN  \/ /\ item.kind \in Kinds
            /\ outQ' = Tail(outQ)
            /\ yielded' = [yielded EXCEPT ![item.kind][item.resp] = @ + 1]
            /\ UNCHANGED <<provider, link, encoder, appended, gaveUp, receiver, closing,
                           stream, told>>
         \/ item.kind = "end" /\ Leave("returned") /\ UNCHANGED yielded
         \/ item.kind = "failure" /\ Leave("raised") /\ UNCHANGED yielded

(* A task of the session failed. *)
TaskFailed(failed) ==
  /\ stream = "open" /\ failed
  /\ Leave("raised")
  /\ UNCHANGED yielded

(* The encoder is done: the connection is closed, so the receiver ends. *)
CloseAtEnd ==
  /\ stream = "open" /\ encoder = "done" /\ ~closing
  /\ closing' = TRUE
  /\ conn' = IF conn = "open" THEN "closed" ELSE conn
  /\ UNCHANGED <<provider, broken, inbox, tasks, stream, yielded, told>>

---------------------------------------------------------------------------
(* A response is interrupted at most once, while it may still be heard: in *)
(* the session, or after it while the last audio plays.                    *)
MayInterrupt(r) ==
  /\ stream \in {"open", "returned"}
  /\ yielded["started"][r] > 0 /\ r \notin told /\ Cardinality(told) < MaxInterrupts
===========================================================================
