----------------------------- MODULE GeminiS2S ------------------------------
(***************************************************************************)
(* GeminiS2S of backends/gemini.py: turns are minted from the messages of  *)
(* a provider that names none, and a barge-in only drops the rest of a     *)
(* response on this side.  How turns are dated is left out.                *)
(***************************************************************************)
EXTENDS ProviderStream

VARIABLES
  said,             \* provider: "nothing", "some", "generated" or "interrupted"
  turn,             \* _turn, 0 for None
  turnCount,        \* _turn_count
  doneEmitted,      \* _Turn.done_emitted
  turnStarted, turnFinished,  \* _turn_started, _turn_finished
  abandoned         \* _abandoned

turns == <<turn, turnCount, doneEmitted, turnStarted, turnFinished>>
geminiVars == <<said, turns, abandoned>>

GeminiInit ==
  /\ said = "nothing"
  /\ turn = 0 /\ turnCount = 0 /\ doneEmitted = FALSE
  /\ turnStarted = FALSE /\ turnFinished = FALSE
  /\ abandoned = {}

---------------------------------------------------------------------------
(***************************************************************************)
(* The provider.  A message of a response carries audio or not, may say    *)
(* that nothing more is generated or that the response was interrupted,    *)
(* and may complete the turn; the first may be a transcription alone.      *)
(***************************************************************************)
Message == [audio : BOOLEAN, generated : BOOLEAN, interrupted : BOOLEAN,
            complete : BOOLEAN]

Talking == said \in {"nothing", "some"}

Says(m) ==
  /\ active # 0
  /\ m.audio => audio < MaxAudio /\ Talking
  /\ m.generated => Talking
  /\ m.interrupted => said # "interrupted" /\ ~m.generated
  /\ m.audio \/ m.generated \/ m.interrupted \/ m.complete \/ said = "nothing"
  /\ audio' = IF m.audio THEN audio + 1 ELSE audio
  /\ active' = IF m.complete THEN 0 ELSE active
  /\ said' = CASE m.complete                      -> "nothing"
               [] m.interrupted /\ ~m.complete     -> "interrupted"
               [] m.generated /\ ~m.complete       -> "generated"
               [] OTHER -> IF Talking THEN "some" ELSE said
  /\ ProviderSends(<<m>>)
  /\ UNCHANGED <<unheard, spoken, ended, owed, answered>>

GeminiServerStep ==
  /\ \/ (SpeechBegins(<<>>) \/ SpeechEnds(<<>>) \/ Respond(<<>>)) /\ UNCHANGED said
     \/ \E m \in Message : Says(m)
  /\ UNCHANGED <<tasks, caller, turns, abandoned>>

---------------------------------------------------------------------------
(* _encode_input() and _finish_input() *)

SendAudio ==
  /\ stream = "open" /\ encoder = "audio" /\ conn = "open" /\ appended < MaxBlocks
  /\ appended' = appended + 1 /\ unheard' = unheard + 1
  /\ UNCHANGED <<spoken, ended, owed, active, answered, audio, link, encoder, gaveUp,
                 receiver, outQ, caller, said, turns, abandoned>>

(* A send, of audio or of the end of the stream, fails or times out. *)
SendFails ==
  /\ stream = "open" /\ encoder = "audio"
  /\ encoder' = "failed"
  /\ broken' = TRUE
  /\ UNCHANGED <<provider, conn, inbox, appended, gaveUp, receiver, outQ, caller,
                 geminiVars>>

EndInput ==
  /\ stream = "open" /\ encoder = "audio" /\ conn = "open"
  /\ encoder' = CASE appended = 0 -> "done"
                  [] appended > 0 /\ turn = 0 -> "settle"
                  [] OTHER -> "final"
  /\ gaveUp' = (appended = 0)
  /\ UNCHANGED <<provider, link, appended, receiver, outQ, caller, said, turns, abandoned>>

(* A turn started in the settle window, or the window is over. *)
TurnSettled(elapsed) ==
  /\ stream = "open" /\ encoder = "settle"
  /\ turnStarted \/ elapsed
  /\ encoder' = IF turn = 0 THEN "done" ELSE "final"
  /\ gaveUp' = (gaveUp \/ (turn = 0 /\ ~turnStarted))
  /\ UNCHANGED <<provider, link, appended, receiver, outQ, caller, geminiVars>>

FinalTurn(timeout) ==
  /\ stream = "open" /\ encoder = "final"
  /\ turnFinished \/ timeout
  /\ encoder' = "done"
  /\ gaveUp' = (gaveUp \/ ~turnFinished)
  /\ UNCHANGED <<provider, link, appended, receiver, outQ, caller, geminiVars>>

---------------------------------------------------------------------------
(* _map_message() *)

(* Mutant of Opening: an open turn is announced again. *)
OpeningAlways == <<Event("started", IF turn = 0 THEN turnCount + 1 ELSE turn)>>

(* _open_turn() *)
Opening == IF turn = 0 THEN <<Event("started", turnCount + 1)>> ELSE <<>>

(* _turn_done_event(): the first of the two ends states the status. *)
DoneEvent(t, m) ==
  IF (turn # 0 /\ doneEmitted) \/ (~m.interrupted /\ ~m.complete) THEN <<>>
  ELSE <<Event("done", t)>>

(* _close_turn(): only turn_complete closes a turn. *)
Completes(m) == m.complete

Dropped(t) == t \in abandoned

GeminiReceives ==
  /\ ReceiverFree /\ inbox # <<>>
  /\ inbox' = Tail(inbox)
  /\ LET m == Head(inbox)
         t == IF turn = 0 THEN turnCount + 1 ELSE turn
         done == DoneEvent(t, m)
         closes == Completes(m)
     IN  /\ outQ' = outQ \o Opening \o (IF m.audio /\ ~Dropped(t) THEN <<Event("audio", t)>> ELSE <<>>) \o done
         /\ turn' = IF closes THEN 0 ELSE t
         /\ turnCount' = IF turn = 0 THEN t ELSE turnCount
         /\ doneEmitted' = (~closes /\ (done # <<>> \/ (turn # 0 /\ doneEmitted)))
         /\ turnStarted' = ~closes
         /\ turnFinished' = closes
         /\ abandoned' = IF closes THEN abandoned \ {t} ELSE abandoned
  /\ UNCHANGED <<provider, conn, broken, encoder, appended, gaveUp, receiver, caller, said>>

---------------------------------------------------------------------------
(* interrupt() *)
GeminiInterrupt(r) ==
  /\ MayInterrupt(r)
  /\ told' = told \cup {r}
  /\ abandoned' = abandoned \cup {r}
  /\ UNCHANGED <<provider, link, tasks, closing, stream, yielded, said, turns>>
===========================================================================
