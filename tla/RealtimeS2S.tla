---------------------------- MODULE RealtimeS2S -----------------------------
(***************************************************************************)
(* RealtimeS2S of backends/realtime.py: the command pump, the EOF state    *)
(* machine and the mapping of server events.                               *)
(***************************************************************************)
EXTENDS ProviderStream

VARIABLES
  eof,             \* _EofState.state
  committed,       \* _EofState.committed is set
  responseDone,    \* _EofState.response_done is set
  normal, groups,  \* _CommandPump._normal and ._priority
  group,           \* the rest of the group that is being sent
  pump,            \* "running" or "failed"
  pending,         \* _pending_controls
  last,            \* history: the payload sent last
  races            \* history: "mistaken" when the server's own commit was taken
                   \* for the answer to the manual one, "collided" when the
                   \* create met a response in progress

machine == <<eof, committed, responseDone>>
outbound == <<normal, groups, group, pump, pending, last>>
realtimeVars == <<machine, outbound, races>>

Payload(type, r) == [type |-> type, resp |-> r]
Commit == Payload("commit", 0)

RealtimeInit ==
  /\ eof = "empty" /\ committed = FALSE /\ responseDone = FALSE
  /\ normal = <<>> /\ groups = <<>> /\ group = <<>> /\ pump = "running"
  /\ pending = {} /\ last = Payload("update", 0) /\ races = {}

---------------------------------------------------------------------------
(* _CommandPump *)

Room == Len(normal) < QueueMax

Enqueue(payload) ==
  /\ pump = "running" /\ Room
  /\ normal' = Append(normal, payload)

(* Mutant of NextPayload: the choice is made for every payload. *)
NextPayloadEach ==
  IF normal # <<>> /\ group # <<>> THEN [from |-> "normal", payload |-> Head(normal)]
  ELSE IF group # <<>> THEN [from |-> "group", payload |-> Head(group)]
  ELSE IF groups # <<>> THEN [from |-> "groups", payload |-> Head(Head(groups))]
  ELSE [from |-> "normal", payload |-> Head(normal)]

(* A group that was begun goes on; a new group comes before the appends. *)
NextPayload ==
  IF group # <<>> THEN [from |-> "group", payload |-> Head(group)]
  ELSE IF groups # <<>> THEN [from |-> "groups", payload |-> Head(Head(groups))]
  ELSE [from |-> "normal", payload |-> Head(normal)]

PumpHas == group # <<>> \/ groups # <<>> \/ normal # <<>>

PumpAdvances ==
  LET next == NextPayload
  IN  /\ last' = next.payload
      /\ normal' = IF next.from = "normal" THEN Tail(normal) ELSE normal
      /\ groups' = IF next.from = "groups" THEN Tail(groups) ELSE groups
      /\ group' = CASE next.from = "group"  -> Tail(group)
                    [] next.from = "groups" -> Tail(Head(groups))
                    [] OTHER                -> group
      /\ UNCHANGED <<pump, pending>>

(***************************************************************************)
(* A send reaches the server, which acts on it: an append is heard, a      *)
(* cancel ends the response it names or is refused, a commit takes what    *)
(* speech is uncommitted or is refused, a create owes a response.          *)
(***************************************************************************)
PumpSends ==
  /\ stream = "open" /\ pump = "running" /\ PumpHas /\ conn = "open"
  /\ PumpAdvances
  /\ LET payload == NextPayload.payload
         Refused(code) == <<[kind |-> "error", resp |-> payload.resp,
                             on |-> payload, benign |-> code]>>
     IN  \/ /\ payload.type = "append"
            /\ unheard' = unheard + 1
            /\ UNCHANGED <<spoken, ended, owed, active, answered, audio, inbox>>
         \/ /\ payload.type = "cancel"
            /\ active' = IF active = payload.resp THEN 0 ELSE active
            /\ inbox' = inbox \o (IF active = payload.resp
                                    THEN <<Event("done", payload.resp)>> ELSE Refused(TRUE))
            /\ UNCHANGED <<unheard, spoken, ended, owed, answered, audio>>
         \/ /\ payload.type = "truncate"
            /\ UNCHANGED <<provider, inbox>>
         \/ /\ payload.type = "commit"
            /\ ended' = spoken /\ unheard' = 0
            /\ inbox' = inbox \o (IF spoken > ended
                                    THEN <<Event("committed", 0)>> ELSE Refused(TRUE))
            /\ UNCHANGED <<spoken, owed, active, answered, audio>>
         \/ /\ payload.type = "create"
            /\ owed' = IF active = 0 THEN Append(owed, spoken) ELSE owed
            /\ inbox' = inbox \o (IF active = 0 THEN <<>> ELSE Refused(FALSE))
            /\ UNCHANGED <<unheard, spoken, ended, active, answered, audio>>
  /\ races' = IF NextPayload.payload.type = "create" /\ active # 0
                THEN races \cup {"collided"} ELSE races
  /\ UNCHANGED <<conn, broken, tasks, caller, machine>>

(* A send times out, or the connection is no longer there. *)
PumpFails ==
  /\ stream = "open" /\ pump = "running" /\ PumpHas
  /\ pump' = "failed"
  /\ broken' = (broken \/ conn = "open")
  /\ UNCHANGED <<provider, conn, inbox, tasks, caller, machine, normal, groups, group,
                 pending, last, races>>

---------------------------------------------------------------------------
(* The server. *)

ServerStep ==
  /\ \/ SpeechBegins(<<Event("speech", 0)>>)
     \/ SpeechEnds(<<Event("committed", spoken)>>)
     \/ Respond(<<Event("started", Len(answered) + 1)>>)
     \/ /\ active # 0 /\ audio < MaxAudio
        /\ audio' = audio + 1
        /\ ProviderSends(<<Event("audio", active)>>)
        /\ UNCHANGED <<unheard, spoken, ended, owed, active, answered>>
     \/ /\ active # 0
        /\ active' = 0
        /\ ProviderSends(<<Event("done", active)>>)
        /\ UNCHANGED <<unheard, spoken, ended, owed, answered, audio>>
  /\ UNCHANGED <<tasks, caller, realtimeVars>>

---------------------------------------------------------------------------
(* _encode_input() and _finish_input() *)

AppendAudio ==
  /\ stream = "open" /\ encoder = "audio"
  /\ appended < MaxBlocks
  /\ Enqueue(Payload("append", 0))
  /\ appended' = appended + 1
  /\ UNCHANGED <<provider, link, encoder, gaveUp, receiver, outQ, caller, machine,
                 groups, group, pump, pending, last, races>>

(* The source ends: without speech the encoder is done at once. *)
FinishInput ==
  /\ stream = "open" /\ encoder = "audio"
  /\ encoder' = CASE eof = "empty"          -> "done"
                  [] eof = "speech_pending" -> "settle"
                  [] OTHER                  -> "final"
  /\ gaveUp' = (eof = "empty")
  /\ UNCHANGED <<provider, link, appended, receiver, outQ, caller, realtimeVars>>

(* The settle window is over: speech that is still pending is committed. *)
Settled ==
  /\ stream = "open" /\ encoder = "settle"
  /\ IF eof = "speech_pending"
       THEN /\ Enqueue(Commit)
            /\ pending' = pending \cup {Commit}
            /\ eof' = "manual_commit_sent"
            /\ encoder' = "ack"
       ELSE encoder' = "final" /\ UNCHANGED <<normal, pending, eof>>
  /\ UNCHANGED <<provider, link, appended, gaveUp, receiver, outQ, caller, committed,
                 responseDone, groups, group, pump, last, races>>

(* Mutant of NeedsCreate: whatever set the event is an acknowledgement. *)
NeedsCreateAlways == TRUE

(* No automatic response won the race, and the commit was not refused. *)
NeedsCreate == eof = "manual_committed"

(* The acknowledgement, or whatever else set the event. *)
Acknowledged ==
  /\ stream = "open" /\ encoder = "ack" /\ committed
  /\ IF NeedsCreate THEN Enqueue(Payload("create", 0)) ELSE UNCHANGED normal
  /\ encoder' = "final"
  /\ UNCHANGED <<provider, link, appended, gaveUp, receiver, outQ, caller, machine,
                 groups, group, pump, pending, last, races>>

FinalResponse(timeout) ==
  /\ stream = "open" /\ encoder = "final"
  /\ responseDone \/ timeout
  /\ encoder' = "done"
  /\ gaveUp' = (gaveUp \/ ~responseDone)
  /\ UNCHANGED <<provider, link, appended, receiver, outQ, caller, realtimeVars>>

---------------------------------------------------------------------------
(* _map_event(), under the state lock. *)

OnSpeech == eof' = IF eof \in {"empty", "auto_committed"} THEN "speech_pending" ELSE eof

OnCommitted ==
  eof' = CASE eof = "manual_commit_sent" -> "manual_committed"
           [] eof = "speech_pending"     -> "auto_committed"
           [] OTHER                      -> eof

OnCreated == eof' = IF eof = "response_done" THEN eof ELSE "response_started"

(* Mutant of WakesEncoder: only a response or a refusal does. *)
WakesEncoderLate(e) == e.kind = "started" \/ (e.kind = "error" /\ e.on = Commit)

WakesEncoder(e) ==
  \/ e.kind \in {"committed", "started"}
  \/ e.kind = "error" /\ e.on = Commit

(* An error that answers one of our own controls, and only says it was late. *)
Tolerated(e) == e.benign /\ e.on \in pending

RealtimeReceives ==
  /\ ReceiverFree /\ inbox # <<>>
  /\ inbox' = Tail(inbox)
  /\ LET e == Head(inbox)
         fatal == e.kind = "error" /\ ~Tolerated(e)
     IN  /\ \/ e.kind = "speech" /\ OnSpeech
            \/ e.kind = "committed" /\ OnCommitted
            \/ e.kind = "started" /\ OnCreated
            \/ e.kind = "done" /\ eof' = "response_done"
            \/ e.kind \in {"audio", "error"} /\ UNCHANGED eof
         /\ committed' = (committed \/ (~fatal /\ WakesEncoder(e)))
         /\ responseDone' = (responseDone \/ e.kind = "done")
         /\ pending' = IF e.kind = "error" THEN pending \ {e.on} ELSE pending
         /\ receiver' = IF fatal THEN "done" ELSE "reading"
         /\ outQ' = outQ \o (IF fatal THEN <<AfterFailure>>
                               ELSE IF e.kind \in Kinds THEN <<e>> ELSE <<>>)
         /\ races' = IF e.kind = "committed" /\ e.resp # 0 /\ eof = "manual_commit_sent"
                       THEN races \cup {"mistaken"} ELSE races
  /\ UNCHANGED <<provider, conn, broken, encoder, appended, gaveUp, caller, normal, groups,
                 group, pump, last>>

---------------------------------------------------------------------------
(***************************************************************************)
(* interrupt(): a cancel, and a truncation when the response has audio.    *)
(* After the stream has ended there is no pump, and it raises.             *)
(***************************************************************************)
RealtimeInterrupt(r) ==
  /\ MayInterrupt(r)
  /\ stream = "open"
  /\ told' = told \cup {r}
  /\ LET pair == <<Payload("cancel", r)>>
                   \o (IF yielded["audio"][r] > 0 THEN <<Payload("truncate", r)>> ELSE <<>>)
     IN  groups' = Append(groups, pair) /\ pending' = pending \cup ToSet(pair)
  /\ UNCHANGED <<provider, link, tasks, closing, stream, yielded, machine, normal, group,
                 pump, last, races>>
===========================================================================
