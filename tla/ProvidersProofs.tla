-------------------------- MODULE ProvidersProofs --------------------------
(***************************************************************************)
(* What a session of either live adapter guarantees, for any number of     *)
(* turns, any audio, any queue size and any faults: a turn of speech is    *)
(* answered once, a session raises only for a cause, a cancellation is     *)
(* followed by its truncation at once, nothing of an interrupted response  *)
(* is mapped any more, and what is yielded is what ResponseEvents promises *)
(* to s2s.py.                                                              *)
(*                                                                         *)
(* None of them is inductive.  For Realtime a manual commit and a response *)
(* it asks for are each in one place only, on their way from the normal    *)
(* lane to the server and back, and the phase of the encoder says which    *)
(* (PhaseInv, CommitInv); a refusal on the wire is one of a command that   *)
(* is still pending (RefusalsInv).  For Gemini, which has no identifiers   *)
(* on the wire, the turns are counted by the messages that complete them:  *)
(* those counted and those under way are the responses of the server       *)
(* (TurnInv).  For both, the events of a response keep their order on the  *)
(* way to the caller, and what is under way can still be yielded           *)
(* (RealtimeFlow, GeminiFlow).                                             *)
(***************************************************************************)
EXTENDS Providers, SequenceTheorems, FiniteSetTheorems, TLAPS

(* What the adapter sends, what its events are, and what the server says.  *)
Payloads == [type : {"append", "cancel", "truncate", "commit", "create", "update"}, resp : Nat]
Item    == [kind : Kinds \cup {"failure", "end"}, resp : Nat]
Refusal == [kind : {"error"}, resp : Nat, on : Payloads, benign : BOOLEAN]
Wire    == [kind : Kinds \cup {"speech", "committed"}, resp : Nat] \cup Refusal
Create  == Payload("create", 0)
AppendPayload == Payload("append", 0)

(* The types of what both adapters have, and of what each has alone.       *)
StreamTypes ==
  /\ unheard \in Nat /\ spoken \in Nat /\ ended \in Nat /\ active \in Nat /\ audio \in Nat
  /\ appended \in Nat /\ owed \in Seq(Nat) /\ answered \in Seq(Nat)
  /\ conn \in {"open", "closed", "hungup", "lost"}
  /\ broken \in BOOLEAN /\ gaveUp \in BOOLEAN /\ closing \in BOOLEAN
  /\ encoder \in {"audio", "settle", "ack", "final", "done", "failed"}
  /\ receiver \in {"reading", "done"} /\ stream \in {"open", "returned", "raised"}
  /\ outQ \in Seq(Item)
  /\ yielded \in [Kinds -> [Responses -> Nat]] /\ told \subseteq Responses

RealtimeTypes ==
  /\ committed \in BOOLEAN /\ responseDone \in BOOLEAN /\ pump \in {"running", "failed"}
  /\ eof \in {"empty", "speech_pending", "manual_commit_sent", "manual_committed",
              "auto_committed", "response_started", "response_done"}
  /\ normal \in Seq(Payloads) /\ Len(normal) <= QueueMax
  /\ groups \in Seq(Seq(Payloads)) /\ group \in Seq(Payloads) /\ last \in Payloads

GeminiTypes ==
  /\ turn \in Nat /\ turnCount \in Nat
  /\ doneEmitted \in BOOLEAN /\ turnStarted \in BOOLEAN /\ turnFinished \in BOOLEAN
  /\ said \in {"nothing", "some", "generated", "interrupted"}

InboxTypes ==
  /\ backend = "realtime" => inbox \in Seq(Wire)
  /\ backend = "gemini" => inbox \in Seq(Message)

Types == StreamTypes /\ RealtimeTypes /\ GeminiTypes /\ InboxTypes

(* What a queue holds.                                                     *)
Elems(q) == {q[i] : i \in 1..Len(q)}

(* Turns: those answered and those to be answered, each once.             *)
Due == answered \o owed

TurnsInv ==
  /\ ended <= spoken /\ spoken <= ended + 1 /\ spoken <= MaxTurns
  /\ active \in {0, Len(answered)}
  /\ "mistaken" \notin races => IsInjective(Due)
  /\ \A t \in Elems(Due) : 1 <= t /\ t <= ended
  /\ Len(Due) <= ended + 1
  /\ Len(Due) = ended + 1 =>
       backend = "realtime" /\ encoder \in {"final", "done"} /\ Create \notin Elems(normal) /\ ended >= 1

(* A response has ended.                                                   *)
Completed == Len(answered) >= 1 /\ (active # 0 => Len(answered) >= 2)

(* A response is being asked for: the commit is acknowledged, or its       *)
(* acknowledgement is on its way.                                          *)
CreateDue ==
  \/ Event("committed", 0) \in Elems(inbox)
  \/ encoder = "ack" /\ eof = "manual_committed"
  \/ Create \in Elems(normal)

(* The normal lane is audio, then at most one commit, then at most one     *)
(* create.                                                                 *)
NormalInv ==
  /\ Elems(normal) \subseteq {AppendPayload, Commit, Create}
  /\ \A i, j \in 1..Len(normal) :
       i < j => normal[i] = AppendPayload \/ (normal[i] = Commit /\ normal[j] = Create)

(* The whole source has been sent and heard.                               *)
AudioOver == unheard = 0 /\ ended = spoken /\ AppendPayload \notin Elems(normal)

(* What each phase of the encoder excludes, and that whoever asks for a    *)
(* response has sent all of the source and ended a turn with it.           *)
PhaseInv ==
  /\ encoder \in {"audio", "settle", "failed"} =>
       /\ Commit \notin Elems(normal) /\ ~CreateDue
       /\ eof \notin {"manual_commit_sent", "manual_committed"}
  /\ Create \in Elems(normal) => encoder \in {"final", "done"} /\ ended >= 1
  /\ (encoder = "ack" \/ Create \in Elems(normal)) /\ Commit \notin Elems(normal) => AudioOver
  /\ Event("committed", 0) \in Elems(inbox) => AudioOver /\ Commit \notin Elems(normal)
  /\ \A e \in Elems(inbox) : e.kind = "committed" => ended >= 1
  /\ eof \in {"auto_committed", "manual_committed"} => ended >= 1

(* At most one acknowledgement of a manual commit is under way.            *)
Single(q) ==
  \A i, j \in 1..Len(q) : q[i] = Event("committed", 0) /\ q[j] = Event("committed", 0) => i = j

(* One commit is in one place only, and the turn it ends has no response   *)
(* yet, unless the server's own commit was mistaken for its                *)
(* acknowledgement.                                                        *)
CommitInv ==
  /\ Single(inbox)
  /\ "mistaken" \notin races =>
       /\ \/ Create \in Elems(normal)
          \/ encoder = "ack" /\ eof = "manual_committed"
          => Commit \notin Elems(normal) /\ Event("committed", 0) \notin Elems(inbox)
       /\ CreateDue => spoken \notin Elems(Due)

(* response_done, set or about to be, means a response that ended.         *)
DoneInv ==
  /\ responseDone \/ (\E i \in 1..Len(inbox) : inbox[i].kind = "done") => Completed

(* Realtime: the controls of an interrupt.                                 *)
Cancel(r) == Payload("cancel", r)
Truncate(r) == Payload("truncate", r)

(* A control group is a cancel, followed by its truncation or alone; what  *)
(* is left of a group is the truncation of the cancel just sent; and no    *)
(* response is cancelled by two groups.                                    *)
ControlsInv ==
  /\ group # <<>> => group = <<Truncate(last.resp)>> /\ last.type = "cancel"
  /\ \A i \in 1..Len(groups) :
       \E r \in told : /\ groups[i] \in {<<Cancel(r)>>, <<Cancel(r), Truncate(r)>>}
                       /\ Cancel(r) \in pending
  /\ \A i, j \in 1..Len(groups) : groups[i][1] = groups[j][1] => i = j

(* A refusal that says one of our controls came late, or the create did.   *)
Stands(e) ==
  IF e.benign
    THEN /\ e.on \in pending
         /\ \/ e.on = Commit /\ encoder \notin {"audio", "settle", "failed"}
            \/ \E r \in told : e.on = Cancel(r)
         /\ e.on \notin Elems(normal)
         /\ \A j \in 1..Len(groups) : groups[j][1] # e.on
    ELSE races # {} /\ e.on = Create

(* No two refusals under way are of the same command.                      *)
Distinct(q) ==
  \A i, j \in 1..Len(q) :
    i # j /\ q[i].kind = "error" /\ q[j].kind = "error" /\ q[i].benign /\ q[j].benign
      => q[i].on # q[j].on

(* Every refusal under way is one of a command of ours that is still       *)
(* pending, so that the receiver finds it, or has a cause (Stands).        *)
RefusalsInv ==
  /\ Commit \in Elems(normal) => Commit \in pending
  /\ \A e \in Elems(inbox) : e.kind = "error" => Stands(e)
  /\ Distinct(inbox)

(* Whatever failed, broke or was closed has its cause: a fault of the      *)
(* provider or of the source, one of the two races, or the end.            *)
CauseInv ==
  /\ encoder = "failed" \/ conn \in {"hungup", "lost"} => broken
  /\ conn = "closed" /\ stream = "open" => encoder = "done"
  /\ closing /\ stream = "open" => encoder = "done"
  /\ pump = "failed" => broken \/ encoder = "done"
  /\ (\E e \in Elems(outQ) : e.kind = "failure") => broken \/ races # {}
  /\ RaisesForCause

(* A stream that is over reads nothing any more; what was interrupted had  *)
(* begun.                                                                  *)
OverInv ==
  /\ stream # "open" => receiver = "done" /\ conn # "open"
  /\ \A r \in told : yielded["started"][r] > 0

(* Two events of one response come in the order of the protocol.           *)
Before(a, b) ==
  a.kind \in Kinds /\ b.kind \in Kinds /\ a.resp = b.resp
    => \/ a.kind = "started" /\ b.kind # "started"
       \/ a.kind = "audio" /\ b.kind # "started"
InOrder(q) == \A i, j \in 1..Len(q) : i < j => Before(q[i], q[j])
AllBefore(S, T) == \A a \in S, b \in T : Before(a, b)

(* With what is still under way (S), a response has been announced, or has *)
(* not ended; nothing of it was yielded yet.                               *)
Announced(r, S) == yielded["started"][r] = 1 \/ Event("started", r) \in S
Unfinished(r, S) == yielded["done"][r] = 0 /\ Event("done", r) \notin S
Fresh(r) == yielded["started"][r] = 0 /\ yielded["done"][r] = 0

(* What is under way can still be yielded: a response no later than top,   *)
(* its beginning if it was not yielded, and the rest if its end was not.   *)
Fits(S, top) ==
  \A e \in S : e.kind \in Kinds =>
    /\ 1 <= e.resp /\ e.resp <= top
    /\ IF e.kind = "started" THEN yielded["started"][e.resp] = 0
       ELSE yielded["done"][e.resp] = 0 /\ Announced(e.resp, S)

(* Realtime: on the way from the server through the receiver to the caller *)
(* the events of a response keep their order, and the response under way   *)
(* has been announced and has not ended.                                   *)
RealtimeFlow ==
  stream = "open" =>
    LET all == Elems(outQ) \cup Elems(inbox)
    IN  /\ InOrder(outQ) /\ InOrder(inbox) /\ AllBefore(Elems(outQ), Elems(inbox))
        /\ Fits(all, Len(answered))
        /\ active # 0 => Announced(active, all) /\ Unfinished(active, all)
        /\ \A r \in Responses : r > Len(answered) => Fresh(r)

(* The messages that complete a turn; none of them between two places.     *)
Closes(q) == Cardinality({i \in 1..Len(q) : q[i].complete})
Open(q, i, j) == \A k \in i..j : ~q[k].complete

(* Gemini: turns are counted by the messages that complete them. Those     *)
(* counted and those still on their way are the responses of the server,   *)
(* but for the one under way and the turn that is open.                    *)
TurnInv ==
  /\ turn \in {0, turnCount}
  /\ turnStarted <=> turn # 0
  /\ doneEmitted => turn # 0
  /\ turnFinished => Completed
  /\ stream = "open" =>
       /\ turnCount + Closes(inbox) + (IF active = 0 THEN 0 ELSE 1)
            = Len(answered) + (IF turn = 0 THEN 0 ELSE 1)
       /\ inbox # <<>> /\ ~inbox[Len(inbox)].complete => active # 0
       /\ turn # 0 /\ Closes(inbox) = 0 => active # 0
  /\ turnCount <= Len(answered)
  /\ active # 0 => Len(answered) >= 1
  /\ said # "nothing" => active # 0

(* An interrupted turn is one the adapter knows; while it is open it is    *)
(* abandoned, so that what comes of it is dropped.                         *)
DroppedInv ==
  /\ \A r \in Responses : r > turnCount => Fresh(r)
  /\ \A r \in told : r <= turnCount /\ (r = turn => r \in abandoned)

(* Gemini: once the server has said that a turn is interrupted, no audio   *)
(* of it follows before the message that completes it.                     *)
SilentInv ==
  stream = "open" =>
    LET n == Len(inbox)
    IN  /\ \A i, j \in 1..n : i < j /\ Open(inbox, i, j - 1) /\ inbox[i].interrupted => ~inbox[j].audio
        /\ doneEmitted => \A j \in 1..n : Open(inbox, 1, j - 1) => ~inbox[j].audio
        /\ \/ doneEmitted /\ Open(inbox, 1, n)
           \/ \E i \in 1..n : Open(inbox, i, n) /\ inbox[i].interrupted
           => said = "interrupted"

(* What waits for the caller is in order, and the open turn is announced   *)
(* and, unless its end was emitted, unfinished.                            *)
GeminiFlow ==
  stream = "open" =>
    /\ InOrder(outQ) /\ Fits(Elems(outQ), turnCount)
    /\ turn # 0 => Announced(turn, Elems(outQ))
    /\ turn # 0 /\ ~doneEmitted => Unfinished(turn, Elems(outQ))

---------------------------------------------------------------------------
(* Lemmas about sequences. *)

(* Append, Tail and the empty queue, by their elements.                    *)
LEMMA AppendElems ==
  ASSUME NEW S, NEW q \in Seq(S), NEW e \in S
  PROVE  /\ Append(q, e) \in Seq(S) /\ Len(Append(q, e)) = Len(q) + 1
         /\ \A i \in 1..Len(q) : Append(q, e)[i] = q[i]
         /\ Append(q, e)[Len(q) + 1] = e
         /\ Elems(Append(q, e)) = Elems(q) \cup {e}
         /\ q \o <<e>> = Append(q, e)
<1> PICK p : p = Append(q, e)
  OBVIOUS
<1>0. Len(q) \in Nat
  BY LenProperties
<1>1. /\ p \in Seq(S) /\ Len(p) = Len(q) + 1
      /\ \A i \in 1..Len(q) : p[i] = q[i]
      /\ p[Len(q) + 1] = e
  BY AppendProperties
<1>2. Elems(p) = Elems(q) \cup {e}
  <2>1. ASSUME NEW i \in 1..Len(p) PROVE p[i] \in Elems(q) \cup {e}
    <3>1. i \in 1..Len(q) \/ i = Len(q) + 1
      BY <1>0, <1>1
    <3> QED
      BY <1>1, <3>1 DEF Elems
  <2>2. Len(q) + 1 \in 1..Len(p) /\ \A i \in 1..Len(q) : i \in 1..Len(p)
    BY <1>0, <1>1
  <2>3. Elems(q) \cup {e} \subseteq Elems(p)
    BY <1>1, <2>2 DEF Elems
  <2>4. Elems(p) \subseteq Elems(q) \cup {e}
    BY <2>1 DEF Elems
  <2> QED
    BY <2>3, <2>4
<1>3. q \o <<e>> = p
  OBVIOUS
<1> QED
  BY <1>1, <1>2, <1>3

LEMMA TailElems ==
  ASSUME NEW S, NEW q \in Seq(S), q # <<>>
  PROVE  /\ Tail(q) \in Seq(S) /\ Len(Tail(q)) = Len(q) - 1 /\ Len(q) >= 1
         /\ \A i \in 1..Len(Tail(q)) : Tail(q)[i] = q[i + 1] /\ i + 1 \in 1..Len(q)
         /\ Head(q) = q[1] /\ Head(q) \in S /\ Head(q) \in Elems(q)
         /\ Elems(Tail(q)) \subseteq Elems(q)
         /\ Elems(q) = {Head(q)} \cup Elems(Tail(q))
<1> PICK p : p = Tail(q)
  OBVIOUS
<1>0. Len(q) \in Nat /\ Len(q) >= 1
  BY EmptySeq
<1>1. /\ p \in Seq(S) /\ Len(p) = Len(q) - 1 /\ Head(q) \in S
      /\ \A i \in 1..Len(p) : p[i] = q[i + 1]
  BY HeadTailProperties
<1>2. Head(q) = q[1]
  OBVIOUS
<1>3. \A i \in 1..Len(p) : i + 1 \in 1..Len(q)
  BY <1>0, <1>1
<1>4. Elems(p) \subseteq Elems(q)
  BY <1>1, <1>3 DEF Elems
<1>5. q[1] \in Elems(q)
  BY <1>0 DEF Elems
<1>6. ASSUME NEW i \in 1..Len(q) PROVE q[i] \in {q[1]} \cup Elems(p)
  <2>1. CASE i = 1
    BY <2>1
  <2>2. CASE i # 1
    <3>1. i - 1 \in 1..Len(p) /\ (i - 1) + 1 = i
      BY <1>0, <1>1, <2>2
    <3>2. p[i - 1] = q[i]
      BY <1>1, <3>1
    <3> QED
      BY <3>1, <3>2 DEF Elems
  <2> QED
    BY <2>1, <2>2
<1>7. Elems(q) \subseteq {q[1]} \cup Elems(p)
  BY <1>6 DEF Elems
<1> QED
  BY <1>0, <1>1, <1>2, <1>3, <1>4, <1>5, <1>7

LEMMA EmptyElems == Elems(<<>>) = {} /\ Len(<<>>) = 0
  BY DEF Elems

LEMMA ElemsIn ==
  ASSUME NEW S, NEW q \in Seq(S)
  PROVE  Elems(q) \subseteq S /\ \A e : e \in Elems(q) <=> \E i \in 1..Len(q) : q[i] = e
<1>1. \A i \in 1..Len(q) : q[i] \in S
  BY ElementOfSeq
<1> QED
  BY <1>1 DEF Elems

---------------------------------------------------------------------------
(* What the pump sends. *)

Refused(p, b) == [kind |-> "error", resp |-> p.resp, on |-> p, benign |-> b]

(* Everything but the server, what waits to be sent and the link.          *)
PumpLeaves ==
  UNCHANGED <<conn, broken, tasks, caller, machine, pump, pending>>

(* One of five things is sent at a time: the truncation that follows a     *)
(* cancel, a group's cancel, or the head of the normal lane.               *)
SendsTruncate ==
  /\ group # <<>> /\ group' = <<>> /\ last' = Truncate(last.resp)
  /\ UNCHANGED <<provider, inbox, normal, groups, races>>

SendsCancel(r) ==
  /\ group = <<>> /\ groups # <<>> /\ groups' = Tail(groups)
  /\ groups[1] \in {<<Cancel(r)>>, <<Cancel(r), Truncate(r)>>}
  /\ last' = Cancel(r) /\ group' \in {<<>>, <<Truncate(r)>>}
  /\ UNCHANGED <<unheard, spoken, ended, owed, answered, audio, normal, races>>
  /\ \/ active = r /\ active' = 0 /\ inbox' = Append(inbox, Event("done", r))
     \/ active # r /\ active' = active /\ inbox' = Append(inbox, Refused(Cancel(r), TRUE))

SendsNormal(p) ==
  /\ group = <<>> /\ groups = <<>> /\ normal # <<>> /\ normal[1] = p /\ last' = p
  /\ normal' = Tail(normal) /\ UNCHANGED <<group, groups>>

SendsAppend ==
  /\ SendsNormal(AppendPayload)
  /\ unheard' = unheard + 1
  /\ UNCHANGED <<spoken, ended, owed, active, answered, audio, inbox, races>>

SendsCommit ==
  /\ SendsNormal(Commit)
  /\ ended' = spoken /\ unheard' = 0
  /\ inbox' = Append(inbox, IF spoken > ended THEN Event("committed", 0) ELSE Refused(Commit, TRUE))
  /\ UNCHANGED <<spoken, owed, active, answered, audio, races>>

SendsCreate ==
  /\ SendsNormal(Create)
  /\ UNCHANGED <<unheard, spoken, ended, active, answered, audio>>
  /\ \/ /\ active = 0 /\ owed' = Append(owed, spoken)
        /\ UNCHANGED <<inbox, races>>
     \/ /\ active # 0 /\ owed' = owed /\ races' = races \cup {"collided"}
        /\ inbox' = Append(inbox, Refused(Create, FALSE))

LEMMA PayloadFacts ==
  /\ \A t, r : Payload(t, r).type = t /\ Payload(t, r).resp = r
  /\ \A k, r : Event(k, r).kind = k /\ Event(k, r).resp = r
  /\ \A p, b : /\ Refused(p, b).kind = "error" /\ Refused(p, b).resp = p.resp
               /\ Refused(p, b).on = p /\ Refused(p, b).benign = b
BY DEF Payload, Event, Refused

(* What is queued has nothing else than these.                             *)
LEMMA NextIs ==
  ASSUME Types, backend = "realtime", NormalInv, ControlsInv, PumpHas, PumpAdvances
  PROVE  \/ /\ NextPayload.payload = Truncate(last.resp) /\ last' = Truncate(last.resp)
            /\ group # <<>> /\ group' = <<>> /\ UNCHANGED <<normal, groups>>
         \/ \E r \in told :
              /\ NextPayload.payload = Cancel(r) /\ last' = Cancel(r)
              /\ group = <<>> /\ groups # <<>> /\ groups' = Tail(groups)
              /\ groups[1] \in {<<Cancel(r)>>, <<Cancel(r), Truncate(r)>>}
              /\ group' \in {<<>>, <<Truncate(r)>>} /\ UNCHANGED normal
         \/ \E p \in {AppendPayload, Commit, Create} :
              NextPayload.payload = p /\ SendsNormal(p)
<1>1. CASE group # <<>>
  <2>1. /\ NextPayload = [from |-> "group", payload |-> Head(group)]
        /\ group = <<Truncate(last.resp)>>
    BY <1>1 DEF NextPayload, ControlsInv
  <2>2. Head(group) = Truncate(last.resp) /\ Tail(group) = <<>>
    BY <2>1
  <2> QED
    BY <1>1, <2>1, <2>2 DEF PumpAdvances
<1>2. CASE group = <<>> /\ groups # <<>>
  <2>1. NextPayload = [from |-> "groups", payload |-> Head(Head(groups))]
    BY <1>2 DEF NextPayload
  <2>2. Head(groups) = groups[1] /\ 1 \in 1..Len(groups)
    <3>1. groups \in Seq(Seq(Payloads))
      BY DEF Types, StreamTypes, RealtimeTypes, InboxTypes
    <3> QED
      BY <1>2, <3>1, TailElems
  <2>3. PICK r \in told : groups[1] \in {<<Cancel(r)>>, <<Cancel(r), Truncate(r)>>}
    BY <2>2 DEF ControlsInv
  <2>4. Head(groups[1]) = Cancel(r) /\ Tail(groups[1]) \in {<<>>, <<Truncate(r)>>}
    <3>1. \A c, t : /\ Head(<<c>>) = c /\ Tail(<<c>>) = <<>>
                    /\ Head(<<c, t>>) = c /\ Tail(<<c, t>>) = <<t>>
      OBVIOUS
    <3>2. CASE groups[1] = <<Cancel(r)>>
      BY <3>1, <3>2, Zenon
    <3>3. CASE groups[1] = <<Cancel(r), Truncate(r)>>
      BY <3>1, <3>3, Zenon
    <3> QED
      BY <2>3, <3>2, <3>3
  <2>5. /\ last' = Cancel(r) /\ groups' = Tail(groups) /\ group' = Tail(groups[1])
        /\ normal' = normal
    BY <2>1, <2>2, <2>4 DEF PumpAdvances
  <2> QED
    BY <1>2, <2>1, <2>2, <2>3, <2>4, <2>5
<1>3. CASE group = <<>> /\ groups = <<>>
  <2>1. normal # <<>> /\ NextPayload = [from |-> "normal", payload |-> Head(normal)]
    BY <1>3 DEF PumpHas, NextPayload
  <2>2. Head(normal) = normal[1] /\ 1 \in 1..Len(normal)
    <3>1. normal \in Seq(Payloads)
      BY DEF Types, StreamTypes, RealtimeTypes, InboxTypes
    <3> QED
      BY <2>1, <3>1, TailElems
  <2>3. PICK p \in {AppendPayload, Commit, Create} : normal[1] = p
    BY <2>2 DEF NormalInv, Elems
  <2>4. last' = p /\ normal' = Tail(normal) /\ UNCHANGED <<group, groups>>
    BY <2>1, <2>2, <2>3 DEF PumpAdvances
  <2> QED
    BY <1>3, <2>1, <2>2, <2>3, <2>4 DEF SendsNormal
<1> QED
  BY <1>1, <1>2, <1>3

(* Every step of the pump is one of these.                                 *)
LEMMA PumpSays ==
  ASSUME Types, backend = "realtime", NormalInv, ControlsInv, PumpSends
  PROVE  /\ PumpLeaves /\ stream = "open" /\ conn = "open"
         /\ \/ SendsTruncate
            \/ \E r \in told : SendsCancel(r)
            \/ SendsAppend \/ SendsCommit \/ SendsCreate
<1>1. /\ PumpHas /\ PumpAdvances /\ stream = "open" /\ conn = "open"
      /\ UNCHANGED <<conn, broken, tasks, caller, machine>>
  BY DEF PumpSends
<1>2. PumpLeaves
  BY <1>1 DEF PumpLeaves, PumpAdvances
<1>3. inbox \in Seq(Wire) /\ owed \in Seq(Nat)
  BY DEF Types, StreamTypes, RealtimeTypes, InboxTypes
<1>4. \A e : inbox \o <<e>> = Append(inbox, e)
  BY <1>3
<1>5. inbox \o <<>> = inbox
  BY <1>3
<1>6. races' = IF NextPayload.payload.type = "create" /\ active # 0
                 THEN races \cup {"collided"} ELSE races
  BY DEF PumpSends
<1>7. \/ /\ NextPayload.payload.type = "append"
         /\ unheard' = unheard + 1
         /\ UNCHANGED <<spoken, ended, owed, active, answered, audio, inbox>>
      \/ /\ NextPayload.payload.type = "cancel"
         /\ active' = IF active = NextPayload.payload.resp THEN 0 ELSE active
         /\ inbox' = inbox \o (IF active = NextPayload.payload.resp
                                 THEN <<Event("done", NextPayload.payload.resp)>>
                                 ELSE <<Refused(NextPayload.payload, TRUE)>>)
         /\ UNCHANGED <<unheard, spoken, ended, owed, answered, audio>>
      \/ /\ NextPayload.payload.type = "truncate"
         /\ UNCHANGED <<provider, inbox>>
      \/ /\ NextPayload.payload.type = "commit"
         /\ ended' = spoken /\ unheard' = 0
         /\ inbox' = inbox \o (IF spoken > ended
                                 THEN <<Event("committed", 0)>>
                                 ELSE <<Refused(NextPayload.payload, TRUE)>>)
         /\ UNCHANGED <<spoken, owed, active, answered, audio>>
      \/ /\ NextPayload.payload.type = "create"
         /\ owed' = IF active = 0 THEN Append(owed, spoken) ELSE owed
         /\ inbox' = inbox \o (IF active = 0 THEN <<>> ELSE <<Refused(NextPayload.payload, FALSE)>>)
         /\ UNCHANGED <<unheard, spoken, ended, active, answered, audio>>
  BY Zenon DEF PumpSends, Refused
<1>8. CASE /\ NextPayload.payload = Truncate(last.resp) /\ last' = Truncate(last.resp)
           /\ group # <<>> /\ group' = <<>> /\ UNCHANGED <<normal, groups>>
  <2>1. NextPayload.payload.type = "truncate"
    BY <1>8, PayloadFacts DEF Truncate
  <2>2. SendsTruncate
    BY <1>6, <1>7, <1>8, <2>1 DEF SendsTruncate
  <2> QED
    BY <1>1, <1>2, <2>2
<1>9. ASSUME NEW r \in told,
             NextPayload.payload = Cancel(r) /\ last' = Cancel(r)
             /\ group = <<>> /\ groups # <<>> /\ groups' = Tail(groups)
             /\ groups[1] \in {<<Cancel(r)>>, <<Cancel(r), Truncate(r)>>}
             /\ group' \in {<<>>, <<Truncate(r)>>} /\ UNCHANGED normal
      PROVE  SendsCancel(r)
  <2>1. NextPayload.payload.type = "cancel" /\ NextPayload.payload.resp = r
    BY <1>9, PayloadFacts DEF Cancel
  <2>2. /\ active' = IF active = r THEN 0 ELSE active
        /\ inbox' = inbox \o (IF active = r THEN <<Event("done", r)>>
                                ELSE <<Refused(Cancel(r), TRUE)>>)
        /\ UNCHANGED <<unheard, spoken, ended, owed, answered, audio>>
    BY <1>7, <1>9, <2>1
  <2>3. races' = races
    BY <1>6, <2>1
  <2> QED
    <3>1. CASE active = r
      <4>1. active' = 0 /\ inbox' = Append(inbox, Event("done", r))
        BY <1>4, <2>2, <3>1
      <4> QED
        BY <1>9, <2>2, <2>3, <3>1, <4>1 DEF SendsCancel
    <3>2. CASE active # r
      <4>1. active' = active /\ inbox' = Append(inbox, Refused(Cancel(r), TRUE))
        BY <1>4, <2>2, <3>2
      <4> QED
        BY <1>9, <2>2, <2>3, <3>2, <4>1 DEF SendsCancel
    <3> QED
      BY <3>1, <3>2
<1>10. ASSUME NEW p \in {AppendPayload, Commit, Create},
              NextPayload.payload = p, SendsNormal(p)
       PROVE  SendsAppend \/ SendsCommit \/ SendsCreate
  <2>1. CASE p = AppendPayload
    <3>1. NextPayload.payload.type = "append"
      BY <1>10, <2>1, PayloadFacts DEF AppendPayload
    <3> QED
      BY <1>6, <1>7, <1>10, <2>1, <3>1 DEF SendsAppend
  <2>2. CASE p = Commit
    <3>1. NextPayload.payload.type = "commit" /\ NextPayload.payload = Commit
      BY <1>10, <2>2, PayloadFacts DEF Commit
    <3>2. /\ ended' = spoken /\ unheard' = 0 /\ races' = races
          /\ inbox' = inbox \o (IF spoken > ended THEN <<Event("committed", 0)>>
                                  ELSE <<Refused(Commit, TRUE)>>)
          /\ UNCHANGED <<spoken, owed, active, answered, audio>>
      BY <1>6, <1>7, <3>1
    <3>3. inbox' = Append(inbox, IF spoken > ended THEN Event("committed", 0)
                                 ELSE Refused(Commit, TRUE))
      <4>1. CASE spoken > ended
        BY <1>4, <3>2, <4>1
      <4>2. CASE ~(spoken > ended)
        BY <1>4, <3>2, <4>2
      <4> QED
        BY <4>1, <4>2
    <3> QED
      BY <1>10, <2>2, <3>2, <3>3 DEF SendsCommit
  <2>3. CASE p = Create
    <3>1. NextPayload.payload.type = "create" /\ NextPayload.payload = Create
      BY <1>10, <2>3, PayloadFacts DEF Create
    <3>2. /\ owed' = IF active = 0 THEN Append(owed, spoken) ELSE owed
          /\ inbox' = inbox \o (IF active = 0 THEN <<>> ELSE <<Refused(Create, FALSE)>>)
          /\ UNCHANGED <<unheard, spoken, ended, active, answered, audio>>
          /\ races' = IF active # 0 THEN races \cup {"collided"} ELSE races
      BY <1>6, <1>7, <3>1
    <3> QED
      BY <1>4, <1>5, <1>10, <2>3, <3>2 DEF SendsCreate
  <2> QED
    BY <2>1, <2>2, <2>3
<1> QED
  BY <1>1, <1>2, <1>8, <1>9, <1>10, NextIs

---------------------------------------------------------------------------
(* What the receiver of Realtime takes. *)

(* One event is taken from the link: of a response, of the commit, or a    *)
(* refusal.                                                                *)
Takes(e) ==
  /\ receiver = "reading" /\ inbox # <<>> /\ inbox[1] = e /\ inbox' = Tail(inbox)
  /\ UNCHANGED <<provider, conn, broken, encoder, appended, gaveUp, caller, normal, groups,
                 group, pump, last>>

TakesResponse(e) ==
  /\ Takes(e) /\ e.kind \in Kinds /\ e.kind # "error" /\ outQ' = Append(outQ, e)
  /\ UNCHANGED <<receiver, pending, races>>
  /\ eof' = IF e.kind = "started" THEN IF eof = "response_done" THEN eof ELSE "response_started"
            ELSE IF e.kind = "done" THEN "response_done" ELSE eof
  /\ responseDone' = (responseDone \/ e.kind = "done")

TakesSpeech(e) ==
  /\ Takes(e) /\ e.kind \in {"speech", "committed"}
  /\ UNCHANGED <<outQ, receiver, pending, responseDone>>
  /\ \/ e.kind = "speech" /\ OnSpeech /\ UNCHANGED races
     \/ /\ e.kind = "committed" /\ OnCommitted
        /\ races' = IF e.resp # 0 /\ eof = "manual_commit_sent"
                      THEN races \cup {"mistaken"} ELSE races

TakesRefusal(e) ==
  /\ Takes(e) /\ e.kind = "error" /\ pending' = pending \ {e.on}
  /\ UNCHANGED <<eof, responseDone, races>>
  /\ \/ Tolerated(e) /\ UNCHANGED <<outQ, receiver>>
     \/ ~Tolerated(e) /\ outQ' = Append(outQ, AfterFailure) /\ receiver' = "done"

(* Every step of the receiver is one of these.                             *)
LEMMA ReceivesSays ==
  ASSUME Types, backend = "realtime", RealtimeReceives
  PROVE  /\ committed' \in BOOLEAN
         /\ \E e \in Wire : TakesResponse(e) \/ TakesSpeech(e) \/ TakesRefusal(e)
<1>0. inbox \in Seq(Wire) /\ outQ \in Seq(Item) /\ committed \in BOOLEAN
  BY DEF Types, StreamTypes, RealtimeTypes, InboxTypes
<1>1. receiver = "reading" /\ inbox # <<>> /\ inbox' = Tail(inbox)
  BY DEF RealtimeReceives, ReceiverFree
<1>2. PICK e \in Wire : e = Head(inbox) /\ e = inbox[1]
  BY <1>0, <1>1, TailElems
<1>3. /\ \/ e.kind = "speech" /\ OnSpeech
         \/ e.kind = "committed" /\ OnCommitted
         \/ e.kind = "started" /\ OnCreated
         \/ e.kind = "done" /\ eof' = "response_done"
         \/ e.kind \in {"audio", "error"} /\ UNCHANGED eof
      /\ committed' = (committed \/ (~(e.kind = "error" /\ ~Tolerated(e)) /\ WakesEncoder(e)))
      /\ responseDone' = (responseDone \/ e.kind = "done")
      /\ pending' = IF e.kind = "error" THEN pending \ {e.on} ELSE pending
      /\ receiver' = IF e.kind = "error" /\ ~Tolerated(e) THEN "done" ELSE "reading"
      /\ outQ' = outQ \o (IF e.kind = "error" /\ ~Tolerated(e) THEN <<AfterFailure>>
                            ELSE IF e.kind \in Kinds THEN <<e>> ELSE <<>>)
      /\ races' = IF e.kind = "committed" /\ e.resp # 0 /\ eof = "manual_commit_sent"
                    THEN races \cup {"mistaken"} ELSE races
  BY <1>2 DEF RealtimeReceives
<1>4. UNCHANGED <<provider, conn, broken, encoder, appended, gaveUp, caller, normal, groups,
                  group, pump, last>>
  BY DEF RealtimeReceives
<1>5. Takes(e)
  BY <1>1, <1>2, <1>4 DEF Takes
<1>6. committed' \in BOOLEAN
  BY <1>3 DEF WakesEncoder
<1>7. (\A x : outQ \o <<x>> = Append(outQ, x)) /\ outQ \o <<>> = outQ
  BY <1>0
<1>8. CASE e.kind \in Kinds
  <2>0. e.kind # "error" /\ e.kind # "committed" /\ e.kind # "speech"
    BY <1>8 DEF Kinds
  <2>1. outQ' = Append(outQ, e) /\ UNCHANGED <<receiver, pending, races>>
    <3>1. outQ' = outQ \o <<e>>
      BY <1>3, <1>8, <2>0
    <3> QED
      BY <1>1, <1>3, <1>7, <2>0, <3>1
  <2>2. eof' = IF e.kind = "started" THEN IF eof = "response_done" THEN eof ELSE "response_started"
               ELSE IF e.kind = "done" THEN "response_done" ELSE eof
    BY <1>3, <2>0 DEF OnCreated
  <2>3. TakesResponse(e)
    BY <1>3, <1>5, <1>8, <2>0, <2>1, <2>2 DEF TakesResponse
  <2> QED
    BY <1>6, <2>3
<1>9. CASE e.kind \in {"speech", "committed"}
  <2>0. e.kind # "error" /\ e.kind \notin Kinds /\ e.kind # "done" /\ e.kind # "audio" /\ e.kind # "started"
    BY <1>9 DEF Kinds
  <2>1. outQ' = outQ /\ UNCHANGED <<receiver, pending>>
    <3>1. outQ' = outQ \o <<>>
      BY <1>3, <2>0
    <3> QED
      BY <1>1, <1>3, <1>7, <2>0, <3>1
  <2>2. responseDone' = responseDone
    <3>1. responseDone \in BOOLEAN
      BY DEF Types, StreamTypes, RealtimeTypes, InboxTypes
    <3> QED
      BY <1>3, <2>0, <3>1
  <2>3. TakesSpeech(e)
    BY <1>3, <1>5, <1>9, <2>0, <2>1, <2>2 DEF TakesSpeech
  <2> QED
    BY <1>6, <2>3
<1>10. CASE e.kind = "error"
  <2>0. e.kind \notin Kinds /\ e.kind # "done"
    BY <1>10 DEF Kinds
  <2>1. \/ Tolerated(e) /\ UNCHANGED <<outQ, receiver>>
        \/ ~Tolerated(e) /\ outQ' = Append(outQ, AfterFailure) /\ receiver' = "done"
    <3>1. CASE Tolerated(e)
      <4>1. outQ' = outQ \o <<>>
        BY <1>3, <1>10, <2>0, <3>1
      <4> QED
        BY <1>1, <1>3, <1>7, <3>1, <4>1
    <3>2. CASE ~Tolerated(e)
      <4>1. outQ' = outQ \o <<AfterFailure>>
        BY <1>3, <1>10, <3>2
      <4> QED
        BY <1>3, <1>7, <1>10, <3>2, <4>1
    <3> QED
      BY <3>1, <3>2
  <2>2. responseDone' = responseDone /\ eof' = eof /\ races' = races
    <3>1. responseDone \in BOOLEAN
      BY DEF Types, StreamTypes, RealtimeTypes, InboxTypes
    <3> QED
      BY <1>3, <1>10, <2>0, <3>1
  <2>3. TakesRefusal(e)
    BY <1>3, <1>5, <1>10, <2>1, <2>2 DEF TakesRefusal
  <2> QED
    BY <1>6, <2>3
<1>11. e.kind \in Kinds \/ e.kind \in {"speech", "committed"} \/ e.kind = "error"
  BY <1>2 DEF Wire, Refusal
<1> QED
  BY <1>8, <1>9, <1>10, <1>11

---------------------------------------------------------------------------
(* Types. *)

LEMMA ItemTypes ==
  /\ Failure \in Item /\ EndOfStream \in Item /\ AfterFailure \in Item
  /\ \A k \in Kinds, r \in Nat : Event(k, r) \in Item /\ Event(k, r) \in Wire
  /\ \A r \in Nat : Event("speech", r) \in Wire /\ Event("committed", r) \in Wire
  /\ \A r \in Nat : Cancel(r) \in Payloads /\ Truncate(r) \in Payloads
  /\ Commit \in Payloads /\ Create \in Payloads /\ AppendPayload \in Payloads
  /\ \A p \in Payloads, b \in BOOLEAN : Refused(p, b) \in Wire
  /\ "started" \in Kinds /\ "audio" \in Kinds /\ "done" \in Kinds
  /\ \A e \in Wire : e.kind \in Kinds => e \in Item
<1>1. "started" \in Kinds /\ "audio" \in Kinds /\ "done" \in Kinds /\ "error" \notin Kinds
  BY DEF Kinds
<1>2. /\ \A k \in Kinds, r \in Nat : Event(k, r) \in Item /\ Event(k, r) \in Wire
      /\ \A r \in Nat : Event("speech", r) \in Wire /\ Event("committed", r) \in Wire
  BY DEF Event, Item, Wire
<1>3. Failure \in Item /\ EndOfStream \in Item
  BY DEF Failure, EndOfStream, Event, Item
<1>4. /\ \A r \in Nat : Cancel(r) \in Payloads /\ Truncate(r) \in Payloads
      /\ Commit \in Payloads /\ Create \in Payloads /\ AppendPayload \in Payloads
  BY DEF Cancel, Truncate, Commit, Create, AppendPayload, Payload, Payloads
<1>5. ASSUME NEW p \in Payloads, NEW b \in BOOLEAN PROVE Refused(p, b) \in Wire
  <2>1. p.resp \in Nat
    BY DEF Payloads
  <2> QED
    BY <2>1 DEF Refused, Refusal, Wire
<1>6. ASSUME NEW e \in Wire, e.kind \in Kinds PROVE e \in Item
  <2>1. e \in [kind : Kinds \cup {"speech", "committed"}, resp : Nat]
    <3>1. e \notin Refusal
      BY <1>1, <1>6 DEF Refusal
    <3> QED
      BY <3>1 DEF Wire
  <2>2. e = [kind |-> e.kind, resp |-> e.resp] /\ e.resp \in Nat
    BY <2>1
  <2> QED
    BY <1>6, <2>2 DEF Item
<1>7. AfterFailure \in Item
  BY <1>3 DEF AfterFailure
<1> QED
  BY <1>1, <1>2, <1>3, <1>4, <1>5, <1>6, <1>7

LEMMA TypesInit == Init => Types
<1> SUFFICES ASSUME Init PROVE Types
  OBVIOUS
<1>0. StreamInit /\ RealtimeInit /\ GeminiInit
  BY DEF Init
<1>1. yielded = [k \in Kinds |-> [r \in Responses |-> 0]] /\ told = {}
  BY <1>0 DEF StreamInit
<1>2. yielded \in [Kinds -> [Responses -> Nat]] /\ told \subseteq Responses
  BY <1>1
<1>3. last \in Payloads
  BY <1>0 DEF RealtimeInit, Payload, Payloads
<1>4. \A S : <<>> \in Seq(S)
  OBVIOUS
<1>5. StreamTypes
  BY <1>0, <1>2, <1>4 DEF StreamInit, StreamTypes
<1>6. RealtimeTypes
  <2>1. Len(normal) <= QueueMax
    BY <1>0, ProviderAssumption DEF RealtimeInit
  <2> QED
    BY <1>0, <1>3, <1>4, <2>1 DEF RealtimeInit, RealtimeTypes
<1>7. GeminiTypes /\ InboxTypes
  BY <1>0, <1>4 DEF StreamInit, GeminiInit, GeminiTypes, InboxTypes
<1> QED
  BY <1>5, <1>6, <1>7 DEF Types

(* A part that does not change keeps its types.                            *)
LEMMA TypesKept ==
  ASSUME Types
  PROVE  /\ UNCHANGED realtimeVars => RealtimeTypes'
         /\ UNCHANGED geminiVars => GeminiTypes'
         /\ UNCHANGED <<provider, tasks, caller, conn, broken>> => StreamTypes'
         /\ UNCHANGED <<inbox, backend>> => InboxTypes'
<1>1. UNCHANGED realtimeVars => RealtimeTypes'
  BY DEF Types, RealtimeTypes, realtimeVars, machine, outbound
<1>2. UNCHANGED geminiVars => GeminiTypes'
  BY DEF Types, GeminiTypes, geminiVars, turns
<1>3. UNCHANGED <<provider, tasks, caller, conn, broken>> => StreamTypes'
  BY DEF Types, StreamTypes, provider, tasks, caller
<1>4. UNCHANGED <<inbox, backend>> => InboxTypes'
  BY DEF Types, InboxTypes
<1> QED
  BY <1>1, <1>2, <1>3, <1>4

LEMMA TypesIdle == ASSUME Types, UNCHANGED vars PROVE Types'
BY TypesKept DEF Types, vars, link

(* Types are kept by the steps common to both adapters.                    *)
LEMMA TypesStream ==
  ASSUME Types, StreamStep, backend' = backend
  PROVE  Types'
<1>0. UNCHANGED <<realtimeVars, geminiVars, backend>>
  BY DEF StreamStep
<1>1. outQ \in Seq(Item) /\ yielded \in [Kinds -> [Responses -> Nat]]
  BY DEF Types, StreamTypes
<1>2. <<>> \in Seq(Item) /\ <<>> \in Seq(Wire) /\ <<>> \in Seq(Message)
  OBVIOUS
<1>l. ASSUME NEW how \in {"returned", "raised"}, Leave(how), yielded' = yielded
      PROVE  StreamTypes' /\ InboxTypes'
  <2>1. StreamTypes'
    BY <1>2, <1>l DEF Leave, Types, StreamTypes, provider
  <2>2. InboxTypes'
    BY <1>0, <1>2, <1>l DEF Leave, InboxTypes
  <2> QED
    BY <2>1, <2>2
<1>3. CASE Take
  <2>1. CASE /\ outQ # <<>> /\ Head(outQ).kind \in Kinds
             /\ outQ' = Tail(outQ)
             /\ yielded' = [yielded EXCEPT ![Head(outQ).kind][Head(outQ).resp] = @ + 1]
             /\ UNCHANGED <<provider, link, encoder, appended, gaveUp, receiver, closing,
                            stream, told>>
    <3>1. outQ' \in Seq(Item)
      BY <1>1, <2>1, TailElems
    <3>2. yielded' \in [Kinds -> [Responses -> Nat]]
      <4> PICK k \in Kinds : k = Head(outQ).kind
        BY <2>1
      <4> PICK r : r = Head(outQ).resp
        OBVIOUS
      <4>1. yielded' = [yielded EXCEPT ![k][r] = @ + 1] /\ yielded[k] \in [Responses -> Nat]
        BY <1>1, <2>1
      <4>2. ASSUME NEW f \in [Responses -> Nat] PROVE [f EXCEPT ![r] = f[r] + 1] \in [Responses -> Nat]
        <5>1. CASE r \in Responses
          BY <5>1
        <5>2. CASE r \notin Responses
          BY <5>2
        <5> QED
          BY <5>1, <5>2
      <4>3. yielded' = [yielded EXCEPT ![k] = [yielded[k] EXCEPT ![r] = yielded[k][r] + 1]]
        BY <4>1
      <4> QED
        BY <1>1, <4>1, <4>2, <4>3
    <3>3. StreamTypes'
      BY <2>1, <3>1, <3>2 DEF Types, StreamTypes, provider, link
    <3> QED
      BY <1>0, <2>1, <3>3, TypesKept DEF Types, link
  <2>2. CASE \E how \in {"returned", "raised"} : Leave(how) /\ UNCHANGED yielded
    BY <1>0, <1>l, <2>2, TypesKept DEF Types
  <2> QED
    BY <1>3, <2>1, <2>2 DEF Take
<1>4. CASE ReceiverEnds
  <2>1. outQ' \in Seq(Item)
    BY <1>1, <1>4, ItemTypes, AppendElems DEF ReceiverEnds
  <2>2. StreamTypes'
    BY <1>4, <2>1 DEF ReceiverEnds, Types, StreamTypes, provider, link, caller
  <2> QED
    BY <1>0, <1>4, <2>2, TypesKept DEF ReceiverEnds, Types, link
<1>5. CASE CloseAtEnd
  <2>1. StreamTypes'
    BY <1>5 DEF CloseAtEnd, Types, StreamTypes, provider, tasks
  <2> QED
    BY <1>0, <1>5, <2>1, TypesKept DEF CloseAtEnd, Types
<1>6. CASE TaskFailed(encoder = "failed" \/ pump = "failed")
  BY <1>0, <1>6, <1>l, TypesKept DEF TaskFailed, Types
<1>7. CASE EncoderFails
  <2>1. StreamTypes'
    BY <1>7 DEF EncoderFails, Types, StreamTypes, provider, caller
  <2> QED
    BY <1>0, <1>7, <2>1, TypesKept DEF EncoderFails, Types
<1>8. CASE \E how \in {"hungup", "lost"} : ConnectionBreaks(how)
  <2>1. StreamTypes'
    BY <1>8 DEF ConnectionBreaks, Types, StreamTypes, provider, tasks, caller
  <2> QED
    BY <1>0, <1>8, <2>1, TypesKept DEF ConnectionBreaks, Types
<1> QED
  BY <1>3, <1>4, <1>5, <1>6, <1>7, <1>8 DEF StreamStep, StreamTasks

(* What the provider does about its turns and responses. *)
ServerSpeech  == /\ spoken = ended /\ spoken < MaxTurns /\ unheard > 0
                 /\ spoken' = spoken + 1 /\ unheard' = unheard - 1
                 /\ UNCHANGED <<ended, owed, active, answered, audio>>
ServerOwes    == /\ spoken > ended /\ ended' = spoken /\ owed' = Append(owed, spoken)
                 /\ UNCHANGED <<unheard, spoken, active, answered, audio>>
ServerStarts  == /\ active = 0 /\ owed # <<>> /\ answered' = Append(answered, Head(owed))
                 /\ active' = Len(answered) + 1 /\ owed' = Tail(owed) /\ audio' = 0
                 /\ UNCHANGED <<unheard, spoken, ended>>
ServerGoesOn  == /\ active # 0 /\ audio' \in Nat
                 /\ UNCHANGED <<unheard, spoken, ended, owed, active, answered>>
ServerEnds    == /\ active # 0 /\ active' = 0 /\ audio' \in Nat
                 /\ UNCHANGED <<unheard, spoken, ended, owed, answered>>
ServerMoves == ServerSpeech \/ ServerOwes \/ ServerStarts \/ ServerGoesOn \/ ServerEnds

Receives(m) == conn = "open" /\ inbox' = Append(inbox, m)

(* A step of the server, by what it puts on the wire.                      *)
LEMMA SendsSays ==
  ASSUME NEW S, inbox \in Seq(S), NEW m \in S
  PROVE  /\ ProviderSends(<<m>>) => Receives(m) /\ UNCHANGED <<conn, broken>>
         /\ ProviderSends(<<>>) => conn = "open" /\ inbox' = inbox /\ UNCHANGED <<conn, broken>>
BY AppendElems, ConcatEmptySeq DEF ProviderSends, Receives

LEMMA RespondSays ==
  ASSUME Types, active = 0, owed # <<>>, answered' = Append(answered, Head(owed)),
         active' = Len(answered')
  PROVE  active' = Len(answered) + 1
<1>1. answered \in Seq(Nat) /\ Head(owed) \in Nat
  BY TailElems DEF Types, StreamTypes
<1> QED
  BY <1>1, AppendElems

(* What a server of Realtime can do, and what it says then.                *)
LEMMA ServerSays ==
  ASSUME Types, backend = "realtime", ServerStep
  PROVE  /\ UNCHANGED <<conn, broken, tasks, caller, realtimeVars>> /\ conn = "open"
         /\ \/ ServerSpeech /\ Receives(Event("speech", 0))
            \/ ServerOwes /\ Receives(Event("committed", spoken))
            \/ ServerStarts /\ Receives(Event("started", Len(answered) + 1))
            \/ ServerGoesOn /\ Receives(Event("audio", active))
            \/ ServerEnds /\ Receives(Event("done", active))
<1>0. /\ inbox \in Seq(Wire) /\ spoken \in Nat /\ active \in Nat /\ Len(answered) + 1 \in Nat
      /\ audio \in Nat
  BY LenProperties DEF Types, StreamTypes, InboxTypes
<1>1. /\ Event("speech", 0) \in Wire /\ Event("committed", spoken) \in Wire
      /\ Event("started", Len(answered) + 1) \in Wire
      /\ Event("audio", active) \in Wire /\ Event("done", active) \in Wire
  BY <1>0, ItemTypes, Zenon
<1>2. UNCHANGED <<tasks, caller, realtimeVars>>
  BY DEF ServerStep
<1>3. CASE SpeechBegins(<<Event("speech", 0)>>)
  BY <1>0, <1>1, <1>2, <1>3, SendsSays DEF SpeechBegins, ServerSpeech, Receives
<1>4. CASE SpeechEnds(<<Event("committed", spoken)>>)
  BY <1>0, <1>1, <1>2, <1>4, SendsSays DEF SpeechEnds, ServerOwes, Receives
<1>5. CASE Respond(<<Event("started", Len(answered) + 1)>>)
  <2>1. ServerStarts
    BY <1>5, RespondSays DEF Respond, ServerStarts
  <2> QED
    BY <1>0, <1>1, <1>2, <1>5, <2>1, SendsSays DEF Respond, Receives
<1>6. CASE /\ active # 0 /\ audio < MaxAudio
           /\ audio' = audio + 1
           /\ ProviderSends(<<Event("audio", active)>>)
           /\ UNCHANGED <<unheard, spoken, ended, owed, active, answered>>
  BY <1>0, <1>1, <1>2, <1>6, SendsSays DEF ServerGoesOn, Receives
<1>7. CASE /\ active # 0
           /\ active' = 0
           /\ ProviderSends(<<Event("done", active)>>)
           /\ UNCHANGED <<unheard, spoken, ended, owed, answered, audio>>
  BY <1>0, <1>1, <1>2, <1>7, SendsSays DEF ServerEnds, Receives
<1> QED
  BY <1>3, <1>4, <1>5, <1>6, <1>7 DEF ServerStep

(* A message of a response.                                                *)
SaysIs(m) ==
  /\ m.audio => said \in {"nothing", "some"}
  /\ m.interrupted => said # "interrupted"
  /\ said' \in {"nothing", "some", "generated", "interrupted"}
  /\ m.complete => said' = "nothing" /\ active' = 0
  /\ ~m.complete => active' = active
  /\ m.interrupted /\ ~m.complete => said' = "interrupted"
  /\ said = "interrupted" /\ ~m.complete => said' = "interrupted"

LEMMA SaysSays ==
  ASSUME Types, backend = "gemini", NEW m \in Message, Says(m)
  PROVE  /\ Receives(m) /\ SaysIs(m) /\ UNCHANGED <<conn, broken>>
         /\ ServerGoesOn \/ ServerEnds
<1>0. inbox \in Seq(Message) /\ audio \in Nat
  BY DEF Types, InboxTypes, StreamTypes
<1>1. /\ active # 0 /\ (m.audio => Talking) /\ (m.generated => Talking)
      /\ (m.interrupted => said # "interrupted" /\ ~m.generated)
      /\ audio' = IF m.audio THEN audio + 1 ELSE audio
      /\ active' = IF m.complete THEN 0 ELSE active
      /\ ProviderSends(<<m>>) /\ UNCHANGED <<unheard, spoken, ended, owed, answered>>
  BY DEF Says
<1>2. said' = CASE m.complete                      -> "nothing"
                [] m.interrupted /\ ~m.complete     -> "interrupted"
                [] m.generated /\ ~m.complete       -> "generated"
                [] OTHER -> IF Talking THEN "some" ELSE said
  BY DEF Says
<1>3. m.complete => said' = "nothing"
  <2> SUFFICES ASSUME m.complete PROVE said' = "nothing"
    OBVIOUS
  <2> QED
    BY <1>2
<1>4. m.interrupted /\ ~m.complete => said' = "interrupted"
  <2> SUFFICES ASSUME m.interrupted, ~m.complete PROVE said' = "interrupted"
    OBVIOUS
  <2>1. ~m.generated
    BY <1>1
  <2> QED
    BY <1>2, <2>1
<1>5. ~m.interrupted /\ ~m.complete /\ m.generated => said' = "generated"
  <2> SUFFICES ASSUME ~m.interrupted, ~m.complete, m.generated PROVE said' = "generated"
    OBVIOUS
  <2> QED
    BY <1>2
<1>6. ~m.interrupted /\ ~m.complete /\ ~m.generated => said' = IF Talking THEN "some" ELSE said
  <2> SUFFICES ASSUME ~m.interrupted, ~m.complete, ~m.generated
               PROVE  said' = IF Talking THEN "some" ELSE said
    OBVIOUS
  <2> QED
    BY <1>2
<1>7. SaysIs(m)
  <2>1. said \in {"nothing", "some", "generated", "interrupted"}
    BY DEF Types, GeminiTypes
  <2> QED
    BY <1>1, <1>3, <1>4, <1>5, <1>6, <2>1 DEF SaysIs, Talking
<1>8. Receives(m) /\ UNCHANGED <<conn, broken>>
  BY <1>0, <1>1, SendsSays
<1>9. ServerGoesOn \/ ServerEnds
  BY <1>0, <1>1 DEF ServerGoesOn, ServerEnds
<1> QED
  BY <1>7, <1>8, <1>9

(* What a server of Gemini can do, and what it says then.                  *)
LEMMA GeminiServerSays ==
  ASSUME Types, backend = "gemini", GeminiServerStep
  PROVE  /\ UNCHANGED <<conn, broken, tasks, caller, turns, abandoned>> /\ conn = "open"
         /\ \/ /\ ServerSpeech \/ ServerOwes \/ ServerStarts
               /\ UNCHANGED <<inbox, said>>
            \/ \E m \in Message : Receives(m) /\ SaysIs(m) /\ (ServerGoesOn \/ ServerEnds)
<1>0. inbox \in Seq(Message) /\ [audio |-> TRUE, generated |-> TRUE, interrupted |-> TRUE, complete |-> TRUE] \in Message
  BY DEF Types, InboxTypes, Message
<1>1. UNCHANGED <<tasks, caller, turns, abandoned>>
  BY DEF GeminiServerStep
<1>2. CASE SpeechBegins(<<>>) /\ UNCHANGED said
  BY <1>0, <1>1, <1>2, SendsSays DEF SpeechBegins, ServerSpeech
<1>3. CASE SpeechEnds(<<>>) /\ UNCHANGED said
  BY <1>0, <1>1, <1>3, SendsSays DEF SpeechEnds, ServerOwes
<1>4. CASE Respond(<<>>) /\ UNCHANGED said
  <2>1. ServerStarts
    BY <1>4, RespondSays DEF Respond, ServerStarts
  <2> QED
    BY <1>0, <1>1, <1>4, <2>1, SendsSays DEF Respond
<1>5. CASE \E m \in Message : Says(m)
  BY <1>1, <1>5, SaysSays DEF Receives
<1> QED
  BY <1>2, <1>3, <1>4, <1>5 DEF GeminiServerStep

LEMMA ServerTypes ==
  ASSUME StreamTypes, ServerMoves, UNCHANGED <<conn, broken, tasks, caller>>
  PROVE  StreamTypes'
<1>1. owed \in Seq(Nat) /\ answered \in Seq(Nat) /\ spoken \in Nat
  BY DEF StreamTypes
<1>2. CASE ServerSpeech
  BY <1>2 DEF StreamTypes, ServerSpeech, tasks, caller
<1>3. CASE ServerOwes
  <2>1. owed' \in Seq(Nat)
    BY <1>1, <1>3, AppendElems DEF ServerOwes
  <2> QED
    BY <1>3, <2>1 DEF StreamTypes, ServerOwes, tasks, caller
<1>4. CASE ServerStarts
  <2>1. owed # <<>> /\ owed' = Tail(owed) /\ answered' = Append(answered, Head(owed))
    BY <1>4 DEF ServerStarts
  <2>2. owed' \in Seq(Nat) /\ answered' \in Seq(Nat)
    BY <1>1, <2>1, AppendElems, TailElems
  <2>3. Len(answered) \in Nat
    BY <1>1, LenProperties
  <2> QED
    BY <1>4, <2>2, <2>3 DEF StreamTypes, ServerStarts, tasks, caller
<1>5. CASE ServerGoesOn \/ ServerEnds
  BY <1>5 DEF StreamTypes, ServerGoesOn, ServerEnds, tasks, caller
<1> QED
  BY <1>2, <1>3, <1>4, <1>5 DEF ServerMoves

LEMMA ResponsesAre == Responses \subseteq Nat /\ MaxTurns \in Nat /\ \A r \in Responses : r >= 1
BY ProviderAssumption DEF Responses

LEMMA InboxAppended ==
  ASSUME NEW e \in Wire, inbox \in Seq(Wire), inbox' = Append(inbox, e),
         backend = "realtime", backend' = backend
  PROVE  InboxTypes'
BY AppendElems DEF InboxTypes

(* Types are kept by the pump and by the receiver of Realtime.             *)
LEMMA TypesPump ==
  ASSUME Types, backend = "realtime", backend' = backend, UNCHANGED geminiVars,
         NormalInv, ControlsInv, PumpSends
  PROVE  Types'
<1>0. /\ inbox \in Seq(Wire) /\ owed \in Seq(Nat) /\ spoken \in Nat /\ unheard \in Nat
      /\ normal \in Seq(Payloads) /\ groups \in Seq(Seq(Payloads)) /\ group \in Seq(Payloads)
      /\ last \in Payloads /\ Len(normal) <= QueueMax /\ active \in Nat /\ answered \in Seq(Nat)
      /\ told \subseteq Responses
  BY DEF Types, StreamTypes, RealtimeTypes, InboxTypes
<1>q. QueueMax \in Nat
  BY ProviderAssumption
<1>1. PumpLeaves
  BY PumpSays
<1>2. ASSUME unheard' \in Nat, ended' \in Nat, spoken' = spoken, active' \in Nat, audio' = audio,
             owed' \in Seq(Nat), answered' = answered
      PROVE  StreamTypes'
  BY <1>1, <1>2 DEF PumpLeaves, Types, StreamTypes, tasks, caller
<1>3. ASSUME normal' = normal \/ (normal # <<>> /\ normal' = Tail(normal)),
             groups' = groups \/ (groups # <<>> /\ groups' = Tail(groups)),
             group' \in Seq(Payloads), last' \in Payloads
      PROVE  RealtimeTypes'
  <2>1. normal' \in Seq(Payloads) /\ Len(normal') <= QueueMax
    <3>1. CASE normal' = normal
      BY <1>0, <3>1
    <3>2. CASE normal # <<>> /\ normal' = Tail(normal)
      <4>1. PICK n \in Nat : n = Len(normal)
        BY <1>0, LenProperties
      <4>2. normal' \in Seq(Payloads) /\ Len(normal') = n - 1
        BY <1>0, <3>2, <4>1, TailElems
      <4> QED
        BY <1>0, <1>q, <4>1, <4>2
    <3> QED
      BY <1>3, <3>1, <3>2
  <2>2. groups' \in Seq(Seq(Payloads))
    <3>1. CASE groups' = groups
      BY <1>0, <3>1
    <3>2. CASE groups # <<>> /\ groups' = Tail(groups)
      <4> PICK P : P = Seq(Payloads)
        OBVIOUS
      <4>1. groups \in Seq(P)
        BY <1>0
      <4>2. groups' \in Seq(P)
        BY <3>2, <4>1, TailElems
      <4> QED
        BY <4>2
    <3> QED
      BY <1>3, <3>1, <3>2
  <2> QED
    BY <1>1, <1>3, <2>1, <2>2 DEF PumpLeaves, Types, RealtimeTypes, machine
<1>4. GeminiTypes'
  BY TypesKept
<1>5. CASE SendsTruncate
  <2>1. last.resp \in Nat
    BY <1>0 DEF Payloads
  <2>2. Truncate(last.resp) \in Payloads
    BY <2>1, ItemTypes
  <2>3. RealtimeTypes'
    BY <1>3, <1>5, <2>2 DEF SendsTruncate
  <2>4. StreamTypes'
    <3>1. UNCHANGED provider
      BY <1>5 DEF SendsTruncate
    <3> QED
      BY <1>1, <3>1, TypesKept DEF PumpLeaves
  <2>5. InboxTypes'
    BY <1>5, TypesKept DEF SendsTruncate
  <2> QED
    BY <1>4, <2>3, <2>4, <2>5 DEF Types
<1>6. ASSUME NEW r \in told, SendsCancel(r) PROVE Types'
  <2>1. r \in Nat
    BY <1>0, ResponsesAre
  <2>2. Cancel(r) \in Payloads /\ Truncate(r) \in Payloads
    BY <2>1, ItemTypes
  <2>3. group' \in Seq(Payloads)
    <3>1. <<>> \in Seq(Payloads) /\ <<Truncate(r)>> \in Seq(Payloads)
      BY <2>2
    <3> QED
      BY <1>6, <3>1 DEF SendsCancel
  <2>4. RealtimeTypes'
    BY <1>3, <1>6, <2>2, <2>3 DEF SendsCancel
  <2>5. StreamTypes'
    <3>1. ended \in Nat
      BY DEF Types, StreamTypes
    <3> QED
      <4>1. /\ UNCHANGED <<unheard, spoken, ended, owed, answered, audio>>
            /\ active' = 0 \/ active' = active
        BY <1>6 DEF SendsCancel
      <4> QED
        BY <1>0, <1>2, <3>1, <4>1
  <2>6. Event("done", r) \in Wire /\ Refused(Cancel(r), TRUE) \in Wire
    BY <2>1, <2>2, ItemTypes
  <2>7. InboxTypes'
    BY <1>0, <1>6, <2>6, InboxAppended DEF SendsCancel
  <2> QED
    BY <1>4, <2>4, <2>5, <2>7 DEF Types
<1>7. ASSUME NEW p \in Payloads, SendsNormal(p) PROVE RealtimeTypes'
  BY <1>0, <1>3, <1>7 DEF SendsNormal
<1>8. CASE SendsAppend
  <2>1. StreamTypes'
    <3>1. ended \in Nat
      BY DEF Types, StreamTypes
    <3> QED
      BY <1>0, <1>2, <1>8, <3>1 DEF SendsAppend
  <2> QED
    BY <1>4, <1>7, <1>8, <2>1, TypesKept, ItemTypes DEF SendsAppend, Types
<1>9. CASE SendsCommit
  <2>1. StreamTypes'
    BY <1>0, <1>2, <1>9 DEF SendsCommit
  <2>2. Event("committed", 0) \in Wire /\ Refused(Commit, TRUE) \in Wire
    BY ItemTypes
  <2>3. InboxTypes'
    BY <1>0, <1>9, <2>2, InboxAppended DEF SendsCommit
  <2> QED
    BY <1>4, <1>7, <1>9, <2>1, <2>3, ItemTypes DEF SendsCommit, Types
<1>10. CASE SendsCreate
  <2>1. owed' \in Seq(Nat)
    <3>1. owed' = Append(owed, spoken) \/ owed' = owed
      BY <1>10 DEF SendsCreate
    <3>2. CASE owed' = Append(owed, spoken)
      BY <1>0, <3>2, AppendElems
    <3>3. CASE owed' = owed
      BY <1>0, <3>3
    <3> QED
      BY <3>1, <3>2, <3>3
  <2>2. StreamTypes'
    <3>1. ended \in Nat
      BY DEF Types, StreamTypes
    <3> QED
      BY <1>0, <1>2, <1>10, <2>1, <3>1 DEF SendsCreate
  <2>3. InboxTypes'
    <3>1. Refused(Create, FALSE) \in Wire
      BY ItemTypes
    <3>2. CASE inbox' = inbox
      BY <3>2, TypesKept
    <3>3. CASE inbox' = Append(inbox, Refused(Create, FALSE))
      BY <1>0, <3>1, <3>3, InboxAppended
    <3> QED
      BY <1>10, <3>2, <3>3 DEF SendsCreate
  <2> QED
    BY <1>4, <1>7, <1>10, <2>2, <2>3, ItemTypes DEF SendsCreate, Types
<1> QED
  BY <1>5, <1>6, <1>8, <1>9, <1>10, PumpSays

LEMMA TypesReceives ==
  ASSUME Types, backend = "realtime", backend' = backend, UNCHANGED geminiVars, RealtimeReceives
  PROVE  Types'
<1>0. inbox \in Seq(Wire) /\ outQ \in Seq(Item)
  BY DEF Types, StreamTypes, InboxTypes
<1>1. PICK e \in Wire : TakesResponse(e) \/ TakesSpeech(e) \/ TakesRefusal(e)
  BY ReceivesSays
<1>2. Takes(e)
  BY <1>1 DEF TakesResponse, TakesSpeech, TakesRefusal
<1>3. InboxTypes'
  BY <1>0, <1>2, TailElems DEF Takes, InboxTypes
<1>4. outQ' \in Seq(Item)
  <2>1. CASE TakesResponse(e)
    BY <1>0, <2>1, ItemTypes, AppendElems DEF TakesResponse
  <2>2. CASE TakesSpeech(e)
    BY <1>0, <2>2 DEF TakesSpeech
  <2>3. CASE TakesRefusal(e)
    BY <1>0, <2>3, ItemTypes, AppendElems DEF TakesRefusal
  <2> QED
    BY <1>1, <2>1, <2>2, <2>3
<1>5. receiver' \in {"reading", "done"}
  BY <1>1 DEF TakesResponse, TakesSpeech, TakesRefusal, Types, StreamTypes
<1>6. StreamTypes'
  BY <1>2, <1>4, <1>5 DEF Takes, Types, StreamTypes, provider, caller
<1>7. /\ eof' \in {"empty", "speech_pending", "manual_commit_sent", "manual_committed",
                   "auto_committed", "response_started", "response_done"}
      /\ responseDone' \in BOOLEAN
  BY <1>1 DEF TakesResponse, TakesSpeech, TakesRefusal, OnSpeech, OnCommitted, Types, RealtimeTypes
<1>8. RealtimeTypes'
  BY <1>2, <1>7, ReceivesSays DEF Takes, Types, RealtimeTypes
<1> QED
  BY <1>3, <1>6, <1>8, TypesKept DEF Types

LEMMA EnqueueTypes ==
  ASSUME normal \in Seq(Payloads), NEW p \in Payloads, Enqueue(p)
  PROVE  normal' \in Seq(Payloads) /\ Len(normal') <= QueueMax
<1>1. PICK n \in Nat : n = Len(normal)
  BY LenProperties
<1>2. n < QueueMax /\ normal' \in Seq(Payloads) /\ Len(normal') = n + 1
  BY <1>1, AppendElems DEF Enqueue, Room
<1> QED
  BY <1>2, ProviderAssumption

LEMMA TypesRealtime ==
  ASSUME Types, RealtimeStep, backend' = backend, NormalInv, ControlsInv
  PROVE  Types'
<1>0. backend = "realtime" /\ UNCHANGED geminiVars
  BY DEF RealtimeStep
<1>1. /\ normal \in Seq(Payloads) /\ groups \in Seq(Seq(Payloads)) /\ inbox \in Seq(Wire)
  BY <1>0 DEF Types, RealtimeTypes, InboxTypes
<1>2. GeminiTypes'
  BY <1>0, TypesKept
<1>3. CASE ServerStep
  <2>1. UNCHANGED <<conn, broken, tasks, caller, realtimeVars>> /\ ServerMoves
    BY <1>0, <1>3, ServerSays DEF ServerMoves
  <2>2. StreamTypes'
    BY <2>1, ServerTypes DEF Types
  <2>3. \E e \in Wire : inbox' = Append(inbox, e)
    <3>1. spoken \in Nat /\ active \in Nat /\ Len(answered) + 1 \in Nat
      BY LenProperties DEF Types, StreamTypes
    <3>2. /\ Event("speech", 0) \in Wire /\ Event("committed", spoken) \in Wire
          /\ Event("started", Len(answered) + 1) \in Wire
          /\ Event("audio", active) \in Wire /\ Event("done", active) \in Wire
      BY <3>1, ItemTypes, Zenon
    <3> QED
      BY <1>0, <1>3, <3>2, ServerSays DEF Receives
  <2>4. InboxTypes'
    BY <1>0, <1>1, <2>3, InboxAppended
  <2> QED
    BY <1>2, <2>1, <2>2, <2>4, TypesKept DEF Types
<1>4. CASE PumpFails
  <2>1. StreamTypes'
    BY <1>4 DEF PumpFails, Types, StreamTypes, provider, tasks, caller
  <2>2. RealtimeTypes'
    BY <1>4 DEF PumpFails, Types, RealtimeTypes, machine
  <2> QED
    BY <1>2, <1>4, <2>1, <2>2, TypesKept DEF PumpFails, Types
<1>5. CASE Settled
  <2>1. normal' \in Seq(Payloads) /\ Len(normal') <= QueueMax
    BY <1>1, <1>5, EnqueueTypes, ItemTypes DEF Settled, Types, RealtimeTypes
  <2>2. RealtimeTypes'
    BY <1>5, <2>1 DEF Settled, Enqueue, Types, RealtimeTypes
  <2>3. StreamTypes'
    BY <1>5 DEF Settled, Types, StreamTypes, provider, link, caller
  <2> QED
    BY <1>2, <1>5, <2>2, <2>3, TypesKept DEF Settled, Types, link
<1>6. CASE Acknowledged
  <2>1. normal' \in Seq(Payloads) /\ Len(normal') <= QueueMax
    BY <1>1, <1>6, EnqueueTypes, ItemTypes DEF Acknowledged, Create, Types, RealtimeTypes
  <2>2. RealtimeTypes'
    BY <1>6, <2>1 DEF Acknowledged, Enqueue, Types, RealtimeTypes, machine
  <2>3. StreamTypes'
    BY <1>6 DEF Acknowledged, Types, StreamTypes, provider, link, caller
  <2> QED
    BY <1>2, <1>6, <2>2, <2>3, TypesKept DEF Acknowledged, Types, link
<1>7. CASE \E timeout \in BOOLEAN : FinalResponse(timeout)
  <2>1. StreamTypes'
    <3>1. gaveUp' \in BOOLEAN
      BY <1>7 DEF FinalResponse, Types, StreamTypes, RealtimeTypes
    <3> QED
      BY <1>7, <3>1 DEF FinalResponse, Types, StreamTypes, provider, link, caller
  <2> QED
    BY <1>2, <1>7, <2>1, TypesKept DEF FinalResponse, Types, link
<1>8. CASE AppendAudio
  <2>1. normal' \in Seq(Payloads) /\ Len(normal') <= QueueMax
    BY <1>1, <1>8, EnqueueTypes, ItemTypes DEF AppendAudio, AppendPayload
  <2>2. RealtimeTypes'
    BY <1>8, <2>1 DEF AppendAudio, Enqueue, Types, RealtimeTypes, machine
  <2>3. StreamTypes'
    BY <1>8 DEF AppendAudio, Types, StreamTypes, provider, link, caller
  <2> QED
    BY <1>2, <1>8, <2>2, <2>3, TypesKept DEF AppendAudio, Types, link
<1>9. CASE FinishInput
  <2>1. encoder' \in {"done", "settle", "final"} /\ gaveUp' \in BOOLEAN
    BY <1>9 DEF FinishInput
  <2>2. StreamTypes'
    BY <1>9, <2>1 DEF FinishInput, Types, StreamTypes, provider, link, caller
  <2> QED
    BY <1>2, <1>9, <2>2, TypesKept DEF FinishInput, Types, link
<1>10. ASSUME NEW r \in Responses, RealtimeInterrupt(r) PROVE Types'
  <2>1. r \in Nat
    BY ResponsesAre
  <2>2. Cancel(r) \in Payloads /\ Truncate(r) \in Payloads
    BY <2>1, ItemTypes
  <2>3. <<Cancel(r)>> \in Seq(Payloads) /\ <<Cancel(r)>> \o <<Truncate(r)>> \in Seq(Payloads)
        /\ <<Cancel(r)>> \o <<>> \in Seq(Payloads)
    BY <2>2
  <2>4. groups' \in Seq(Seq(Payloads))
    <3>1. CASE yielded["audio"][r] > 0
      BY <1>1, <1>10, <2>3, <3>1, AppendElems DEF RealtimeInterrupt, Cancel, Truncate
    <3>2. CASE ~(yielded["audio"][r] > 0)
      BY <1>1, <1>10, <2>3, <3>2, AppendElems DEF RealtimeInterrupt, Cancel, Truncate
    <3> QED
      BY <3>1, <3>2
  <2>5. RealtimeTypes'
    BY <1>10, <2>4 DEF RealtimeInterrupt, Types, RealtimeTypes, machine
  <2>6. StreamTypes'
    BY <1>10 DEF RealtimeInterrupt, Types, StreamTypes, provider, link, tasks
  <2> QED
    BY <1>2, <1>10, <2>5, <2>6, TypesKept DEF RealtimeInterrupt, Types, link
<1>11. CASE RealtimeReceives
  BY <1>0, <1>11, TypesReceives
<1>12. CASE PumpSends
  BY <1>0, <1>12, TypesPump
<1> QED
  BY <1>3, <1>4, <1>5, <1>6, <1>7, <1>8, <1>9, <1>10, <1>11, <1>12 DEF RealtimeStep, RealtimeTasks

---------------------------------------------------------------------------
(* What the receiver of Gemini takes. *)

(* A message m is taken for turn t, which it opens if none is open.        *)
GeminiTakes(m, t) ==
  /\ receiver = "reading" /\ inbox # <<>> /\ inbox[1] = m /\ inbox' = Tail(inbox)
  /\ t = IF turn = 0 THEN turnCount + 1 ELSE turn
  /\ turn' = (IF m.complete THEN 0 ELSE t)
  /\ turnCount' = IF turn = 0 THEN t ELSE turnCount
  /\ UNCHANGED <<provider, conn, broken, encoder, appended, gaveUp, receiver, caller, said>>

(* The events it maps a message to, one after the other.                   *)
Announces(q, t) == q = IF turn = 0 THEN Append(outQ, Event("started", t)) ELSE outQ
Voices(q, p, m, t) ==
  q = IF m.audio /\ t \notin abandoned THEN Append(p, Event("audio", t)) ELSE p
Finishes(q, p, m, t) ==
  q = IF ~(turn # 0 /\ doneEmitted) /\ (m.interrupted \/ m.complete)
        THEN Append(p, Event("done", t)) ELSE p

(* Every message is mapped by these steps, in this order.                  *)
LEMMA GeminiReceivesSays ==
  ASSUME Types, backend = "gemini", GeminiReceives
  PROVE  \E m \in Message, t \in Nat, p \in Seq(Item), q \in Seq(Item) :
           /\ GeminiTakes(m, t)
           /\ Announces(p, t) /\ Voices(q, p, m, t) /\ Finishes(outQ', q, m, t)
           /\ outQ' \in Seq(Item)
           /\ doneEmitted' = (~m.complete /\ ((turn # 0 /\ doneEmitted) \/ m.interrupted))
           /\ turnStarted' = ~m.complete /\ turnFinished' = m.complete
           /\ abandoned' = IF m.complete THEN abandoned \ {t} ELSE abandoned
<1>0. /\ inbox \in Seq(Message) /\ outQ \in Seq(Item) /\ turn \in Nat /\ turnCount \in Nat
      /\ doneEmitted \in BOOLEAN
  BY DEF Types, StreamTypes, InboxTypes, GeminiTypes
<1>1. receiver = "reading" /\ inbox # <<>> /\ inbox' = Tail(inbox)
  BY DEF GeminiReceives, ReceiverFree
<1>2. PICK m \in Message : m = Head(inbox) /\ m = inbox[1]
  BY <1>0, <1>1, TailElems
<1>3. PICK t \in Nat : t = IF turn = 0 THEN turnCount + 1 ELSE turn
  BY <1>0
<1>m. /\ m.audio \in BOOLEAN /\ m.interrupted \in BOOLEAN /\ m.complete \in BOOLEAN
  BY DEF Message
<1> PICK done : done = DoneEvent(t, m)
  OBVIOUS
<1>4. done = IF ~(turn # 0 /\ doneEmitted) /\ (m.interrupted \/ m.complete)
               THEN <<Event("done", t)>> ELSE <<>>
  BY <1>m DEF DoneEvent
<1>5. /\ outQ' = outQ \o Opening \o (IF m.audio /\ ~Dropped(t) THEN <<Event("audio", t)>> ELSE <<>>) \o done
      /\ turn' = (IF m.complete THEN 0 ELSE t)
      /\ turnCount' = IF turn = 0 THEN t ELSE turnCount
      /\ doneEmitted' = (~m.complete /\ (done # <<>> \/ (turn # 0 /\ doneEmitted)))
      /\ turnStarted' = ~m.complete
      /\ turnFinished' = m.complete
      /\ abandoned' = IF m.complete THEN abandoned \ {t} ELSE abandoned
  BY <1>2, <1>3 DEF GeminiReceives, Completes
<1>6. UNCHANGED <<provider, conn, broken, encoder, appended, gaveUp, receiver, caller, said>>
  BY DEF GeminiReceives
<1>7. GeminiTakes(m, t)
  BY <1>1, <1>2, <1>3, <1>5, <1>6 DEF GeminiTakes
<1>8. done # <<>> <=> ~(turn # 0 /\ doneEmitted) /\ (m.interrupted \/ m.complete)
  <2>1. \A x : <<x>> # <<>>
    OBVIOUS
  <2> QED
    BY <1>4, <2>1
<1>9. doneEmitted' = (~m.complete /\ ((turn # 0 /\ doneEmitted) \/ m.interrupted))
  BY <1>5, <1>8, <1>m, <1>0
<1>10. Event("started", t) \in Item /\ Event("audio", t) \in Item /\ Event("done", t) \in Item
  BY ItemTypes
<1>11. PICK p \in Seq(Item) : Announces(p, t) /\ p = outQ \o Opening
  <2>1. CASE turn = 0
    <3>1. Opening = <<Event("started", t)>>
      BY <1>3, <2>1 DEF Opening
    <3>2. outQ \o <<Event("started", t)>> = Append(outQ, Event("started", t))
      BY <1>0, <1>10, AppendElems
    <3> QED
      BY <1>0, <1>10, <2>1, <3>1, <3>2, AppendElems DEF Announces
  <2>2. CASE turn # 0
    <3>1. Opening = <<>> /\ outQ \o <<>> = outQ
      BY <1>0, <2>2 DEF Opening
    <3> QED
      BY <1>0, <2>2, <3>1 DEF Announces
  <2> QED
    BY <2>1, <2>2
<1>12. PICK q \in Seq(Item) :
         /\ Voices(q, p, m, t)
         /\ q = p \o (IF m.audio /\ ~Dropped(t) THEN <<Event("audio", t)>> ELSE <<>>)
  <2>1. CASE m.audio /\ t \notin abandoned
    <3>1. p \o <<Event("audio", t)>> = Append(p, Event("audio", t))
      BY <1>10, AppendElems
    <3> QED
      BY <1>10, <2>1, <3>1, AppendElems DEF Voices, Dropped
  <2>2. CASE ~(m.audio /\ t \notin abandoned)
    <3>1. p \o <<>> = p
      OBVIOUS
    <3> QED
      BY <2>2, <3>1 DEF Voices, Dropped
  <2> QED
    BY <2>1, <2>2
<1>13. outQ' = q \o done
  BY <1>5, <1>11, <1>12
<1>14. Finishes(outQ', q, m, t) /\ outQ' \in Seq(Item)
  <2>1. CASE done = <<>>
    <3>1. q \o <<>> = q
      OBVIOUS
    <3> QED
      BY <1>8, <1>13, <2>1, <3>1 DEF Finishes
  <2>2. CASE done # <<>>
    <3>1. done = <<Event("done", t)>>
      BY <1>4, <2>2
    <3>2. q \o <<Event("done", t)>> = Append(q, Event("done", t)) /\ Append(q, Event("done", t)) \in Seq(Item)
      BY <1>10, AppendElems
    <3> QED
      BY <1>8, <1>13, <2>2, <3>1, <3>2 DEF Finishes
  <2> QED
    BY <2>1, <2>2
<1> QED
  BY <1>5, <1>7, <1>9, <1>11, <1>12, <1>14

LEMMA TypesGemini ==
  ASSUME Types, GeminiStep, backend' = backend
  PROVE  Types'
<1>0. backend = "gemini" /\ UNCHANGED realtimeVars
  BY DEF GeminiStep
<1>1. RealtimeTypes'
  BY <1>0, TypesKept
<1>2. CASE GeminiReceives
  <2>1. PICK m \in Message, t \in Nat, p \in Seq(Item), q \in Seq(Item) :
           /\ GeminiTakes(m, t) /\ outQ' \in Seq(Item)
           /\ doneEmitted' = (~m.complete /\ ((turn # 0 /\ doneEmitted) \/ m.interrupted))
           /\ turnStarted' = ~m.complete /\ turnFinished' = m.complete
    BY <1>0, <1>2, GeminiReceivesSays
  <2>2. StreamTypes'
    BY <2>1 DEF GeminiTakes, Types, StreamTypes, provider, caller
  <2>3. InboxTypes'
    <3>1. inbox \in Seq(Message)
      BY <1>0 DEF Types, InboxTypes
    <3> QED
      BY <1>0, <2>1, <3>1, TailElems DEF GeminiTakes, InboxTypes
  <2>4. m.complete \in BOOLEAN /\ m.interrupted \in BOOLEAN
    BY DEF Message
  <2>5. GeminiTypes'
    BY <2>1, <2>4 DEF GeminiTakes, Types, GeminiTypes
  <2> QED
    BY <1>1, <2>2, <2>3, <2>5 DEF Types
<1>3. CASE \E elapsed \in BOOLEAN : TurnSettled(elapsed)
  <2>1. StreamTypes'
    <3>1. gaveUp' \in BOOLEAN
      BY <1>3 DEF TurnSettled, Types, StreamTypes, GeminiTypes
    <3> QED
      BY <1>3, <3>1 DEF TurnSettled, Types, StreamTypes, provider, link, caller
  <2> QED
    BY <1>1, <1>0, <1>3, <2>1, TypesKept DEF TurnSettled, Types, link
<1>4. CASE \E timeout \in BOOLEAN : FinalTurn(timeout)
  <2>1. StreamTypes'
    <3>1. gaveUp' \in BOOLEAN
      BY <1>4 DEF FinalTurn, Types, StreamTypes, GeminiTypes
    <3> QED
      BY <1>4, <3>1 DEF FinalTurn, Types, StreamTypes, provider, link, caller
  <2> QED
    BY <1>1, <1>0, <1>4, <2>1, TypesKept DEF FinalTurn, Types, link
<1>5. CASE GeminiServerStep
  <2>1. UNCHANGED <<conn, broken, tasks, caller, turns, abandoned>> /\ ServerMoves
    BY <1>0, <1>5, GeminiServerSays DEF ServerMoves
  <2>2. StreamTypes'
    BY <2>1, ServerTypes DEF Types
  <2>3. InboxTypes' /\ said' \in {"nothing", "some", "generated", "interrupted"}
    <3>1. inbox \in Seq(Message) /\ said \in {"nothing", "some", "generated", "interrupted"}
      BY <1>0 DEF Types, InboxTypes, GeminiTypes
    <3>2. CASE UNCHANGED <<inbox, said>>
      BY <1>0, <3>1, <3>2 DEF InboxTypes
    <3>3. ASSUME NEW m \in Message, Receives(m), SaysIs(m)
          PROVE  InboxTypes' /\ said' \in {"nothing", "some", "generated", "interrupted"}
      <4>1. inbox' \in Seq(Message)
        BY <3>1, <3>3, AppendElems DEF Receives
      <4> QED
        BY <1>0, <3>3, <4>1 DEF InboxTypes, SaysIs
    <3> QED
      BY <1>0, <1>5, <3>2, <3>3, GeminiServerSays
  <2>4. GeminiTypes'
    BY <2>1, <2>3 DEF Types, GeminiTypes, turns
  <2> QED
    BY <1>1, <2>2, <2>3, <2>4 DEF Types
<1>6. CASE SendAudio
  <2>1. StreamTypes'
    BY <1>6 DEF SendAudio, Types, StreamTypes, link, caller
  <2>2. GeminiTypes'
    BY <1>6 DEF SendAudio, Types, GeminiTypes, turns
  <2> QED
    BY <1>1, <1>0, <1>6, <2>1, <2>2, TypesKept DEF SendAudio, Types, link
<1>7. CASE SendFails
  <2>1. StreamTypes'
    BY <1>7 DEF SendFails, Types, StreamTypes, provider, caller
  <2> QED
    BY <1>1, <1>0, <1>7, <2>1, TypesKept DEF SendFails, Types
<1>8. CASE EndInput
  <2>1. encoder' \in {"done", "settle", "final"} /\ gaveUp' \in BOOLEAN
    BY <1>8 DEF EndInput, Types, StreamTypes
  <2>2. StreamTypes'
    BY <1>8, <2>1 DEF EndInput, Types, StreamTypes, provider, link, caller
  <2>3. GeminiTypes'
    BY <1>8 DEF EndInput, Types, GeminiTypes, turns
  <2> QED
    BY <1>1, <1>0, <1>8, <2>2, <2>3, TypesKept DEF EndInput, Types, link
<1>9. ASSUME NEW r \in Responses, GeminiInterrupt(r) PROVE Types'
  <2>1. StreamTypes'
    BY <1>9 DEF GeminiInterrupt, Types, StreamTypes, provider, link, tasks
  <2>2. GeminiTypes'
    BY <1>9 DEF GeminiInterrupt, Types, GeminiTypes, turns
  <2> QED
    BY <1>1, <1>0, <1>9, <2>1, <2>2, TypesKept DEF GeminiInterrupt, Types, link
<1> QED
  BY <1>2, <1>3, <1>4, <1>5, <1>6, <1>7, <1>8, <1>9 DEF GeminiStep, GeminiTasks

LEMMA TypesNext ==
  ASSUME Types, backend = "realtime" => NormalInv /\ ControlsInv, [Next]_vars
  PROVE  Types'
<1>1. CASE UNCHANGED vars
  BY <1>1, TypesIdle
<1>2. CASE Next
  <2>1. backend' = backend
    BY <1>2 DEF Next
  <2>2. CASE RealtimeStep
    BY <2>1, <2>2, TypesRealtime DEF RealtimeStep
  <2> QED
    BY <1>2, <2>1, <2>2, TypesStream, TypesGemini DEF Next
<1> QED
  BY <1>1, <1>2

---------------------------------------------------------------------------
(* Turns. *)

(* The turns that are answered and those that are to be, as one sequence.  *)
LEMMA DueIs ==
  ASSUME StreamTypes
  PROVE  /\ Due \in Seq(Nat) /\ Len(Due) = Len(answered) + Len(owed)
         /\ Len(Due) \in Nat /\ Len(answered) \in Nat /\ Len(owed) \in Nat
         /\ \A i \in 1..Len(answered) : i \in 1..Len(Due) /\ Due[i] = answered[i]
<1>1. answered \in Seq(Nat) /\ owed \in Seq(Nat)
  BY DEF StreamTypes
<1>2. Len(answered) \in Nat /\ Len(owed) \in Nat
  BY <1>1, LenProperties
<1>3. /\ Due \in Seq(Nat) /\ Len(Due) = Len(answered) + Len(owed)
      /\ \A i \in 1..Len(answered) + Len(owed) :
           Due[i] = IF i <= Len(answered) THEN answered[i] ELSE owed[i - Len(answered)]
  BY <1>1, ConcatProperties DEF Due
<1> QED
  BY <1>2, <1>3

(* The server owes one more answer, or begins with the next one.           *)
LEMMA DueGrows ==
  ASSUME StreamTypes, NEW x \in Nat, answered' = answered, owed' = Append(owed, x)
  PROVE  Due' = Append(Due, x)
<1>1. answered \in Seq(Nat) /\ owed \in Seq(Nat)
  BY DEF StreamTypes
<1>2. Append(owed, x) = owed \o <<x>> /\ <<x>> \in Seq(Nat)
  BY <1>1, AppendElems
<1>3. (answered \o owed) \o <<x>> = answered \o (owed \o <<x>>)
  BY <1>1, <1>2, ConcatAssociative
<1>4. Due \o <<x>> = Append(Due, x)
  BY DueIs, AppendElems
<1> QED
  BY <1>2, <1>3, <1>4 DEF Due

LEMMA ConcatOne ==
  ASSUME NEW a \in Seq(Nat), NEW h \in Nat, NEW t \in Seq(Nat)
  PROVE  (a \o <<h>>) \o t = a \o (<<h>> \o t)
<1>1. <<h>> \in Seq(Nat)
  OBVIOUS
<1> QED
  BY <1>1, ConcatAssociative, SMTT(30)

LEMMA DueStays ==
  ASSUME StreamTypes, owed # <<>>, answered' = Append(answered, Head(owed)), owed' = Tail(owed)
  PROVE  Due' = Due
<1>1. answered \in Seq(Nat) /\ owed \in Seq(Nat)
  BY DEF StreamTypes
<1> PICK h \in Nat : h = Head(owed)
  BY <1>1, TailElems
<1> PICK t \in Seq(Nat) : t = Tail(owed)
  BY <1>1, TailElems
<1>2. <<h>> \in Seq(Nat) /\ answered \o <<h>> = Append(answered, h)
  BY <1>1, AppendElems
<1>3. <<h>> \o t = owed
  <2>1. /\ <<h>> \o t \in Seq(Nat) /\ Len(<<h>>) = 1 /\ Len(<<h>> \o t) = 1 + Len(t)
        /\ \A i \in 1..1 + Len(t) : (<<h>> \o t)[i] = IF i <= 1 THEN h ELSE t[i - 1]
    <3>1. Len(<<h>>) = 1 /\ <<h>>[1] = h
      OBVIOUS
    <3>2. /\ <<h>> \o t \in Seq(Nat) /\ Len(<<h>> \o t) = 1 + Len(t)
          /\ \A i \in 1..1 + Len(t) : (<<h>> \o t)[i] = IF i <= 1 THEN <<h>>[i] ELSE t[i - 1]
      BY <1>2, <3>1, ConcatProperties
    <3>3. Len(t) \in Nat
      BY LenProperties
    <3>4. \A i \in 1..1 + Len(t) : i <= 1 => i = 1
      BY <3>3
    <3> QED
      BY <3>1, <3>2, <3>4
  <2>2. /\ Len(t) = Len(owed) - 1 /\ Len(owed) >= 1 /\ owed[1] = h
        /\ \A i \in 1..Len(t) : t[i] = owed[i + 1]
    BY <1>1, TailElems
  <2>3. PICK n \in Nat : n = Len(owed)
    BY <1>1, LenProperties
  <2>4. Len(<<h>> \o t) = Len(owed)
    BY <2>1, <2>2, <2>3
  <2>5. ASSUME NEW i \in 1..Len(owed) PROVE owed[i] = (<<h>> \o t)[i]
    <3>1. i \in 1..1 + Len(t)
      BY <2>2, <2>3
    <3>2. CASE i <= 1
      <4>1. i = 1
        BY <2>3, <3>2
      <4> QED
        BY <2>1, <2>2, <3>1, <4>1
    <3>3. CASE ~(i <= 1)
      <4>1. i - 1 \in 1..Len(t) /\ (i - 1) + 1 = i
        BY <2>2, <2>3, <3>3
      <4> QED
        BY <2>1, <2>2, <3>1, <3>3, <4>1
    <3> QED
      BY <3>2, <3>3
  <2> QED
    BY <1>1, <2>1, <2>4, <2>5, SeqEqual
<1>4. (answered \o <<h>>) \o t = answered \o (<<h>> \o t)
  BY <1>1, ConcatOne
<1> QED
  BY <1>2, <1>3, <1>4 DEF Due

(* A turn that is not there yet can be added.                              *)
LEMMA InjectiveAppend ==
  ASSUME NEW q \in Seq(Nat), NEW x \in Nat, IsInjective(q), x \notin Elems(q)
  PROVE  IsInjective(Append(q, x))
<1> PICK p : p = Append(q, x)
  OBVIOUS
<1>1. /\ p \in Seq(Nat) /\ Len(p) = Len(q) + 1 /\ p[Len(q) + 1] = x
      /\ \A i \in 1..Len(q) : p[i] = q[i]
  BY AppendElems
<1>2. DOMAIN p = 1..Len(p) /\ DOMAIN q = 1..Len(q) /\ Len(q) \in Nat
  BY <1>1, LenProperties
<1>3. \A i \in 1..Len(p) : i \in 1..Len(q) \/ i = Len(q) + 1
  BY <1>1, <1>2
<1>4. \A i \in 1..Len(q) : p[i] # x
  BY <1>1 DEF Elems
<1>5. \A i, j \in 1..Len(q) : q[i] = q[j] => i = j
  BY <1>2 DEF IsInjective
<1>6. ASSUME NEW i \in 1..Len(p), NEW j \in 1..Len(p), p[i] = p[j] PROVE i = j
  BY <1>1, <1>3, <1>4, <1>5, <1>6
<1> QED
  BY <1>2, <1>6 DEF IsInjective

(* The turns stay what they are.                                           *)
LEMMA TurnsKept ==
  ASSUME StreamTypes, TurnsInv, UNCHANGED <<spoken, owed, answered, backend>>,
         ended' = ended, active' \in {0, active},
         "mistaken" \in races => "mistaken" \in races',
         encoder \in {"final", "done"} =>
           encoder' \in {"final", "done"} /\ (Create \notin Elems(normal) => Create \notin Elems(normal)')
  PROVE  TurnsInv'
<1>1. Due' = Due
  BY DEF Due
<1>2. Elems(Due)' = Elems(Due)
  BY <1>1 DEF Elems
<1> QED
  BY <1>1, <1>2 DEF TurnsInv

(* The server answers each turn once, whatever it does.                    *)
LEMMA TurnsServer ==
  ASSUME StreamTypes, TurnsInv, ServerMoves, UNCHANGED <<races, encoder, normal, backend>>
  PROVE  TurnsInv'
<1>0. /\ spoken \in Nat /\ ended \in Nat /\ MaxTurns \in Nat
      /\ Due \in Seq(Nat) /\ Len(Due) \in Nat /\ answered \in Seq(Nat)
  BY DueIs, ResponsesAre DEF StreamTypes
<1>n. Elems(normal)' = Elems(normal)
  BY DEF Elems
<1>1. CASE ServerSpeech
  <2>1. Due' = Due /\ Elems(Due)' = Elems(Due)
    BY <1>1 DEF ServerSpeech, Due, Elems
  <2>2. spoken' = spoken + 1 /\ spoken = ended /\ spoken < MaxTurns /\ UNCHANGED <<ended, active, answered>>
    BY <1>1 DEF ServerSpeech
  <2>3. ended' <= spoken' /\ spoken' <= ended' + 1 /\ spoken' <= MaxTurns
    BY <1>0, <2>2
  <2> QED
    BY <1>n, <2>1, <2>2, <2>3 DEF TurnsInv
<1>2. CASE ServerOwes
  <2>1. /\ Due' = Append(Due, spoken) /\ spoken > ended /\ ended' = spoken
        /\ UNCHANGED <<spoken, active, answered>>
    BY <1>0, <1>2, DueGrows DEF ServerOwes
  <2>2. /\ Len(Due') = Len(Due) + 1 /\ Elems(Due)' = Elems(Due) \cup {spoken}
    <3>1. Elems(Append(Due, spoken)) = Elems(Due) \cup {spoken} /\ Len(Append(Due, spoken)) = Len(Due) + 1
      BY <1>0, AppendElems
    <3> QED
      BY <2>1, <3>1 DEF Elems
  <2>3. \A t \in Elems(Due) : 1 <= t /\ t <= ended
    BY DEF TurnsInv
  <2>4. spoken = ended + 1
    BY <1>0, <2>1 DEF TurnsInv
  <2>5. spoken \notin Elems(Due)
    BY <1>0, <2>3, <2>4
  <2>6. IsInjective(Due) => IsInjective(Due')
    BY <1>0, <2>1, <2>5, InjectiveAppend
  <2>7. \A t \in Elems(Due)' : 1 <= t /\ t <= ended'
    <3>1. Elems(Due) \subseteq Nat
      BY <1>0, ElemsIn
    <3> QED
      BY <1>0, <2>1, <2>2, <2>3, <2>4, <3>1
  <2>8. /\ Len(Due') <= ended' + 1
        /\ Len(Due') = ended' + 1 =>
             backend' = "realtime" /\ encoder' \in {"final", "done"} /\ Create \notin Elems(normal)'
             /\ ended' >= 1
    <3>1. Len(Due) <= ended + 1 /\ (Len(Due') = ended' + 1 => Len(Due) = ended + 1)
      BY <1>0, <2>1, <2>2, <2>4 DEF TurnsInv
    <3>2. ended' >= 1
      BY <1>0, <2>1, <2>4
    <3> QED
      BY <1>0, <1>n, <2>1, <2>2, <2>4, <3>1, <3>2 DEF TurnsInv
  <2>9. ended' <= spoken' /\ spoken' <= ended' + 1 /\ spoken' <= MaxTurns
    BY <1>0, <2>1 DEF TurnsInv
  <2> QED
    BY <2>1, <2>6, <2>7, <2>8, <2>9 DEF TurnsInv
<1>3. CASE ServerStarts
  <2>1. Due' = Due
    BY <1>3, DueStays DEF ServerStarts
  <2>2. active' = Len(answered) + 1 /\ answered' = Append(answered, Head(owed)) /\ UNCHANGED <<spoken, ended>>
    BY <1>3 DEF ServerStarts
  <2>3. Len(answered') = Len(answered) + 1
    <3>1. Head(owed) \in Nat
      BY <1>3, TailElems DEF ServerStarts, StreamTypes
    <3> QED
      BY <1>0, <2>2, <3>1, AppendElems
  <2>4. Elems(Due)' = Elems(Due)
    BY <2>1 DEF Elems
  <2> QED
    BY <1>n, <2>1, <2>2, <2>3, <2>4 DEF TurnsInv
<1>4. CASE ServerGoesOn \/ ServerEnds
  BY <1>n, <1>4, TurnsKept DEF ServerGoesOn, ServerEnds
<1> QED
  BY <1>1, <1>2, <1>3, <1>4 DEF ServerMoves

---------------------------------------------------------------------------
(* The manual commit of Realtime. *)

LEMMA PayloadsDiffer ==
  /\ AppendPayload # Commit /\ AppendPayload # Create /\ Commit # Create
  /\ \A r, p : Event("committed", r) # Event("speech", p)
BY DEF AppendPayload, Commit, Create, Payload, Event

(* Taking the head of the normal lane, and enqueueing at its end.          *)
LEMMA NormalSent ==
  ASSUME Types, NormalInv, NEW p \in {AppendPayload, Commit, Create}, SendsNormal(p)
  PROVE  /\ NormalInv' /\ p \in Elems(normal) /\ Elems(normal)' \subseteq Elems(normal)
         /\ Elems(normal) = {p} \cup Elems(normal)'
         /\ p = Commit => Elems(normal)' \subseteq {Create}
         /\ p = Create => Elems(normal)' = {} /\ Commit \notin Elems(normal)
<1>0. normal \in Seq(Payloads) /\ normal # <<>> /\ normal' = Tail(normal) /\ normal[1] = p
  BY DEF Types, RealtimeTypes, SendsNormal
<1> PICK q : q = Tail(normal)
  OBVIOUS
<1>1. /\ Len(q) = Len(normal) - 1 /\ Len(normal) >= 1 /\ q \in Seq(Payloads)
      /\ \A i \in 1..Len(q) : q[i] = normal[i + 1] /\ i + 1 \in 1..Len(normal)
      /\ p \in Elems(normal) /\ Elems(q) \subseteq Elems(normal)
      /\ Elems(normal) = {p} \cup Elems(q)
  BY <1>0, TailElems
<1>2. Len(normal) \in Nat /\ Len(q) \in Nat
  BY <1>0, <1>1, LenProperties
<1>3. \A i, j \in 1..Len(normal) :
        i < j => normal[i] = AppendPayload \/ (normal[i] = Commit /\ normal[j] = Create)
  BY DEF NormalInv
<1>4. \A i, j \in 1..Len(q) : i < j => q[i] = AppendPayload \/ (q[i] = Commit /\ q[j] = Create)
  <2> SUFFICES ASSUME NEW i \in 1..Len(q), NEW j \in 1..Len(q), i < j
               PROVE  q[i] = AppendPayload \/ (q[i] = Commit /\ q[j] = Create)
    OBVIOUS
  <2>1. i + 1 < j + 1 /\ i + 1 \in 1..Len(normal) /\ j + 1 \in 1..Len(normal)
    BY <1>1, <1>2
  <2> QED
    BY <1>1, <1>3, <2>1
<1>5. \A i \in 1..Len(q) : normal[1] = AppendPayload \/ (normal[1] = Commit /\ q[i] = Create)
  <2> SUFFICES ASSUME NEW i \in 1..Len(q)
               PROVE  normal[1] = AppendPayload \/ (normal[1] = Commit /\ q[i] = Create)
    OBVIOUS
  <2>1. 1 < i + 1 /\ 1 \in 1..Len(normal) /\ i + 1 \in 1..Len(normal) /\ q[i] = normal[i + 1]
    BY <1>1, <1>2
  <2> QED
    BY <1>3, <2>1
<1>6. p = Commit => Elems(q) \subseteq {Create}
  BY <1>0, <1>5, PayloadsDiffer DEF Elems
<1>7. p = Create => Elems(q) = {} /\ Commit \notin Elems(normal)
  BY <1>0, <1>1, <1>5, PayloadsDiffer DEF Elems
<1>8. Elems(normal)' = Elems(q) /\ normal' = q
  BY <1>0 DEF Elems
<1>9. NormalInv'
  BY <1>1, <1>4, <1>8 DEF NormalInv
<1> QED
  BY <1>1, <1>6, <1>7, <1>8, <1>9

LEMMA NormalEnqueued ==
  ASSUME Types, NormalInv, NEW p \in {AppendPayload, Commit, Create}, Enqueue(p),
         Create \notin Elems(normal), p # Create => Commit \notin Elems(normal)
  PROVE  NormalInv' /\ Elems(normal)' = Elems(normal) \cup {p}
<1>0. normal \in Seq(Payloads) /\ normal' = Append(normal, p) /\ p \in Payloads
  BY ItemTypes DEF Types, RealtimeTypes, Enqueue
<1> PICK q : q = Append(normal, p)
  OBVIOUS
<1>1. /\ Len(q) = Len(normal) + 1 /\ q[Len(normal) + 1] = p
      /\ \A i \in 1..Len(normal) : q[i] = normal[i]
      /\ Elems(q) = Elems(normal) \cup {p} /\ Len(normal) \in Nat
  BY <1>0, AppendElems, LenProperties
<1>2. /\ \A i, j \in 1..Len(normal) :
           i < j => normal[i] = AppendPayload \/ (normal[i] = Commit /\ normal[j] = Create)
      /\ Elems(normal) \subseteq {AppendPayload, Commit, Create}
  BY DEF NormalInv
<1>3. \A i \in 1..Len(normal) : normal[i] = AppendPayload \/ (normal[i] = Commit /\ p = Create)
  BY <1>2 DEF Elems
<1>4. ASSUME NEW i \in 1..Len(q), NEW j \in 1..Len(q), i < j
      PROVE  q[i] = AppendPayload \/ (q[i] = Commit /\ q[j] = Create)
  <2>1. i \in 1..Len(normal) /\ (j \in 1..Len(normal) \/ j = Len(normal) + 1)
    BY <1>1, <1>4
  <2> QED
    BY <1>1, <1>2, <1>3, <1>4, <2>1
<1>5. Elems(normal)' = Elems(q) /\ normal' = q
  BY <1>0 DEF Elems
<1> QED
  BY <1>1, <1>2, <1>4, <1>5 DEF NormalInv

(* An acknowledgement arrives, or is taken.                                *)
LEMMA SingleAppend ==
  ASSUME NEW S, NEW q \in Seq(S), NEW e \in S, Single(q),
         e # Event("committed", 0) \/ Event("committed", 0) \notin Elems(q)
  PROVE  Single(Append(q, e))
<1> PICK p : p = Append(q, e)
  OBVIOUS
<1>1. /\ Len(p) = Len(q) + 1 /\ p[Len(q) + 1] = e /\ \A i \in 1..Len(q) : p[i] = q[i]
      /\ Len(q) \in Nat
  BY AppendElems, LenProperties
<1>2. \A i \in 1..Len(q) : q[i] = Event("committed", 0) => e # Event("committed", 0)
  BY DEF Elems
<1>3. ASSUME NEW i \in 1..Len(p), NEW j \in 1..Len(p),
             p[i] = Event("committed", 0) /\ p[j] = Event("committed", 0)
      PROVE  i = j
  <2>1. (i \in 1..Len(q) \/ i = Len(q) + 1) /\ (j \in 1..Len(q) \/ j = Len(q) + 1)
    BY <1>1
  <2> QED
    BY <1>1, <1>2, <1>3, <2>1 DEF Single
<1> QED
  BY <1>3 DEF Single

LEMMA SingleTail ==
  ASSUME NEW S, NEW q \in Seq(S), q # <<>>, Single(q)
  PROVE  /\ Single(Tail(q))
         /\ q[1] = Event("committed", 0) => Event("committed", 0) \notin Elems(Tail(q))
<1> PICK p : p = Tail(q)
  OBVIOUS
<1>1. /\ Len(p) = Len(q) - 1 /\ Len(q) >= 1 /\ Len(q) \in Nat
      /\ \A i \in 1..Len(p) : p[i] = q[i + 1] /\ i + 1 \in 1..Len(q)
  BY TailElems, LenProperties
<1>2. ASSUME NEW i \in 1..Len(p), NEW j \in 1..Len(p),
             p[i] = Event("committed", 0) /\ p[j] = Event("committed", 0)
      PROVE  i = j
  <2>1. i + 1 = j + 1
    BY <1>1, <1>2 DEF Single
  <2> QED
    BY <2>1
<1>3. ASSUME q[1] = Event("committed", 0), NEW i \in 1..Len(p), p[i] = Event("committed", 0)
      PROVE  FALSE
  <2>1. 1 \in 1..Len(q) /\ i + 1 \in 1..Len(q) /\ q[i + 1] = Event("committed", 0)
    BY <1>1, <1>3
  <2>2. 1 = i + 1
    BY <1>3, <2>1 DEF Single
  <2> QED
    BY <2>2
<1> QED
  BY <1>2, <1>3 DEF Single, Elems

---------------------------------------------------------------------------
(* The stream itself. *)

(* The caller gets an event, or the stream is over for it.                 *)
Yields(e) ==
  /\ stream = "open" /\ outQ # <<>> /\ outQ[1] = e /\ e \in Item /\ e.kind \in Kinds
  /\ outQ' = Tail(outQ)
  /\ yielded' = [yielded EXCEPT ![e.kind][e.resp] = @ + 1]
  /\ UNCHANGED <<link, encoder, receiver, closing, stream>>

Leaves ==
  /\ stream = "open" /\ stream' \in {"returned", "raised"}
  /\ stream' = "raised" => (\E e \in Elems(outQ) : e.kind = "failure") \/ encoder = "failed" \/ pump = "failed"
  /\ conn' = IF conn = "open" THEN "closed" ELSE conn
  /\ receiver' = "done" /\ inbox' = <<>> /\ outQ' = <<>>
  /\ UNCHANGED <<broken, encoder, yielded>>

(* What no step of the stream does.                                        *)
StreamLeaves ==
  /\ UNCHANGED <<provider, realtimeVars, geminiVars, gaveUp, told>>
  /\ encoder' = encoder \/ (encoder = "audio" /\ encoder' = "failed")
  /\ inbox' = inbox \/ inbox' = <<>>

(* Every step common to both adapters is one of these.                     *)
LEMMA StreamSays ==
  ASSUME Types, StreamStep
  PROVE  /\ StreamLeaves
         /\ \/ \E e \in Item : Yields(e)
            \/ Leaves
            \/ ReceiverEnds \/ CloseAtEnd \/ EncoderFails
            \/ \E how \in {"hungup", "lost"} : ConnectionBreaks(how)
<1>0. UNCHANGED <<realtimeVars, geminiVars>>
  BY DEF StreamStep
<1>1. CASE Take
  <2>1. outQ \in Seq(Item) /\ outQ # <<>> /\ stream = "open"
    BY <1>1 DEF Take, Types, StreamTypes
  <2>2. PICK e \in Item : e = Head(outQ) /\ outQ[1] = e /\ e \in Elems(outQ)
    BY <2>1, TailElems
  <2>3. CASE /\ e.kind \in Kinds
             /\ outQ' = Tail(outQ)
             /\ yielded' = [yielded EXCEPT ![e.kind][e.resp] = @ + 1]
             /\ UNCHANGED <<provider, link, encoder, appended, gaveUp, receiver, closing,
                            stream, told>>
    <3>1. Yields(e)
      BY <2>1, <2>2, <2>3 DEF Yields
    <3> QED
      BY <1>0, <2>3, <3>1 DEF StreamLeaves, link
  <2>4. CASE /\ e.kind \in {"end", "failure"} /\ UNCHANGED yielded
             /\ \/ e.kind = "end" /\ Leave("returned")
                \/ e.kind = "failure" /\ Leave("raised")
    <3>2. stream' = "raised" => e.kind = "failure"
      BY <2>4 DEF Leave
    <3>3. stream' = "raised" => \E x \in Elems(outQ) : x.kind = "failure"
      BY <2>2, <3>2
    <3>4. Leaves
      BY <2>1, <2>4, <3>3 DEF Leave, Leaves
    <3> QED
      BY <1>0, <2>4, <3>4 DEF StreamLeaves, Leave
  <2> QED
    BY <1>1, <2>2, <2>3, <2>4 DEF Take
<1>2. CASE TaskFailed(encoder = "failed" \/ pump = "failed")
  <2>1. Leaves
    BY <1>2 DEF TaskFailed, Leave, Leaves
  <2> QED
    BY <1>0, <1>2, <2>1 DEF StreamLeaves, TaskFailed, Leave
<1>3. CASE ReceiverEnds
  BY <1>0, <1>3 DEF StreamLeaves, ReceiverEnds, link, caller
<1>4. CASE CloseAtEnd
  BY <1>0, <1>4 DEF StreamLeaves, CloseAtEnd, tasks
<1>5. CASE EncoderFails
  BY <1>0, <1>5 DEF StreamLeaves, EncoderFails, caller
<1>6. ASSUME NEW how \in {"hungup", "lost"}, ConnectionBreaks(how) PROVE StreamLeaves
  BY <1>0, <1>6 DEF StreamLeaves, ConnectionBreaks, tasks, caller
<1> QED
  BY <1>1, <1>2, <1>3, <1>4, <1>5, <1>6 DEF StreamStep, StreamTasks

---------------------------------------------------------------------------
(* A stream that is over, and why it is. *)

LEMMA OverKept ==
  ASSUME OverInv, UNCHANGED <<stream, yielded, conn>>, told' = told,
         receiver' = receiver \/ receiver' = "done"
  PROVE  OverInv'
BY DEF OverInv

LEMMA OverStream ==
  ASSUME Types, OverInv, StreamStep
  PROVE  OverInv'
<1>1. told' = told
  BY StreamSays DEF StreamLeaves
<1>2. told \subseteq Responses /\ yielded \in [Kinds -> [Responses -> Nat]]
  BY DEF Types, StreamTypes
<1>3. ASSUME NEW e \in Item, Yields(e) PROVE OverInv'
  <2>1. ASSUME NEW r \in told PROVE yielded'["started"][r] > 0
    <3>1. yielded["started"][r] > 0 /\ yielded["started"][r] \in Nat /\ "started" \in Kinds
      BY <1>2, <2>1, ItemTypes DEF OverInv
    <3>2. CASE e.kind = "started" /\ e.resp = r
      <4>1. yielded'["started"][r] = yielded["started"][r] + 1
        BY <1>2, <1>3, <2>1, <3>1, <3>2 DEF Yields
      <4> QED
        BY <3>1, <4>1
    <3>3. CASE e.kind # "started" \/ e.resp # r
      <4>1. yielded'["started"][r] = yielded["started"][r]
        BY <1>2, <1>3, <2>1, <3>1, <3>3 DEF Yields
      <4> QED
        BY <3>1, <4>1
    <3> QED
      BY <3>2, <3>3
  <2> QED
    BY <1>1, <1>3, <2>1 DEF Yields, OverInv
<1>4. CASE Leaves
  BY <1>1, <1>4 DEF Leaves, OverInv
<1>5. CASE ReceiverEnds
  BY <1>1, <1>5 DEF ReceiverEnds, OverInv, link, caller
<1>6. CASE CloseAtEnd
  BY <1>1, <1>6 DEF CloseAtEnd, OverInv, tasks
<1>7. CASE EncoderFails
  BY <1>1, <1>7 DEF EncoderFails, OverInv, caller
<1>8. ASSUME NEW how \in {"hungup", "lost"}, ConnectionBreaks(how) PROVE OverInv'
  BY <1>1, <1>8 DEF ConnectionBreaks, OverInv, tasks, caller
<1> QED
  BY <1>3, <1>4, <1>5, <1>6, <1>7, <1>8, StreamSays

(* An interruption is told of a response that was announced.               *)
LEMMA OverTold ==
  ASSUME OverInv, NEW r \in Responses, MayInterrupt(r), told' = told \cup {r},
         UNCHANGED <<stream, yielded, conn, receiver>>
  PROVE  OverInv'
BY DEF OverInv, MayInterrupt

LEMMA CauseKept ==
  ASSUME CauseInv, broken => broken', races \subseteq races',
         encoder = "done" => encoder' = "done", UNCHANGED <<pump, conn, closing, stream>>,
         encoder' = "failed" => encoder = "failed" \/ broken',
         (\E e \in Elems(outQ)' : e.kind = "failure") =>
           (\E e \in Elems(outQ) : e.kind = "failure") \/ broken' \/ races' # {}
  PROVE  CauseInv'
BY DEF CauseInv, RaisesForCause

(* Failures of the stream have their cause.                                *)
LEMMA CauseStream ==
  ASSUME Types, OverInv, CauseInv, StreamStep
  PROVE  CauseInv'
<1>0. /\ UNCHANGED <<races, pump>>
      /\ encoder' = encoder \/ (encoder = "audio" /\ encoder' = "failed")
  BY StreamSays DEF StreamLeaves, realtimeVars, outbound
<1>1. outQ \in Seq(Item) /\ broken \in BOOLEAN
  BY DEF Types, StreamTypes
<1>2. ASSUME NEW e \in Item, Yields(e) PROVE CauseInv'
  <2>1. Elems(outQ)' \subseteq Elems(outQ)
    <3>1. Elems(Tail(outQ)) \subseteq Elems(outQ)
      BY <1>1, <1>2, TailElems DEF Yields
    <3> QED
      BY <1>2, <3>1 DEF Yields, Elems
  <2> QED
    BY <1>0, <1>2, <2>1, CauseKept DEF Yields, link
<1>3. CASE Leaves
  <2>1. Elems(outQ)' = {}
    BY <1>3, EmptyElems DEF Leaves, Elems
  <2>2. RaisesForCause'
    BY <1>0, <1>3 DEF Leaves, RaisesForCause, CauseInv
  <2> QED
    BY <1>0, <1>3, <2>1, <2>2 DEF Leaves, CauseInv
<1>4. CASE ReceiverEnds
  <2>1. AfterFailure \in Item /\ EndOfStream \in Item
    BY ItemTypes
  <2>2. outQ' = Append(outQ, IF conn = "lost" THEN AfterFailure ELSE EndOfStream)
    BY <1>4 DEF ReceiverEnds
  <2>3. Elems(outQ)' = Elems(outQ) \cup {IF conn = "lost" THEN AfterFailure ELSE EndOfStream}
    <3>1. Elems(Append(outQ, IF conn = "lost" THEN AfterFailure ELSE EndOfStream))
            = Elems(outQ) \cup {IF conn = "lost" THEN AfterFailure ELSE EndOfStream}
      BY <1>1, <2>1, AppendElems
    <3> QED
      BY <2>2, <3>1 DEF Elems
  <2>4. EndOfStream.kind # "failure"
    BY PayloadFacts DEF EndOfStream
  <2>5. conn = "lost" => broken
    BY DEF CauseInv
  <2> QED
    BY <1>0, <1>4, <2>3, <2>4, <2>5, CauseKept DEF ReceiverEnds, link, caller
<1>5. CASE CloseAtEnd
  <2>1. Elems(outQ)' = Elems(outQ)
    BY <1>5 DEF CloseAtEnd, tasks, Elems
  <2> QED
    BY <1>0, <1>5, <2>1 DEF CloseAtEnd, CauseInv, RaisesForCause, tasks
<1>6. CASE EncoderFails
  <2>1. Elems(outQ)' = Elems(outQ)
    BY <1>6 DEF EncoderFails, Elems
  <2> QED
    BY <1>0, <1>6, <2>1, CauseKept DEF EncoderFails, caller
<1>7. ASSUME NEW how \in {"hungup", "lost"}, ConnectionBreaks(how) PROVE CauseInv'
  <2>1. Elems(outQ)' = Elems(outQ)
    BY <1>7 DEF ConnectionBreaks, tasks, Elems
  <2> QED
    BY <1>0, <1>7, <2>1 DEF ConnectionBreaks, CauseInv, RaisesForCause, tasks, caller
<1> QED
  BY <1>2, <1>3, <1>4, <1>5, <1>6, <1>7, StreamSays

(* A failure is mapped only from a refusal that nothing asked for.         *)
LEMMA CauseReceives ==
  ASSUME Types, backend = "realtime", OverInv, CauseInv, RefusalsInv, RealtimeReceives
  PROVE  CauseInv'
<1>0. inbox \in Seq(Wire) /\ outQ \in Seq(Item)
  BY DEF Types, StreamTypes, InboxTypes
<1> PICK e \in Wire : TakesResponse(e) \/ TakesSpeech(e) \/ TakesRefusal(e)
  BY ReceivesSays
<1>1. Takes(e)
  BY DEF TakesResponse, TakesSpeech, TakesRefusal
<1>2. races \subseteq races'
  BY DEF TakesResponse, TakesSpeech, TakesRefusal
<1>3. UNCHANGED <<broken, encoder, pump, conn, closing, stream>>
  BY <1>1 DEF Takes, caller
<1>4. ASSUME NEW x \in Item, outQ' = Append(outQ, x), x.kind = "failure" => races # {}
      PROVE  CauseInv'
  <2>1. Elems(outQ)' = Elems(outQ) \cup {x}
    <3>1. Elems(Append(outQ, x)) = Elems(outQ) \cup {x}
      BY <1>0, AppendElems
    <3> QED
      BY <1>4, <3>1 DEF Elems
  <2> QED
    BY <1>2, <1>3, <1>4, <2>1, CauseKept
<1>5. CASE TakesResponse(e)
  <2>1. e \in Item /\ e.kind # "failure"
    BY <1>5, ItemTypes DEF TakesResponse, Kinds
  <2> QED
    BY <1>4, <1>5, <2>1 DEF TakesResponse
<1>6. CASE TakesSpeech(e) \/ (TakesRefusal(e) /\ outQ' = outQ)
  <2>1. Elems(outQ)' = Elems(outQ)
    BY <1>6 DEF TakesSpeech, Elems
  <2> QED
    BY <1>2, <1>3, <2>1, CauseKept
<1>7. CASE TakesRefusal(e) /\ ~Tolerated(e) /\ outQ' = Append(outQ, AfterFailure)
  <2>1. e \in Elems(inbox) /\ e.kind = "error"
    BY <1>0, <1>1, <1>7, TailElems DEF Takes, TakesRefusal
  <2>2. races # {}
    BY <1>7, <2>1 DEF RefusalsInv, Stands, Tolerated
  <2> QED
    BY <1>4, <1>7, <2>2, ItemTypes
<1> QED
  BY <1>5, <1>6, <1>7 DEF TakesRefusal

---------------------------------------------------------------------------
(* Which turns are answered. *)

(* A provider's answer that came stays, and the next is another one.       *)
LEMMA CompletedKept ==
  ASSUME StreamTypes, Completed, answered' = answered, active' \in {0, active}
  PROVE  Completed'
BY DEF Completed

LEMMA CompletedServer ==
  ASSUME StreamTypes, Completed, ServerMoves
  PROVE  Completed'
<1>0. answered \in Seq(Nat) /\ Len(answered) \in Nat
  BY DueIs DEF StreamTypes
<1>1. CASE ServerStarts
  <2>1. Head(owed) \in Nat
    BY <1>1, TailElems DEF ServerStarts, StreamTypes
  <2>2. Len(answered') = Len(answered) + 1
    BY <1>0, <1>1, <2>1, AppendElems DEF ServerStarts
  <2> QED
    BY <1>0, <2>2 DEF Completed
<1> QED
  BY <1>1, CompletedKept DEF ServerMoves, ServerSpeech, ServerOwes, ServerGoesOn, ServerEnds

(* The end of a response leaves an answer behind.                          *)
LEMMA EndCompletes ==
  ASSUME StreamTypes, TurnsInv, active # 0, answered' = answered, active' = 0
  PROVE  Completed'
<1>1. Len(answered) \in Nat
  BY DueIs
<1> QED
  BY <1>1 DEF Completed, TurnsInv

(* Realtime: the end of a response is known only when there was one.       *)
DoneIn(q) == \E i \in 1..Len(q) : q[i].kind = "done"

LEMMA DoneAppend ==
  ASSUME NEW S, NEW q \in Seq(S), NEW e \in S
  PROVE  DoneIn(Append(q, e)) => DoneIn(q) \/ e.kind = "done"
<1> PICK p : p = Append(q, e)
  OBVIOUS
<1>1. /\ Len(p) = Len(q) + 1 /\ p[Len(q) + 1] = e /\ Len(q) \in Nat
      /\ \A i \in 1..Len(q) : p[i] = q[i]
  BY AppendElems, LenProperties
<1>2. \A i \in 1..Len(p) : i \in 1..Len(q) \/ i = Len(q) + 1
  BY <1>1
<1> QED
  BY <1>1, <1>2 DEF DoneIn

LEMMA DoneTail ==
  ASSUME NEW S, NEW q \in Seq(S), q # <<>>
  PROVE  DoneIn(Tail(q)) \/ q[1].kind = "done" => DoneIn(q)
<1> PICK p : p = Tail(q)
  OBVIOUS
<1>1. /\ Len(q) >= 1 /\ Len(q) \in Nat
      /\ \A i \in 1..Len(p) : p[i] = q[i + 1] /\ i + 1 \in 1..Len(q)
  BY TailElems, LenProperties
<1>2. 1 \in 1..Len(q)
  BY <1>1
<1> QED
  BY <1>1, <1>2 DEF DoneIn

(* response_done is not set before a response ended: the server, the pump  *)
(* and the receiver.                                                       *)
LEMMA DoneServer ==
  ASSUME Types, backend = "realtime", TurnsInv, DoneInv, ServerStep
  PROVE  DoneInv' /\ (Completed => Completed')
<1>0. inbox \in Seq(Wire) /\ StreamTypes /\ MaxTurns \in Nat
  BY ResponsesAre DEF Types, InboxTypes
<1>1. UNCHANGED responseDone
  BY ServerSays DEF realtimeVars, machine
<1>2. ServerMoves
  BY ServerSays DEF ServerMoves
<1>3. Completed => Completed'
  BY <1>0, <1>2, CompletedServer
<1>4. ASSUME NEW e \in Wire, Receives(e), e.kind = "done" => Completed' PROVE DoneInv'
  <2>1. DoneIn(inbox)' => DoneIn(inbox) \/ e.kind = "done"
    <3>1. DoneIn(Append(inbox, e)) => DoneIn(inbox) \/ e.kind = "done"
      BY <1>0, DoneAppend
    <3> QED
      BY <1>4, <3>1 DEF Receives, DoneIn
  <2> QED
    BY <1>1, <1>3, <1>4, <2>1 DEF DoneInv, DoneIn
<1>5. spoken \in Nat /\ Len(answered) + 1 \in Nat /\ active \in Nat
  BY <1>0, DueIs DEF StreamTypes
<1>6. ASSUME NEW k \in {"speech", "committed", "started", "audio"}, NEW r \in Nat,
             Receives(Event(k, r))
      PROVE  DoneInv'
  <2>1. Event(k, r) \in Wire
    BY <1>6 DEF Event, Wire, Kinds
  <2>2. Event(k, r).kind # "done"
    BY PayloadFacts
  <2> QED
    BY <1>4, <1>6, <2>1, <2>2
<1>7. CASE ServerEnds /\ Receives(Event("done", active))
  <2>1. Completed'
    BY <1>0, <1>7, EndCompletes DEF ServerEnds
  <2>2. Event("done", active) \in Wire
    BY <1>5, ItemTypes
  <2> QED
    BY <1>3, <1>4, <1>7, <2>1, <2>2
<1> QED
  BY <1>3, <1>5, <1>6, <1>7, ServerSays

LEMMA DonePump ==
  ASSUME Types, backend = "realtime", TurnsInv, NormalInv, ControlsInv, DoneInv, PumpSends
  PROVE  DoneInv' /\ (Completed => Completed')
<1>0. inbox \in Seq(Wire) /\ StreamTypes /\ told \subseteq Nat /\ \A r \in told : r # 0
  BY ResponsesAre DEF Types, InboxTypes, StreamTypes
<1>1. UNCHANGED responseDone
  BY PumpSays DEF PumpLeaves, machine
<1>2. answered' = answered /\ active' \in {0, active}
  BY PumpSays DEF SendsTruncate, SendsCancel, SendsAppend, SendsCommit, SendsCreate, provider
<1>3. Completed => Completed'
  BY <1>0, <1>2, CompletedKept
<1>4. ASSUME inbox' = inbox PROVE DoneInv'
  BY <1>1, <1>3, <1>4 DEF DoneInv
<1>5. ASSUME NEW e \in Wire, inbox' = Append(inbox, e), e.kind = "done" => Completed' PROVE DoneInv'
  <2>1. DoneIn(inbox)' => DoneIn(inbox) \/ e.kind = "done"
    <3>1. DoneIn(Append(inbox, e)) => DoneIn(inbox) \/ e.kind = "done"
      BY <1>0, DoneAppend
    <3> QED
      BY <1>5, <3>1 DEF DoneIn
  <2> QED
    BY <1>1, <1>3, <1>5, <2>1 DEF DoneInv, DoneIn
<1>6. ASSUME NEW p \in Payloads, NEW b \in BOOLEAN, inbox' = Append(inbox, Refused(p, b))
      PROVE  DoneInv'
  <2>1. Refused(p, b) \in Wire /\ Refused(p, b).kind # "done"
    BY ItemTypes, PayloadFacts
  <2> QED
    BY <1>5, <1>6, <2>1
<1>7. ASSUME NEW r \in told, SendsCancel(r) PROVE DoneInv'
  <2>1. Event("done", r) \in Wire /\ Cancel(r) \in Payloads
    BY <1>0, <1>7, ItemTypes
  <2>2. CASE active = r /\ active' = 0 /\ inbox' = Append(inbox, Event("done", r))
    <3>1. Completed'
      BY <1>0, <1>2, <1>7, <2>2, EndCompletes
    <3> QED
      BY <1>5, <2>1, <2>2, <3>1
  <2>3. CASE inbox' = Append(inbox, Refused(Cancel(r), TRUE))
    BY <1>6, <2>1, <2>3
  <2> QED
    BY <1>7, <2>2, <2>3 DEF SendsCancel
<1>8. CASE SendsCommit
  <2>1. Commit \in Payloads /\ Event("committed", 0) \in Wire
    BY ItemTypes
  <2>2. Event("committed", 0).kind # "done"
    BY PayloadFacts
  <2> QED
    BY <1>3, <1>5, <1>6, <1>8, <2>1, <2>2 DEF SendsCommit
<1>9. CASE SendsCreate
  <2>1. Create \in Payloads
    BY ItemTypes
  <2> QED
    BY <1>3, <1>4, <1>6, <1>9, <2>1 DEF SendsCreate
<1>10. CASE SendsTruncate \/ SendsAppend
  BY <1>3, <1>4, <1>10 DEF SendsTruncate, SendsAppend
<1> QED
  BY <1>3, <1>7, <1>8, <1>9, <1>10, PumpSays

LEMMA DoneReceives ==
  ASSUME Types, backend = "realtime", DoneInv, RealtimeReceives
  PROVE  DoneInv' /\ (Completed => Completed')
<1>0. inbox \in Seq(Wire)
  BY DEF Types, InboxTypes
<1> PICK e \in Wire : TakesResponse(e) \/ TakesSpeech(e) \/ TakesRefusal(e)
  BY ReceivesSays
<1>1. Takes(e)
  BY DEF TakesResponse, TakesSpeech, TakesRefusal
<1>2. DoneIn(Tail(inbox)) \/ e.kind = "done" => DoneIn(inbox)
  BY <1>0, <1>1, DoneTail DEF Takes
<1>3. responseDone' => responseDone \/ e.kind = "done"
  BY DEF TakesResponse, TakesSpeech, TakesRefusal
<1>4. Completed' = Completed
  BY <1>1 DEF Takes, provider, Completed
<1> QED
  BY <1>1, <1>2, <1>3, <1>4 DEF Takes, DoneInv, DoneIn

LEMMA DoneKept ==
  ASSUME DoneInv, UNCHANGED <<answered, active, responseDone>>, inbox' = inbox \/ inbox' = <<>>
  PROVE  DoneInv'
<1>1. Completed' = Completed
  BY DEF Completed
<1>2. DoneIn(inbox)' => DoneIn(inbox)
  BY EmptyElems DEF DoneIn
<1> QED
  BY <1>1, <1>2 DEF DoneInv, DoneIn

---------------------------------------------------------------------------
(* The manual commit and the turns it answers. *)

(* Nothing is heard between the commit and the response it asks for.       *)
LEMMA CreateComesLast ==
  ASSUME PhaseInv, CommitInv, "mistaken" \notin races, CreateDue
  PROVE  AudioOver /\ Commit \notin Elems(normal)
BY DEF PhaseInv, CommitInv, CreateDue

(* A create is sent once, for a turn that has no answer yet.               *)
LEMMA TurnsPump ==
  ASSUME Types, backend = "realtime", backend' = backend, TurnsInv, NormalInv, ControlsInv,
         PhaseInv, CommitInv, PumpSends
  PROVE  TurnsInv'
<1>0. /\ StreamTypes /\ spoken \in Nat /\ ended \in Nat /\ Due \in Seq(Nat) /\ Len(Due) \in Nat
      /\ Elems(Due) \subseteq Nat
  BY DueIs, ElemsIn DEF Types, StreamTypes
<1>1. encoder' = encoder
  BY PumpSays DEF PumpLeaves, tasks
<1>2. CASE SendsTruncate \/ SendsAppend \/ \E r \in told : SendsCancel(r)
  <2>1. /\ UNCHANGED <<spoken, ended, owed, answered, races>> /\ active' \in {0, active}
    BY <1>2 DEF SendsTruncate, SendsAppend, SendsCancel, provider
  <2>2. Create \notin Elems(normal) => Create \notin Elems(normal)'
    <3>1. CASE SendsAppend
      BY <3>1, NormalSent DEF SendsAppend
    <3>2. CASE normal' = normal
      BY <3>2 DEF Elems
    <3> QED
      BY <1>2, <3>1, <3>2 DEF SendsTruncate, SendsCancel
  <2> QED
    BY <1>0, <1>1, <2>1, <2>2, TurnsKept
<1>3. CASE SendsCommit
  <2>1. Due' = Due /\ Elems(Due)' = Elems(Due)
    BY <1>3 DEF SendsCommit, Due, Elems
  <2>2. ended' = spoken /\ UNCHANGED <<spoken, active, answered, races>>
    BY <1>3 DEF SendsCommit
  <2>3. Elems(normal)' \subseteq Elems(normal)
    BY <1>3, NormalSent DEF SendsCommit
  <2>4. ended <= ended' /\ ended' \in Nat
    BY <1>0, <2>2 DEF TurnsInv
  <2>5. \A t \in Elems(Due)' : 1 <= t /\ t <= ended'
    BY <1>0, <2>1, <2>4 DEF TurnsInv
  <2>6. Len(Due)' <= ended' + 1 /\ (Len(Due)' = ended' + 1 => Len(Due) = ended + 1)
    <3>1. \A d, e, f \in Nat : d <= e + 1 /\ e <= f => d <= f + 1 /\ (d = f + 1 => d = e + 1)
      OBVIOUS
    <3>2. Len(Due)' = Len(Due) /\ Len(Due) <= ended + 1
      BY <2>1 DEF TurnsInv
    <3>3. Len(Due) <= ended' + 1 /\ (Len(Due) = ended' + 1 => Len(Due) = ended + 1)
      BY <1>0, <2>4, <3>1, <3>2
    <3> QED
      BY <3>2, <3>3
  <2>7. Len(Due)' = ended' + 1 =>
          backend' = "realtime" /\ encoder' \in {"final", "done"} /\ Create \notin Elems(normal)' /\ ended' >= 1
    BY <1>0, <1>1, <2>3, <2>4, <2>6 DEF TurnsInv
  <2>8. ended' <= spoken' /\ spoken' <= ended' + 1 /\ spoken' <= MaxTurns
    BY <1>0, <2>2 DEF TurnsInv
  <2> QED
    BY <2>1, <2>2, <2>5, <2>6, <2>7, <2>8 DEF TurnsInv
<1>4. CASE SendsCreate
  <2>1. /\ Create \in Elems(normal) /\ Elems(normal)' = {} /\ Commit \notin Elems(normal)
    BY <1>4, NormalSent DEF SendsCreate
  <2>2. encoder \in {"final", "done"} /\ ended >= 1 /\ ended = spoken
    BY <2>1 DEF PhaseInv, AudioOver
  <2>3. CASE active = 0 /\ owed' = Append(owed, spoken) /\ UNCHANGED <<inbox, races>>
    <3>1. UNCHANGED <<spoken, ended, active, answered, races>>
      BY <1>4, <2>3 DEF SendsCreate
    <3>2. Due' = Append(Due, spoken)
      BY <1>0, <2>3, <3>1, DueGrows
    <3>3. /\ Elems(Append(Due, spoken)) = Elems(Due) \cup {spoken}
          /\ Len(Append(Due, spoken)) = Len(Due) + 1
      BY <1>0, AppendElems
    <3>4. Elems(Due)' = Elems(Due) \cup {spoken} /\ Len(Due)' = Len(Due) + 1
      BY <3>2, <3>3 DEF Elems
    <3>5. Len(Due) <= ended
      BY <1>0, <2>1 DEF TurnsInv
    <3>6. "mistaken" \notin races => spoken \notin Elems(Due)
      BY <2>1 DEF CommitInv, CreateDue
    <3>7. "mistaken" \notin races' => IsInjective(Due')
      BY <1>0, <3>1, <3>2, <3>6, InjectiveAppend DEF TurnsInv
    <3>8. \A t \in Elems(Due)' : 1 <= t /\ t <= ended'
      BY <1>0, <2>2, <3>1, <3>4 DEF TurnsInv
    <3>9. Len(Due)' <= ended' + 1
      BY <1>0, <3>1, <3>4, <3>5
    <3> QED
      BY <1>1, <2>1, <2>2, <3>1, <3>7, <3>8, <3>9 DEF TurnsInv
  <2>4. CASE owed' = owed /\ races' = races \cup {"collided"}
    <3>1. UNCHANGED <<spoken, ended, active, answered>>
      BY <1>4 DEF SendsCreate
    <3> QED
      BY <1>0, <1>1, <2>1, <2>4, <3>1, TurnsKept
  <2> QED
    BY <1>4, <2>3, <2>4 DEF SendsCreate
<1> QED
  BY <1>2, <1>3, <1>4, PumpSays

(* What may change without a manual commit being the worse for it.         *)
CommittedIn(q) == {e \in Elems(q) : e.kind = "committed"}

LEMMA PhaseKept ==
  ASSUME PhaseInv, CommitInv, UNCHANGED <<unheard, spoken, ended, normal>>,
         Elems(Due)' = Elems(Due), races \subseteq races',
         \/ encoder' = encoder
         \/ encoder = "audio" /\ encoder' = "failed"
         \/ encoder = "final" /\ encoder' = "done",
         eof' = eof \/ eof' \in {"response_started", "response_done", "speech_pending"},
         CommittedIn(inbox)' \subseteq CommittedIn(inbox), Single(inbox)'
  PROVE  PhaseInv' /\ CommitInv'
<1>0. Event("committed", 0).kind = "committed"
  BY PayloadFacts
<1>1. Elems(normal)' = Elems(normal) /\ AudioOver' = AudioOver
  BY DEF Elems, AudioOver
<1>2. Event("committed", 0) \in Elems(inbox)' => Event("committed", 0) \in Elems(inbox)
  BY <1>0 DEF CommittedIn
<1>3. \A e \in Elems(inbox)' : e.kind = "committed" => e \in Elems(inbox)
  BY DEF CommittedIn
<1>4. CreateDue' => CreateDue
  BY <1>1, <1>2 DEF CreateDue
<1>5. PhaseInv'
  BY <1>1, <1>2, <1>3, <1>4 DEF PhaseInv
<1>6. CommitInv'
  BY <1>1, <1>2, <1>4 DEF CommitInv
<1> QED
  BY <1>5, <1>6

LEMMA CommittedAppend ==
  ASSUME NEW S, NEW q \in Seq(S), NEW e \in S, e.kind # "committed", Single(q)
  PROVE  CommittedIn(Append(q, e)) \subseteq CommittedIn(q) /\ Single(Append(q, e))
<1>1. Event("committed", 0).kind = "committed"
  BY PayloadFacts
<1>2. e # Event("committed", 0)
  BY <1>1
<1>3. Elems(Append(q, e)) = Elems(q) \cup {e}
  BY AppendElems
<1> QED
  BY <1>2, <1>3, SingleAppend DEF CommittedIn

LEMMA CommittedTail ==
  ASSUME NEW S, NEW q \in Seq(S), q # <<>>, Single(q)
  PROVE  CommittedIn(Tail(q)) \subseteq CommittedIn(q) /\ Single(Tail(q))
BY TailElems, SingleTail DEF CommittedIn

LEMMA PhaseStream ==
  ASSUME Types, PhaseInv, CommitInv, StreamStep
  PROVE  PhaseInv' /\ CommitInv'
<1>0. StreamLeaves
  BY StreamSays
<1>1. Elems(Due)' = Elems(Due) /\ UNCHANGED <<unheard, spoken, ended, normal, races, eof>>
  BY <1>0 DEF StreamLeaves, provider, realtimeVars, outbound, machine, Due, Elems
<1>2. CASE inbox' = inbox
  BY <1>0, <1>1, <1>2, PhaseKept DEF StreamLeaves, CommittedIn, Elems, Single, CommitInv
<1>3. CASE inbox' = <<>>
  <2>1. CommittedIn(inbox)' = {} /\ Single(inbox)'
    BY <1>3, EmptyElems DEF CommittedIn, Single, Elems
  <2> QED
    BY <1>0, <1>1, <2>1, PhaseKept DEF StreamLeaves
<1> QED
  BY <1>0, <1>2, <1>3 DEF StreamLeaves

(* The server acknowledges only a commit it was sent, so what it adds fits *)
(* the phase of the encoder.                                               *)
LEMMA PhaseServer ==
  ASSUME Types, backend = "realtime", PhaseInv, CommitInv, TurnsInv, ServerStep
  PROVE  PhaseInv' /\ CommitInv'
<1>0. inbox \in Seq(Wire) /\ StreamTypes /\ spoken \in Nat /\ ended \in Nat
      /\ active \in Nat /\ Len(answered) + 1 \in Nat /\ unheard \in Nat
  BY DueIs DEF Types, InboxTypes, StreamTypes
<1>1. UNCHANGED <<races, normal, encoder, eof>>
  BY ServerSays DEF realtimeVars, outbound, machine, tasks
<1>2. Single(inbox)
  BY DEF CommitInv
<1>3. ASSUME NEW k \in Kinds, NEW r \in Nat, Receives(Event(k, r)),
             UNCHANGED <<unheard, spoken, ended>>, Elems(Due)' = Elems(Due)
      PROVE  PhaseInv' /\ CommitInv'
  <2>1. Event(k, r) \in Wire /\ Event(k, r).kind # "committed"
    BY <1>3, ItemTypes, PayloadFacts DEF Kinds
  <2>2. CommittedIn(Append(inbox, Event(k, r))) \subseteq CommittedIn(inbox) /\ Single(Append(inbox, Event(k, r)))
    BY <1>0, <1>2, <2>1, CommittedAppend
  <2>3. CommittedIn(inbox)' \subseteq CommittedIn(inbox) /\ Single(inbox)'
    BY <1>3, <2>2 DEF Receives, CommittedIn, Elems, Single
  <2> QED
    BY <1>1, <1>3, <2>3, PhaseKept
<1>4. CASE ServerStarts /\ Receives(Event("started", Len(answered) + 1))
  <2>1. Due' = Due
    BY <1>0, <1>4, DueStays DEF ServerStarts
  <2> QED
    BY <1>0, <1>3, <1>4, <2>1, ItemTypes DEF ServerStarts, Elems
<1>5. CASE (ServerGoesOn /\ Receives(Event("audio", active))) \/ (ServerEnds /\ Receives(Event("done", active)))
  <2>1. Elems(Due)' = Elems(Due)
    BY <1>5 DEF ServerGoesOn, ServerEnds, Due, Elems
  <2> QED
    BY <1>0, <1>3, <1>5, <2>1, ItemTypes DEF ServerGoesOn, ServerEnds
(* While the VAD finds speech or its end, no create is due.                *)
<1>6. ASSUME ~AudioOver, ended' >= ended, ended' \in Nat,
             NEW e \in Wire, Receives(e), e # Event("committed", 0),
             e.kind = "committed" => ended' >= 1
      PROVE  PhaseInv' /\ CommitInv'
  <2>1. Elems(normal)' = Elems(normal)
    BY <1>1 DEF Elems
  <2>2. Elems(inbox)' = Elems(inbox) \cup {e}
    <3>1. Elems(Append(inbox, e)) = Elems(inbox) \cup {e}
      BY <1>0, AppendElems
    <3> QED
      BY <1>6, <3>1 DEF Receives, Elems
  <2>3. Event("committed", 0) \notin Elems(inbox)
    BY <1>6 DEF PhaseInv
  <2>4. Event("committed", 0) \notin Elems(inbox)'
    BY <1>6, <2>2, <2>3
  <2>5. CreateDue' => CreateDue
    BY <1>1, <2>1, <2>4 DEF CreateDue
  <2>6. Single(inbox)'
    <3>1. Single(Append(inbox, e))
      BY <1>0, <1>2, <1>6, SingleAppend
    <3> QED
      BY <1>6, <3>1 DEF Receives, Single
  <2>7. "mistaken" \notin races => ~CreateDue
    BY <1>6, CreateComesLast
  <2>8. CommitInv'
    BY <1>1, <2>1, <2>4, <2>5, <2>6, <2>7 DEF CommitInv, CreateDue
  <2>9. PhaseInv'
    BY <1>0, <1>1, <1>6, <2>1, <2>2, <2>4, <2>5 DEF PhaseInv
  <2> QED
    BY <2>8, <2>9
<1>7. CASE ServerSpeech /\ Receives(Event("speech", 0))
  <2>1. ~AudioOver /\ ended' = ended
    BY <1>0, <1>7 DEF ServerSpeech, AudioOver
  <2>2. Event("speech", 0) \in Wire /\ Event("speech", 0) # Event("committed", 0)
        /\ Event("speech", 0).kind # "committed"
    BY ItemTypes, PayloadFacts
  <2> QED
    BY <1>0, <1>6, <1>7, <2>1, <2>2
<1>8. CASE ServerOwes /\ Receives(Event("committed", spoken))
  <2>1. ~AudioOver /\ ended' >= ended /\ ended' >= 1 /\ ended' \in Nat /\ spoken # 0
    BY <1>0, <1>8 DEF ServerOwes, AudioOver
  <2>2. Event("committed", spoken) \in Wire /\ Event("committed", spoken) # Event("committed", 0)
    <3>1. Event("committed", spoken).resp = spoken /\ Event("committed", 0).resp = 0
      BY PayloadFacts
    <3> QED
      BY <1>0, <2>1, <3>1, ItemTypes
  <2> QED
    BY <1>6, <1>8, <2>1, <2>2
<1> QED
  BY <1>4, <1>5, <1>7, <1>8, ServerSays

(* What leaves the normal lane leaves room for what may follow it.         *)
LEMMA PhasePump ==
  ASSUME Types, backend = "realtime", TurnsInv, NormalInv, ControlsInv, PhaseInv, CommitInv,
         PumpSends
  PROVE  NormalInv' /\ PhaseInv' /\ CommitInv'
<1>0. /\ inbox \in Seq(Wire) /\ StreamTypes /\ spoken \in Nat /\ ended \in Nat /\ unheard \in Nat
      /\ Elems(Due) \subseteq Nat /\ told \subseteq Nat
  BY DueIs, ElemsIn, ResponsesAre DEF Types, InboxTypes, StreamTypes
<1>1. UNCHANGED <<encoder, eof>>
  BY PumpSays DEF PumpLeaves, tasks, machine
<1>2. Single(inbox)
  BY DEF CommitInv
<1>3. PICK c \in Wire : c = Event("committed", 0) /\ c.kind = "committed"
  BY ItemTypes, PayloadFacts
<1>4. ASSUME NEW e \in Wire, inbox' = Append(inbox, e), e.kind # "committed"
      PROVE  CommittedIn(inbox)' \subseteq CommittedIn(inbox) /\ Single(inbox)'
  <2>1. CommittedIn(Append(inbox, e)) \subseteq CommittedIn(inbox) /\ Single(Append(inbox, e))
    BY <1>0, <1>2, <1>4, CommittedAppend
  <2> QED
    BY <1>4, <2>1 DEF CommittedIn, Elems, Single
<1>5. ASSUME inbox' = inbox PROVE CommittedIn(inbox)' \subseteq CommittedIn(inbox) /\ Single(inbox)'
  BY <1>2, <1>5 DEF CommittedIn, Elems, Single
<1>6. CASE SendsTruncate \/ \E r \in told : SendsCancel(r)
  <2>1. UNCHANGED <<unheard, spoken, ended, owed, answered, normal, races>>
    BY <1>6 DEF SendsTruncate, SendsCancel, provider
  <2>2. CommittedIn(inbox)' \subseteq CommittedIn(inbox) /\ Single(inbox)'
    <3>1. CASE SendsTruncate
      BY <1>5, <3>1 DEF SendsTruncate
    <3>2. ASSUME NEW r \in told, SendsCancel(r)
          PROVE  CommittedIn(inbox)' \subseteq CommittedIn(inbox) /\ Single(inbox)'
      <4>1. /\ Event("done", r) \in Wire /\ Event("done", r).kind # "committed"
            /\ Refused(Cancel(r), TRUE) \in Wire /\ Refused(Cancel(r), TRUE).kind # "committed"
        BY <1>0, <3>2, ItemTypes, PayloadFacts
      <4> QED
        BY <1>4, <3>2, <4>1 DEF SendsCancel
    <3> QED
      BY <1>6, <3>1, <3>2
  <2>3. Elems(Due)' = Elems(Due) /\ NormalInv'
    BY <2>1 DEF Due, Elems, NormalInv
  <2> QED
    BY <1>1, <2>1, <2>2, <2>3, PhaseKept
<1>7. CASE SendsAppend
  <2>1. /\ NormalInv' /\ AppendPayload \in Elems(normal) /\ Elems(normal)' \subseteq Elems(normal)
        /\ Elems(normal) = {AppendPayload} \cup Elems(normal)'
    BY <1>7, NormalSent DEF SendsAppend
  <2>2. ~AudioOver
    BY <2>1 DEF AudioOver
  <2>3. UNCHANGED <<spoken, ended, owed, answered, inbox, races>>
    BY <1>7 DEF SendsAppend
  <2>4. Elems(Due)' = Elems(Due) /\ Elems(inbox)' = Elems(inbox) /\ Single(inbox)'
    BY <1>2, <2>3 DEF Due, Elems, Single
  <2>5. Commit \notin Elems(normal)' => Commit \notin Elems(normal)
    BY <2>1, PayloadsDiffer
  <2>6. CreateDue' => CreateDue
    BY <1>1, <2>1, <2>4 DEF CreateDue
  <2>7. "mistaken" \notin races' => ~CreateDue
    BY <2>2, <2>3, CreateComesLast
  <2>8. PhaseInv'
    BY <1>1, <2>1, <2>2, <2>3, <2>4, <2>5, <2>6 DEF PhaseInv
  <2>9. CommitInv'
    BY <2>4, <2>6, <2>7 DEF CommitInv, CreateDue
  <2> QED
    BY <2>1, <2>8, <2>9
<1>8. CASE SendsCommit
  <2>1. /\ NormalInv' /\ Commit \in Elems(normal) /\ Elems(normal)' \subseteq Elems(normal)
        /\ Elems(normal)' \subseteq {Create}
    BY <1>8, NormalSent DEF SendsCommit
  <2>2. Commit \notin Elems(normal)' /\ AppendPayload \notin Elems(normal)'
    BY <2>1, PayloadsDiffer
  <2>3. encoder \notin {"audio", "settle", "failed"}
    BY <2>1 DEF PhaseInv
  <2>4. ended' = spoken /\ unheard' = 0 /\ UNCHANGED <<spoken, owed, answered, races>>
    BY <1>8 DEF SendsCommit
  <2>5. AudioOver' /\ ended' >= ended /\ Elems(Due)' = Elems(Due)
    BY <1>0, <2>2, <2>4 DEF AudioOver, TurnsInv, Due, Elems
  <2>6. "mistaken" \notin races => ~CreateDue
    BY <2>1, CreateComesLast
  <2>7. c \notin Elems(inbox)
    BY <1>3, <2>1 DEF PhaseInv
  <2>8. PICK e \in Wire : inbox' = Append(inbox, e) /\ ((e = c /\ spoken > ended) \/ e.kind # "committed")
    <3>1. Refused(Commit, TRUE) \in Wire /\ Refused(Commit, TRUE).kind # "committed"
      BY ItemTypes, PayloadFacts
    <3> QED
      BY <1>3, <1>8, <3>1 DEF SendsCommit
  <2>9. Elems(inbox)' = Elems(inbox) \cup {e}
    <3>1. Elems(Append(inbox, e)) = Elems(inbox) \cup {e}
      BY <1>0, AppendElems
    <3> QED
      BY <2>8, <3>1 DEF Elems
  <2>10. Single(inbox)'
    <3>1. Single(Append(inbox, e))
      BY <1>0, <1>2, <1>3, <2>7, SingleAppend
    <3> QED
      BY <2>8, <3>1 DEF Single
  <2>11. spoken > ended => spoken \notin Elems(Due) /\ spoken >= 1
    BY <1>0 DEF TurnsInv
  <2>12. CreateDue' => CreateDue \/ (e = c /\ spoken > ended)
    BY <1>1, <1>3, <2>1, <2>8, <2>9 DEF CreateDue
  <2>13. PhaseInv'
    <3>1. \A x \in Elems(inbox)' : x.kind = "committed" => ended' >= 1
      BY <1>0, <2>4, <2>5, <2>8, <2>9, <2>11 DEF PhaseInv
    <3>2. Create \in Elems(normal)' => encoder' \in {"final", "done"} /\ ended' >= 1
      BY <1>0, <1>1, <2>1, <2>4, <2>5 DEF PhaseInv
    <3>3. eof' \in {"auto_committed", "manual_committed"} => ended' >= 1
      BY <1>0, <1>1, <2>4, <2>5 DEF PhaseInv
    <3> QED
      BY <1>1, <2>2, <2>3, <2>5, <3>1, <3>2, <3>3 DEF PhaseInv
  <2>14. CommitInv'
    <3>1. ASSUME "mistaken" \notin races'
          PROVE  ~(Create \in Elems(normal)' \/ (encoder' = "ack" /\ eof' = "manual_committed"))
      BY <1>1, <2>1, <2>4, <2>6, <3>1 DEF CreateDue
    <3>2. ASSUME "mistaken" \notin races', CreateDue' PROVE spoken' \notin Elems(Due)'
      BY <2>4, <2>5, <2>6, <2>11, <2>12, <3>2
    <3> QED
      BY <2>10, <3>1, <3>2 DEF CommitInv
  <2> QED
    BY <2>1, <2>13, <2>14
<1>9. CASE SendsCreate
  <2>1. NormalInv' /\ Create \in Elems(normal) /\ Elems(normal)' = {} /\ Commit \notin Elems(normal)
    BY <1>9, NormalSent DEF SendsCreate
  <2>2. encoder \in {"final", "done"} /\ AudioOver /\ AudioOver'
    <3>1. encoder \in {"final", "done"} /\ AudioOver
      BY <2>1 DEF PhaseInv
    <3> QED
      BY <1>9, <2>1, <3>1 DEF AudioOver, SendsCreate
  <2>3. UNCHANGED <<unheard, spoken, ended>> /\ races \subseteq races'
    BY <1>9 DEF SendsCreate
  <2>4. CommittedIn(inbox)' \subseteq CommittedIn(inbox) /\ Single(inbox)'
    <3>1. Refused(Create, FALSE) \in Wire /\ Refused(Create, FALSE).kind # "committed"
      BY ItemTypes, PayloadFacts
    <3> QED
      BY <1>4, <1>5, <1>9, <3>1 DEF SendsCreate
  <2>5. c \in Elems(inbox)' => c \in Elems(inbox)
    BY <1>3, <2>4 DEF CommittedIn
  <2>6. "mistaken" \notin races' => c \notin Elems(inbox)
    BY <1>3, <2>1, <2>3 DEF CommitInv
  <2>7. ASSUME "mistaken" \notin races' PROVE ~CreateDue'
    BY <1>1, <1>3, <2>1, <2>2, <2>5, <2>6, <2>7 DEF CreateDue
  <2>8. CommitInv'
    BY <2>4, <2>7 DEF CommitInv, CreateDue
  <2>9. \A x \in Elems(inbox)' : x.kind = "committed" => ended' >= 1
    BY <2>3, <2>4 DEF CommittedIn, PhaseInv
  <2>10. PhaseInv'
    BY <1>1, <2>1, <2>2, <2>3, <2>9 DEF PhaseInv
  <2> QED
    BY <2>1, <2>8, <2>10
<1> QED
  BY <1>6, <1>7, <1>8, <1>9, PumpSays

(* Taking the acknowledgement moves the encoder on, and is noticed once.   *)
LEMMA PhaseReceives ==
  ASSUME Types, backend = "realtime", PhaseInv, CommitInv, RealtimeReceives
  PROVE  PhaseInv' /\ CommitInv'
<1>0. inbox \in Seq(Wire)
  BY DEF Types, InboxTypes
<1> PICK e \in Wire : TakesResponse(e) \/ TakesSpeech(e) \/ TakesRefusal(e)
  BY ReceivesSays
<1>1. Takes(e)
  BY DEF TakesResponse, TakesSpeech, TakesRefusal
<1>2. UNCHANGED <<unheard, spoken, ended, normal, encoder>> /\ Elems(Due)' = Elems(Due)
  BY <1>1 DEF Takes, provider, Due, Elems
<1>3. inbox # <<>> /\ inbox[1] = e /\ inbox' = Tail(inbox) /\ Single(inbox)
  BY <1>1 DEF Takes, CommitInv
<1>4. CommittedIn(inbox)' \subseteq CommittedIn(inbox) /\ Single(inbox)'
  <2>1. CommittedIn(Tail(inbox)) \subseteq CommittedIn(inbox) /\ Single(Tail(inbox))
    BY <1>0, <1>3, CommittedTail
  <2> QED
    BY <1>3, <2>1 DEF CommittedIn, Elems, Single
<1>5. e \in Elems(inbox)
  BY <1>0, <1>3, TailElems
<1>6. CASE eof' = eof \/ eof' \in {"response_started", "response_done", "speech_pending"}
  <2>1. races \subseteq races'
    BY DEF TakesResponse, TakesSpeech, TakesRefusal
  <2> QED
    BY <1>2, <1>4, <1>6, <2>1, PhaseKept
<1>7. CASE /\ e.kind = "committed" /\ OnCommitted
           /\ races' = IF e.resp # 0 /\ eof = "manual_commit_sent"
                         THEN races \cup {"mistaken"} ELSE races
  <2>1. \/ eof' = eof
        \/ eof = "speech_pending" /\ eof' = "auto_committed"
        \/ eof = "manual_commit_sent" /\ eof' = "manual_committed"
    BY <1>7 DEF OnCommitted
  <2>2. ended >= 1 /\ races \subseteq races'
    BY <1>5, <1>7 DEF PhaseInv
  <2>3. Elems(normal)' = Elems(normal) /\ AudioOver' = AudioOver
    BY <1>2 DEF Elems, AudioOver
  <2>4. \A x \in Elems(inbox)' : x.kind = "committed" => x \in Elems(inbox)
    BY <1>4 DEF CommittedIn
  <2>5. Event("committed", 0) \in Elems(inbox)' => Event("committed", 0) \in Elems(inbox)
    BY <2>4, PayloadFacts
  <2>6. PhaseInv'
    <3>1. encoder' \in {"audio", "settle", "failed"} =>
            /\ Commit \notin Elems(normal)' /\ ~CreateDue'
            /\ eof' \notin {"manual_commit_sent", "manual_committed"}
      BY <1>2, <2>1, <2>3, <2>5 DEF PhaseInv, CreateDue
    <3> QED
      BY <1>2, <2>2, <2>3, <2>4, <2>5, <3>1 DEF PhaseInv
  <2>7. CASE eof = "manual_commit_sent" /\ e.resp = 0
    <3>1. e = Event("committed", 0)
      <4>1. e \notin Refusal
        BY <1>7 DEF Refusal
      <4>2. e \in [kind : Kinds \cup {"speech", "committed"}, resp : Nat]
        BY <4>1 DEF Wire
      <4>3. e = [kind |-> e.kind, resp |-> e.resp]
        BY <4>2
      <4> QED
        BY <1>7, <2>7, <4>3 DEF Event
    <3>2. Event("committed", 0) \notin Elems(inbox)'
      <4>1. Event("committed", 0) \notin Elems(Tail(inbox))
        BY <1>0, <1>3, <3>1, SingleTail
      <4> QED
        BY <1>3, <4>1 DEF Elems
    <3>3. Commit \notin Elems(normal) /\ CreateDue
      BY <1>5, <3>1 DEF PhaseInv, CreateDue
    <3>4. "mistaken" \notin races' => spoken' \notin Elems(Due)'
      BY <1>2, <2>2, <3>3 DEF CommitInv
    <3> QED
      BY <1>4, <2>3, <2>6, <3>2, <3>3, <3>4 DEF CommitInv
  <2>8. CASE eof = "manual_commit_sent" /\ e.resp # 0
    <3>1. "mistaken" \in races'
      BY <1>7, <2>8
    <3> QED
      BY <1>4, <2>6, <3>1 DEF CommitInv
  <2>9. CASE eof # "manual_commit_sent"
    <3>1. CreateDue' => CreateDue
      BY <1>2, <2>1, <2>3, <2>5, <2>9 DEF CreateDue
    <3>2. \/ Create \in Elems(normal)'
          \/ encoder' = "ack" /\ eof' = "manual_committed"
          => \/ Create \in Elems(normal)
             \/ encoder = "ack" /\ eof = "manual_committed"
      BY <1>2, <2>1, <2>3, <2>9
    <3> QED
      BY <1>2, <1>4, <2>2, <2>3, <2>5, <2>6, <3>1, <3>2 DEF CommitInv
  <2> QED
    BY <2>7, <2>8, <2>9
<1> QED
  BY <1>6, <1>7 DEF TakesResponse, TakesSpeech, TakesRefusal, OnSpeech

NormalPhase == NormalInv /\ PhaseInv /\ CommitInv

(* Audio is handed over only while no commit is queued.                    *)
LEMMA PhaseAppends ==
  ASSUME Types, backend = "realtime", backend' = backend, TurnsInv, NormalPhase, AppendAudio
  PROVE  NormalPhase' /\ TurnsInv'
<1>0. encoder = "audio" /\ Enqueue(AppendPayload) /\ StreamTypes
  BY DEF AppendAudio, AppendPayload, Types
<1>1. UNCHANGED <<unheard, spoken, ended, owed, active, answered, inbox, encoder, eof, races>>
  BY DEF AppendAudio, provider, link, machine
<1>2. Commit \notin Elems(normal) /\ Create \notin Elems(normal) /\ ~CreateDue
  BY <1>0 DEF NormalPhase, PhaseInv, CreateDue
<1>3. NormalInv' /\ Elems(normal)' = Elems(normal) \cup {AppendPayload}
  BY <1>0, <1>2, NormalEnqueued DEF NormalPhase
<1>4. Elems(Due)' = Elems(Due) /\ Elems(inbox)' = Elems(inbox) /\ Single(inbox)'
  BY <1>1 DEF Due, Elems, NormalPhase, CommitInv, Single
<1>5. Commit \notin Elems(normal)' /\ Create \notin Elems(normal)' /\ ~CreateDue'
  BY <1>1, <1>2, <1>3, <1>4, PayloadsDiffer DEF CreateDue
<1>6. PhaseInv'
  <2>1. Event("committed", 0) \notin Elems(inbox)'
    BY <1>5 DEF CreateDue
  <2>2. \A e \in Elems(inbox)' : e.kind = "committed" => ended' >= 1
    BY <1>1, <1>4 DEF NormalPhase, PhaseInv
  <2> QED
    BY <1>0, <1>1, <1>5, <2>1, <2>2 DEF NormalPhase, PhaseInv
<1>7. CommitInv'
  BY <1>4, <1>5 DEF CommitInv, CreateDue
<1>8. TurnsInv'
  BY <1>0, <1>1, TurnsKept DEF NormalPhase
<1> QED
  BY <1>3, <1>6, <1>7, <1>8 DEF NormalPhase

(* The end of the source: a manual commit is enqueued only behind the last *)
(* audio.                                                                  *)
LEMMA PhaseFinishes ==
  ASSUME Types, backend = "realtime", backend' = backend, TurnsInv, NormalPhase, FinishInput
  PROVE  NormalPhase' /\ TurnsInv'
<1>0. encoder = "audio" /\ StreamTypes /\ encoder' \in {"done", "settle", "final"}
  BY DEF FinishInput, Types
<1>1. UNCHANGED <<unheard, spoken, ended, owed, active, answered, inbox, normal, eof, races>>
  BY DEF FinishInput, provider, link, realtimeVars, machine, outbound
<1>2. Elems(Due)' = Elems(Due) /\ Elems(inbox)' = Elems(inbox) /\ Elems(normal)' = Elems(normal)
  BY <1>1 DEF Due, Elems
<1>3. Commit \notin Elems(normal) /\ ~CreateDue /\ eof \notin {"manual_commit_sent", "manual_committed"}
  BY <1>0 DEF NormalPhase, PhaseInv
<1>4. ~CreateDue'
  BY <1>0, <1>1, <1>2, <1>3 DEF CreateDue
<1>5. PhaseInv'
  BY <1>0, <1>1, <1>2, <1>3, <1>4 DEF NormalPhase, PhaseInv, CreateDue
<1>6. CommitInv'
  BY <1>1, <1>4 DEF NormalPhase, CommitInv, CreateDue, Single
<1>7. NormalInv'
  BY <1>1, <1>2 DEF NormalPhase, NormalInv
<1>8. TurnsInv'
  BY <1>0, <1>1, TurnsKept DEF NormalPhase
<1> QED
  BY <1>5, <1>6, <1>7, <1>8 DEF NormalPhase

(* Speech that is still pending is committed: then nothing was before.     *)
LEMMA PhaseSettles ==
  ASSUME Types, backend = "realtime", backend' = backend, TurnsInv, NormalPhase, Settled
  PROVE  NormalPhase' /\ TurnsInv'
<1>0. encoder = "settle" /\ StreamTypes
  BY DEF Settled, Types
<1>1. UNCHANGED <<unheard, spoken, ended, owed, active, answered, inbox, races>>
  BY DEF Settled, provider, link
<1>2. Elems(Due)' = Elems(Due) /\ Elems(inbox)' = Elems(inbox)
  BY <1>1 DEF Due, Elems
<1>3. Commit \notin Elems(normal) /\ ~CreateDue /\ eof \notin {"manual_commit_sent", "manual_committed"}
  BY <1>0 DEF NormalPhase, PhaseInv
<1>4. TurnsInv'
  BY <1>0, <1>1, TurnsKept DEF NormalPhase
<1>5. CASE eof = "speech_pending"
  <2>1. Enqueue(Commit) /\ eof' = "manual_commit_sent" /\ encoder' = "ack"
    BY <1>5 DEF Settled
  <2>2. Create \notin Elems(normal)
    BY <1>3 DEF CreateDue
  <2>3. NormalInv' /\ Elems(normal)' = Elems(normal) \cup {Commit}
    BY <1>3, <2>1, <2>2, NormalEnqueued DEF NormalPhase
  <2>4. Create \notin Elems(normal)' /\ ~CreateDue'
    BY <1>2, <1>3, <2>1, <2>2, <2>3, PayloadsDiffer DEF CreateDue
  <2>5. PhaseInv'
    BY <1>1, <1>2, <2>1, <2>3, <2>4 DEF NormalPhase, PhaseInv, CreateDue
  <2>6. CommitInv'
    BY <1>1, <2>4 DEF NormalPhase, CommitInv, CreateDue, Single
  <2> QED
    BY <1>4, <2>3, <2>5, <2>6 DEF NormalPhase
<1>6. CASE eof # "speech_pending"
  <2>1. encoder' = "final" /\ UNCHANGED <<normal, eof>>
    BY <1>6 DEF Settled
  <2>2. Elems(normal)' = Elems(normal)
    BY <2>1 DEF Elems
  <2>3. ~CreateDue'
    BY <1>2, <1>3, <2>1, <2>2 DEF CreateDue
  <2>4. PhaseInv'
    BY <1>1, <1>2, <1>3, <2>1, <2>2, <2>3 DEF NormalPhase, PhaseInv, CreateDue
  <2>5. CommitInv'
    BY <1>1, <2>3 DEF NormalPhase, CommitInv, CreateDue, Single
  <2>6. NormalInv'
    BY <2>1, <2>2 DEF NormalPhase, NormalInv
  <2> QED
    BY <1>4, <2>4, <2>5, <2>6 DEF NormalPhase
<1> QED
  BY <1>5, <1>6

(* A create is queued for the acknowledgement of the manual commit.        *)
LEMMA PhaseAcknowledged ==
  ASSUME Types, backend = "realtime", backend' = backend, TurnsInv, NormalPhase, Acknowledged
  PROVE  NormalPhase' /\ TurnsInv'
<1>0. encoder = "ack" /\ encoder' = "final" /\ StreamTypes
  BY DEF Acknowledged, Types
<1>1. UNCHANGED <<unheard, spoken, ended, owed, active, answered, inbox, races, eof>>
  BY DEF Acknowledged, provider, link, machine
<1>2. Elems(Due)' = Elems(Due) /\ Elems(inbox)' = Elems(inbox)
  BY <1>1 DEF Due, Elems
<1>3. Create \notin Elems(normal)
  BY <1>0 DEF NormalPhase, PhaseInv
<1>4. TurnsInv'
  BY <1>0, <1>1, TurnsKept DEF NormalPhase
<1>5. CASE NeedsCreate
  <2>1. Enqueue(Create) /\ eof = "manual_committed"
    BY <1>5 DEF Acknowledged, NeedsCreate, Create
  <2>2. NormalInv' /\ Elems(normal)' = Elems(normal) \cup {Create}
    BY <1>3, <2>1, NormalEnqueued DEF NormalPhase
  <2>3. CreateDue /\ ended >= 1
    BY <1>0, <2>1 DEF CreateDue, NormalPhase, PhaseInv
  <2>4. Commit \notin Elems(normal)' <=> Commit \notin Elems(normal)
    BY <2>2, PayloadsDiffer
  <2>5. Commit \notin Elems(normal) => AudioOver
    BY <1>0 DEF NormalPhase, PhaseInv
  <2>6. AudioOver' <=> AudioOver
    BY <1>1, <2>2, PayloadsDiffer DEF AudioOver
  <2>7. PhaseInv'
    BY <1>0, <1>1, <1>2, <2>1, <2>3, <2>4, <2>5, <2>6 DEF NormalPhase, PhaseInv
  <2>8. CommitInv'
    BY <1>0, <1>1, <1>2, <2>1, <2>3, <2>4 DEF NormalPhase, CommitInv, Single
  <2> QED
    BY <1>4, <2>2, <2>7, <2>8 DEF NormalPhase
<1>6. CASE ~NeedsCreate
  <2>1. normal' = normal
    BY <1>6 DEF Acknowledged
  <2>2. Elems(normal)' = Elems(normal) /\ AudioOver' = AudioOver
    BY <1>1, <2>1 DEF Elems, AudioOver
  <2>3. CreateDue' => CreateDue
    BY <1>0, <1>2, <2>2 DEF CreateDue
  <2>4. PhaseInv'
    BY <1>0, <1>1, <1>2, <1>3, <2>2 DEF NormalPhase, PhaseInv
  <2>5. CommitInv'
    BY <1>0, <1>1, <1>2, <2>2, <2>3 DEF NormalPhase, CommitInv, Single
  <2>6. NormalInv'
    BY <2>1, <2>2 DEF NormalPhase, NormalInv
  <2> QED
    BY <1>4, <2>4, <2>5, <2>6 DEF NormalPhase
<1> QED
  BY <1>5, <1>6

(* The other steps leave the commit alone.                                 *)
LEMMA PhaseOthers ==
  ASSUME Types, backend = "realtime", backend' = backend, TurnsInv, NormalPhase,
         UNCHANGED <<provider, inbox, normal, races, eof>>,
         encoder' = encoder \/ (encoder = "final" /\ encoder' = "done")
  PROVE  NormalPhase' /\ TurnsInv'
<1>1. UNCHANGED <<unheard, spoken, ended, owed, active, answered>> /\ StreamTypes
  BY DEF provider, Types
<1>2. /\ Elems(Due)' = Elems(Due) /\ Elems(normal)' = Elems(normal) /\ Single(inbox)'
      /\ CommittedIn(inbox)' = CommittedIn(inbox)
  BY <1>1 DEF Due, Elems, Single, CommittedIn, NormalPhase, CommitInv
<1>3. PhaseInv' /\ CommitInv'
  BY <1>1, <1>2, PhaseKept DEF NormalPhase
<1>4. NormalInv'
  BY <1>2 DEF NormalPhase, NormalInv
<1>5. TurnsInv'
  BY <1>1, <1>2, TurnsKept
<1> QED
  BY <1>3, <1>4, <1>5 DEF NormalPhase

(* The phase is kept by every step of Realtime.                            *)
LEMMA PhaseRealtime ==
  ASSUME Types, RealtimeStep, backend' = backend, TurnsInv, NormalPhase, ControlsInv
  PROVE  NormalPhase' /\ TurnsInv'
<1>0. backend = "realtime" /\ StreamTypes
  BY DEF RealtimeStep, Types
<1>n. ASSUME UNCHANGED normal PROVE NormalInv'
  BY <1>n DEF NormalPhase, NormalInv, Elems
<1>1. CASE RealtimeReceives
  <2>1. PICK e \in Wire : TakesResponse(e) \/ TakesSpeech(e) \/ TakesRefusal(e)
    BY <1>0, <1>1, ReceivesSays
  <2>2. Takes(e) /\ races \subseteq races'
    BY <2>1 DEF TakesResponse, TakesSpeech, TakesRefusal
  <2>3. TurnsInv'
    <3>1. UNCHANGED <<spoken, ended, owed, active, answered, normal, encoder>>
      BY <2>2 DEF Takes, provider
    <3>2. Elems(normal)' = Elems(normal)
      BY <3>1 DEF Elems
    <3> QED
      BY <1>0, <2>2, <3>1, <3>2, TurnsKept
  <2>4. NormalInv'
    BY <1>n, <2>2 DEF Takes
  <2> QED
    BY <1>0, <1>1, <2>3, <2>4, PhaseReceives DEF NormalPhase
<1>2. CASE PumpSends
  BY <1>0, <1>2, PhasePump, TurnsPump DEF NormalPhase
<1>3. CASE ServerStep
  <2>1. ServerMoves /\ UNCHANGED <<races, encoder, normal>>
    BY <1>0, <1>3, ServerSays DEF ServerMoves, realtimeVars, outbound, tasks
  <2>2. TurnsInv'
    BY <1>0, <2>1, TurnsServer
  <2>3. NormalInv'
    BY <1>n, <2>1
  <2> QED
    BY <1>0, <1>3, <2>2, <2>3, PhaseServer DEF NormalPhase
<1>4. CASE PumpFails
  BY <1>0, <1>4, PhaseOthers DEF PumpFails, tasks, machine
<1>5. ASSUME NEW timeout \in BOOLEAN, FinalResponse(timeout) PROVE NormalPhase' /\ TurnsInv'
  BY <1>0, <1>5, PhaseOthers DEF FinalResponse, link, realtimeVars, machine, outbound
<1>6. ASSUME NEW r \in Responses, RealtimeInterrupt(r) PROVE NormalPhase' /\ TurnsInv'
  BY <1>0, <1>6, PhaseOthers DEF RealtimeInterrupt, link, tasks, machine
<1> QED
  BY <1>0, <1>1, <1>2, <1>3, <1>4, <1>5, <1>6, PhaseAppends, PhaseFinishes, PhaseSettles,
     PhaseAcknowledged DEF RealtimeStep, RealtimeTasks

---------------------------------------------------------------------------
(* Cancels and truncations, and the refusals of the server. *)

LEMMA ControlsDiffer ==
  /\ \A r, s : Cancel(r) = Cancel(s) => r = s
  /\ \A r : Cancel(r) # Commit /\ Cancel(r) # Create /\ Cancel(r) # AppendPayload
  /\ \A r : Cancel(r).type = "cancel" /\ Cancel(r).resp = r
BY DEF Cancel, Commit, Create, AppendPayload, Payload

LEMMA ControlsKept ==
  ASSUME ControlsInv, UNCHANGED <<group, groups, last>>, told \subseteq told',
         \A i \in 1..Len(groups) : \A r : groups[i][1] = Cancel(r) => Cancel(r) \in pending'
  PROVE  ControlsInv'
<1>1. ASSUME NEW i \in 1..Len(groups)
      PROVE  \E r \in told' : /\ groups[i] \in {<<Cancel(r)>>, <<Cancel(r), Truncate(r)>>}
                              /\ Cancel(r) \in pending'
  <2>1. PICK r \in told : groups[i] \in {<<Cancel(r)>>, <<Cancel(r), Truncate(r)>>}
    BY DEF ControlsInv
  <2>2. groups[i][1] = Cancel(r)
    BY <2>1
  <2> QED
    BY <2>1, <2>2
<1> QED
  BY <1>1 DEF ControlsInv

(* Sending a cancel leaves its truncation to be sent next.                 *)
LEMMA ControlsPump ==
  ASSUME Types, backend = "realtime", NormalInv, ControlsInv, PumpSends
  PROVE  ControlsInv'
<1>0. UNCHANGED <<told, pending>>
  BY PumpSays DEF PumpLeaves, caller
<1>1. groups \in Seq(Seq(Payloads))
  BY DEF Types, RealtimeTypes
<1>2. CASE SendsTruncate
  BY <1>0, <1>2 DEF SendsTruncate, ControlsInv
<1>3. ASSUME NEW r \in told, SendsCancel(r) PROVE ControlsInv'
  <2> PICK q : q = Tail(groups)
    OBVIOUS
  <2>1. /\ \A i \in 1..Len(q) : q[i] = groups[i + 1] /\ i + 1 \in 1..Len(groups)
        /\ Len(q) = Len(groups) - 1 /\ Len(groups) \in Nat /\ groups' = q
    BY <1>1, <1>3, TailElems, LenProperties DEF SendsCancel
  <2>2. \A i \in 1..Len(q) :
           \E s \in told : /\ q[i] \in {<<Cancel(s)>>, <<Cancel(s), Truncate(s)>>}
                           /\ Cancel(s) \in pending
    BY <2>1 DEF ControlsInv
  <2>3. ASSUME NEW i \in 1..Len(q), NEW j \in 1..Len(q), q[i][1] = q[j][1] PROVE i = j
    <3>1. \A a, b \in 1..Len(groups) : groups[a][1] = groups[b][1] => a = b
      BY DEF ControlsInv
    <3>2. groups[i + 1][1] = groups[j + 1][1]
      BY <2>1, <2>3
    <3>3. i + 1 = j + 1
      BY <2>1, <3>1, <3>2
    <3> QED
      BY <3>3
  <2>4. group' # <<>> => group' = <<Truncate(last'.resp)>> /\ last'.type = "cancel"
    BY <1>3, ControlsDiffer DEF SendsCancel
  <2> QED
    BY <1>0, <2>1, <2>2, <2>3, <2>4 DEF ControlsInv
<1>4. ASSUME NEW p \in {AppendPayload, Commit, Create}, SendsNormal(p) PROVE ControlsInv'
  <2>1. groups = <<>> /\ group = <<>> /\ groups' = <<>> /\ group' = <<>>
    BY <1>4 DEF SendsNormal
  <2> QED
    BY <2>1, EmptyElems DEF ControlsInv
<1> QED
  BY <1>2, <1>3, <1>4, PumpSays DEF SendsAppend, SendsCommit, SendsCreate

(* Only an answered control is forgotten.                                  *)
LEMMA ControlsReceives ==
  ASSUME Types, backend = "realtime", ControlsInv, RefusalsInv, RealtimeReceives
  PROVE  ControlsInv'
<1>0. inbox \in Seq(Wire)
  BY DEF Types, InboxTypes
<1> PICK e \in Wire : TakesResponse(e) \/ TakesSpeech(e) \/ TakesRefusal(e)
  BY ReceivesSays
<1>1. Takes(e)
  BY DEF TakesResponse, TakesSpeech, TakesRefusal
<1>2. UNCHANGED <<group, groups, last, told>>
  BY <1>1 DEF Takes, caller
<1>3. e \in Elems(inbox)
  BY <1>0, <1>1, TailElems DEF Takes
<1>4. ASSUME NEW i \in 1..Len(groups), NEW r, groups[i][1] = Cancel(r) PROVE Cancel(r) \in pending'
  <2>1. Cancel(r) \in pending
    <3>1. PICK s \in told : /\ groups[i] \in {<<Cancel(s)>>, <<Cancel(s), Truncate(s)>>}
                            /\ Cancel(s) \in pending
      BY DEF ControlsInv
    <3>2. groups[i][1] = Cancel(s)
      BY <3>1
    <3> QED
      BY <1>4, <3>1, <3>2
  <2>2. CASE pending' = pending
    BY <2>1, <2>2
  <2>3. CASE e.kind = "error" /\ pending' = pending \ {e.on}
    <3>1. Stands(e)
      BY <1>3, <2>3 DEF RefusalsInv
    <3>2. e.on # Cancel(r)
      BY <1>4, <3>1, ControlsDiffer DEF Stands
    <3> QED
      BY <2>1, <2>3, <3>2
  <2> QED
    BY <2>2, <2>3 DEF TakesResponse, TakesSpeech, TakesRefusal
<1> QED
  BY <1>2, <1>4, ControlsKept

(* An interrupt adds a group of its own, of a response not cancelled       *)
(* before.                                                                 *)
LEMMA ControlsInterrupt ==
  ASSUME Types, backend = "realtime", ControlsInv, NEW r \in Responses, RealtimeInterrupt(r)
  PROVE  /\ ControlsInv' /\ pending \subseteq pending' /\ r \notin told
         /\ \A j \in 1..Len(groups') : (j \in 1..Len(groups) /\ groups'[j] = groups[j]) \/ groups'[j][1] = Cancel(r)
<1>0. groups \in Seq(Seq(Payloads)) /\ r \in Nat
  BY ResponsesAre DEF Types, RealtimeTypes
<1>1. PICK pair : /\ pair = <<Payload("cancel", r)>>
                        \o (IF yielded["audio"][r] > 0 THEN <<Payload("truncate", r)>> ELSE <<>>)
                  /\ groups' = Append(groups, pair) /\ pending' = pending \cup ToSet(pair)
  BY DEF RealtimeInterrupt
<1>2. told' = told \cup {r} /\ r \notin told /\ UNCHANGED <<group, last>>
  BY DEF RealtimeInterrupt, MayInterrupt
<1>3. pair \in {<<Cancel(r)>>, <<Cancel(r), Truncate(r)>>}
  <2>0. \A a, b \in Payloads : <<a>> \in Seq(Payloads) /\ <<a>> \o <<b>> = Append(<<a>>, b)
    BY AppendElems
  <2>1. \A a, b \in Payloads : <<a>> \o <<b>> = <<a, b>> /\ <<a>> \o <<>> = <<a>>
    <3> SUFFICES ASSUME NEW a \in Payloads, NEW b \in Payloads
                 PROVE  <<a>> \o <<b>> = <<a, b>> /\ <<a>> \o <<>> = <<a>>
      OBVIOUS
    <3> PICK p : p = Append(<<a>>, b)
      OBVIOUS
    <3>1. p \in Seq(Payloads) /\ Len(p) = 2 /\ p[1] = a /\ p[2] = b
      <4>1. <<a>> \in Seq(Payloads) /\ Len(<<a>>) = 1 /\ <<a>>[1] = a
        OBVIOUS
      <4>2. p \in Seq(Payloads) /\ Len(p) = Len(<<a>>) + 1 /\ p[Len(<<a>>) + 1] = b
            /\ \A i \in 1..Len(<<a>>) : p[i] = <<a>>[i]
        BY <4>1, AppendElems
      <4> QED
        BY <4>1, <4>2
    <3>2. p = <<a, b>>
      <4> PICK s : s = <<a, b>>
        OBVIOUS
      <4>1. s \in Seq(Payloads) /\ Len(s) = 2 /\ s[1] = a /\ s[2] = b
        OBVIOUS
      <4>2. Len(p) = Len(s)
        BY <3>1, <4>1
      <4>3. \A i \in 1..Len(p) : p[i] = s[i]
        <5>1. \A i \in 1..Len(p) : i = 1 \/ i = 2
          BY <3>1
        <5> QED
          BY <3>1, <4>1, <5>1
      <4>4. p = s
        BY <3>1, <4>1, <4>2, <4>3, SeqEqual
      <4> QED
        BY <4>4
    <3> QED
      BY <2>0, <3>2, ConcatEmptySeq
  <2>t. Cancel(r) \in Payloads /\ Truncate(r) \in Payloads
    BY <1>0, ItemTypes
  <2>2. CASE yielded["audio"][r] > 0
    <3>1. pair = <<Payload("cancel", r)>> \o <<Payload("truncate", r)>>
      BY <1>1, <2>2
    <3> QED
      BY <2>1, <2>t, <3>1 DEF Cancel, Truncate
  <2>3. CASE ~(yielded["audio"][r] > 0)
    <3>1. pair = <<Payload("cancel", r)>> \o <<>>
      BY <1>1, <2>3
    <3> QED
      BY <2>1, <2>t, <3>1 DEF Cancel, Truncate
  <2> QED
    BY <2>2, <2>3
<1>4. pair[1] = Cancel(r) /\ Cancel(r) \in ToSet(pair) /\ pair \in Seq(Payloads)
  <2>1. Cancel(r) \in Payloads /\ Truncate(r) \in Payloads
    BY <1>0, ItemTypes
  <2>2. pair[1] = Cancel(r) /\ 1 \in DOMAIN pair /\ pair \in Seq(Payloads)
    <3>1. CASE pair = <<Cancel(r)>>
      BY <2>1, <3>1
    <3>2. CASE pair = <<Cancel(r), Truncate(r)>>
      BY <2>1, <3>2
    <3> QED
      BY <1>3, <3>1, <3>2
  <2> QED
    BY <2>2 DEF ToSet
<1>5. Cancel(r) \in pending' /\ pending \subseteq pending'
  BY <1>1, <1>4
<1> PICK q : q = groups'
  OBVIOUS
<1>6. /\ Len(q) = Len(groups) + 1 /\ q[Len(groups) + 1] = pair /\ Len(groups) \in Nat
      /\ \A i \in 1..Len(groups) : q[i] = groups[i]
  BY <1>0, <1>1, <1>4, AppendElems, LenProperties
<1>7. \A i \in 1..Len(q) : i \in 1..Len(groups) \/ i = Len(groups) + 1
  BY <1>6
<1>8. ASSUME NEW i \in 1..Len(groups)
      PROVE  /\ groups[i][1] # Cancel(r)
             /\ \E s \in told' : /\ groups[i] \in {<<Cancel(s)>>, <<Cancel(s), Truncate(s)>>}
                                 /\ Cancel(s) \in pending'
  <2>1. PICK s \in told : /\ groups[i] \in {<<Cancel(s)>>, <<Cancel(s), Truncate(s)>>}
                          /\ Cancel(s) \in pending
    BY DEF ControlsInv
  <2>2. groups[i][1] = Cancel(s) /\ s # r
    BY <1>2, <2>1
  <2> QED
    BY <1>2, <1>5, <2>1, <2>2, ControlsDiffer
<1>9. \A i \in 1..Len(q) :
        \E s \in told' : /\ q[i] \in {<<Cancel(s)>>, <<Cancel(s), Truncate(s)>>}
                         /\ Cancel(s) \in pending'
  BY <1>2, <1>3, <1>5, <1>6, <1>7, <1>8
<1>10. ASSUME NEW i \in 1..Len(q), NEW j \in 1..Len(q), q[i][1] = q[j][1] PROVE i = j
  <2>1. CASE i \in 1..Len(groups) /\ j \in 1..Len(groups)
    BY <1>6, <1>10, <2>1 DEF ControlsInv
  <2> QED
    BY <1>4, <1>6, <1>7, <1>8, <1>10, <2>1
<1>11. ControlsInv'
  BY <1>2, <1>9, <1>10 DEF ControlsInv
<1> QED
  BY <1>2, <1>4, <1>5, <1>6, <1>7, <1>11

(* A refusal arrives, or is taken.                                         *)
LEMMA DistinctAppend ==
  ASSUME NEW S, NEW q \in Seq(S), NEW e \in S, Distinct(q),
         e.kind = "error" /\ e.benign =>
           \A x \in Elems(q) : x.kind = "error" /\ x.benign => x.on # e.on
  PROVE  Distinct(Append(q, e))
<1> PICK p : p = Append(q, e)
  OBVIOUS
<1>1. /\ Len(p) = Len(q) + 1 /\ p[Len(q) + 1] = e /\ Len(q) \in Nat
      /\ \A i \in 1..Len(q) : p[i] = q[i]
  BY AppendElems, LenProperties
<1>2. \A i \in 1..Len(q) : q[i] \in Elems(q)
  BY DEF Elems
<1>3. ASSUME NEW i \in 1..Len(p), NEW j \in 1..Len(p), i # j,
             p[i].kind = "error", p[j].kind = "error", p[i].benign, p[j].benign
      PROVE  p[i].on # p[j].on
  <2>1. (i \in 1..Len(q) \/ i = Len(q) + 1) /\ (j \in 1..Len(q) \/ j = Len(q) + 1)
    BY <1>1
  <2>2. CASE i \in 1..Len(q) /\ j \in 1..Len(q)
    BY <1>1, <1>3, <2>2 DEF Distinct
  <2>3. CASE i \in 1..Len(q) /\ j = Len(q) + 1
    BY <1>1, <1>2, <1>3, <2>3
  <2>4. CASE j \in 1..Len(q) /\ i = Len(q) + 1
    BY <1>1, <1>2, <1>3, <2>4
  <2> QED
    BY <1>3, <2>1, <2>2, <2>3, <2>4
<1> QED
  BY <1>3 DEF Distinct

LEMMA DistinctTail ==
  ASSUME NEW S, NEW q \in Seq(S), q # <<>>, Distinct(q)
  PROVE  /\ Distinct(Tail(q))
         /\ q[1].kind = "error" /\ q[1].benign =>
              \A x \in Elems(Tail(q)) : x.kind = "error" /\ x.benign => x.on # q[1].on
<1> PICK p : p = Tail(q)
  OBVIOUS
<1>1. /\ Len(p) = Len(q) - 1 /\ Len(q) >= 1 /\ Len(q) \in Nat
      /\ \A i \in 1..Len(p) : p[i] = q[i + 1] /\ i + 1 \in 1..Len(q)
  BY TailElems, LenProperties
<1>2. ASSUME NEW i \in 1..Len(p), NEW j \in 1..Len(p), i # j,
             p[i].kind = "error", p[j].kind = "error", p[i].benign, p[j].benign
      PROVE  p[i].on # p[j].on
  <2>1. i + 1 # j + 1
    BY <1>2
  <2> QED
    BY <1>1, <1>2, <2>1 DEF Distinct
<1>3. ASSUME q[1].kind = "error", q[1].benign,
             NEW i \in 1..Len(p), p[i].kind = "error", p[i].benign
      PROVE  p[i].on # q[1].on
  <2>1. 1 \in 1..Len(q) /\ i + 1 \in 1..Len(q) /\ i + 1 # 1
    BY <1>1
  <2> QED
    BY <1>1, <1>3, <2>1 DEF Distinct
<1> QED
  BY <1>2, <1>3 DEF Distinct, Elems

(* The encoder does not go back.                                           *)
Committing(e) == e \notin {"audio", "settle", "failed"}

LEMMA StandsKept ==
  ASSUME NEW e, Stands(e), told \subseteq told', races \subseteq races',
         Committing(encoder) => Committing(encoder'),
         e.benign => /\ e.on \in pending'
                     /\ e.on \notin Elems(normal)'
                     /\ \A j \in 1..Len(groups)' : groups'[j][1] # e.on
  PROVE  Stands(e)'
BY DEF Stands, Committing

(* The list of refusals does not grow.                                     *)
LEMMA RefusalsKept ==
  ASSUME RefusalsInv, told \subseteq told', races \subseteq races',
         Committing(encoder) => Committing(encoder'),
         inbox' = inbox \/ inbox' = <<>>,
         pending \subseteq pending', UNCHANGED <<normal, groups>>
  PROVE  RefusalsInv'
<1>1. Elems(normal)' = Elems(normal)
  BY DEF Elems
<1>2. ASSUME NEW e \in Elems(inbox), e.kind = "error" PROVE Stands(e)'
  <2>1. Stands(e)
    BY <1>2 DEF RefusalsInv
  <2>2. e.benign => /\ e.on \in pending'
                    /\ e.on \notin Elems(normal)'
                    /\ \A j \in 1..Len(groups)' : groups'[j][1] # e.on
    BY <1>1, <2>1 DEF Stands
  <2> QED
    BY <2>1, <2>2, StandsKept
<1>3. Elems(inbox)' \subseteq Elems(inbox) /\ Distinct(inbox)'
  <2>1. CASE inbox' = inbox
    BY <2>1 DEF Elems, Distinct, RefusalsInv
  <2>2. CASE inbox' = <<>>
    BY <2>2, EmptyElems DEF Elems, Distinct
  <2> QED
    BY <2>1, <2>2
<1> QED
  BY <1>1, <1>2, <1>3 DEF RefusalsInv

(* Something else than a refusal arrives, or a refusal that is new.        *)
LEMMA RefusalsArrive ==
  ASSUME inbox \in Seq(Wire), Distinct(inbox), NEW e \in Wire, inbox' = Append(inbox, e),
         \A x \in Elems(inbox) : x.kind = "error" => Stands(x)',
         e.kind = "error" => Stands(e)',
         e.kind = "error" /\ e.benign =>
           \A x \in Elems(inbox) : x.kind = "error" /\ x.benign => x.on # e.on,
         Commit \in Elems(normal)' => Commit \in pending'
  PROVE  RefusalsInv'
<1>1. Elems(inbox)' = Elems(inbox) \cup {e}
  <2>1. Elems(Append(inbox, e)) = Elems(inbox) \cup {e}
    BY AppendElems
  <2> QED
    BY <2>1 DEF Elems
<1>2. Distinct(inbox)'
  <2>1. Distinct(Append(inbox, e))
    BY DistinctAppend
  <2> QED
    BY <2>1 DEF Distinct
<1> QED
  BY <1>1, <1>2 DEF RefusalsInv

LEMMA RefusalsServer ==
  ASSUME Types, backend = "realtime", RefusalsInv, ServerStep
  PROVE  RefusalsInv'
<1>0. inbox \in Seq(Wire) /\ Distinct(inbox)
  BY DEF Types, InboxTypes, RefusalsInv
<1>1. UNCHANGED <<pending, normal, groups, told, races, encoder>>
  BY ServerSays DEF realtimeVars, outbound, tasks, caller
<1>2. Elems(normal)' = Elems(normal)
  BY <1>1 DEF Elems
<1>3. ASSUME NEW x \in Elems(inbox), x.kind = "error" PROVE Stands(x)'
  <2>1. Stands(x)
    BY <1>3 DEF RefusalsInv
  <2> QED
    BY <1>1, <1>2, <2>1 DEF Stands
<1>4. ASSUME NEW k \in Kinds \cup {"speech", "committed"}, NEW r \in Nat, Receives(Event(k, r))
      PROVE  RefusalsInv'
  <2>1. Event(k, r) \in Wire /\ Event(k, r).kind # "error"
    BY <1>4, ItemTypes, PayloadFacts DEF Kinds
  <2> QED
    BY <1>0, <1>1, <1>2, <1>3, <1>4, <2>1, RefusalsArrive DEF Receives, RefusalsInv
<1>5. spoken \in Nat /\ active \in Nat /\ Len(answered) + 1 \in Nat
  BY DueIs DEF Types, StreamTypes
<1> QED
  BY <1>4, <1>5, ServerSays, ItemTypes

(* The server refuses only what it was sent, and refuses it once.          *)
LEMMA RefusalsPump ==
  ASSUME Types, backend = "realtime", NormalInv, PhaseInv, ControlsInv, RefusalsInv, PumpSends
  PROVE  RefusalsInv'
<1>0. /\ inbox \in Seq(Wire) /\ Distinct(inbox) /\ told \subseteq Nat
      /\ groups \in Seq(Seq(Payloads))
  BY ResponsesAre DEF Types, InboxTypes, RefusalsInv, StreamTypes, RealtimeTypes
<1>1. UNCHANGED <<pending, told, encoder>>
  BY PumpSays DEF PumpLeaves, caller, tasks
<1>2. CASE SendsTruncate
  BY <1>1, <1>2, RefusalsKept DEF SendsTruncate, provider
<1>3. ASSUME NEW r \in told, SendsCancel(r) PROVE RefusalsInv'
  <2> PICK q : q = Tail(groups)
    OBVIOUS
  <2>1. /\ \A i \in 1..Len(q) : q[i] = groups[i + 1] /\ i + 1 \in 1..Len(groups)
        /\ Len(q) = Len(groups) - 1 /\ Len(groups) \in Nat /\ groups' = q /\ Len(groups) >= 1
    BY <1>0, <1>3, TailElems, LenProperties DEF SendsCancel
  <2>2. groups[1][1] = Cancel(r) /\ 1 \in 1..Len(groups)
    BY <1>3, <2>1 DEF SendsCancel
  <2>3. Cancel(r) \in pending
    <3>1. PICK s \in told : /\ groups[1] \in {<<Cancel(s)>>, <<Cancel(s), Truncate(s)>>}
                            /\ Cancel(s) \in pending
      BY <2>2 DEF ControlsInv
    <3>2. groups[1][1] = Cancel(s)
      BY <3>1
    <3> QED
      BY <2>2, <3>1, <3>2
  <2>4. \A j \in 1..Len(q) : q[j][1] # Cancel(r)
    <3> SUFFICES ASSUME NEW j \in 1..Len(q), q[j][1] = Cancel(r) PROVE FALSE
      OBVIOUS
    <3>1. \A a, b \in 1..Len(groups) : groups[a][1] = groups[b][1] => a = b
      BY DEF ControlsInv
    <3>2. 1 = j + 1
      BY <2>1, <2>2, <3>1
    <3> QED
      BY <3>2
  <2>5. normal' = normal /\ Elems(normal)' = Elems(normal) /\ races' = races
    BY <1>3 DEF SendsCancel, Elems
  <2>6. Cancel(r) \notin Elems(normal)
    BY ControlsDiffer DEF NormalInv
  <2>7. ASSUME NEW x \in Elems(inbox), x.kind = "error" PROVE Stands(x)'
    <3>1. Stands(x)
      BY <2>7 DEF RefusalsInv
    <3>2. x.benign => \A j \in 1..Len(groups)' : groups'[j][1] # x.on
      BY <2>1, <3>1 DEF Stands
    <3>3. x.benign => x.on \in pending' /\ x.on \notin Elems(normal)'
      BY <1>1, <2>5, <3>1 DEF Stands
    <3> QED
      BY <1>1, <2>5, <3>1, <3>2, <3>3, StandsKept
  <2>8. CASE inbox' = Append(inbox, Event("done", r))
    <3>1. Event("done", r) \in Wire /\ Event("done", r).kind # "error"
      BY <1>0, <1>3, ItemTypes, PayloadFacts
    <3> QED
      BY <1>0, <1>1, <2>5, <2>7, <2>8, <3>1, RefusalsArrive DEF RefusalsInv
  <2>9. CASE inbox' = Append(inbox, Refused(Cancel(r), TRUE))
    <3> PICK e : e = Refused(Cancel(r), TRUE)
      OBVIOUS
    <3>1. e \in Wire /\ e.kind = "error" /\ e.benign = TRUE /\ e.on = Cancel(r)
      BY <1>0, <1>3, ItemTypes, PayloadFacts
    <3>2. Stands(e)'
      BY <1>1, <1>3, <2>1, <2>3, <2>4, <2>5, <2>6, <3>1 DEF Stands
    <3>3. \A x \in Elems(inbox) : x.kind = "error" /\ x.benign => x.on # e.on
      BY <2>2, <3>1 DEF RefusalsInv, Stands
    <3> QED
      BY <1>0, <1>1, <2>5, <2>7, <2>9, <3>1, <3>2, <3>3, RefusalsArrive DEF RefusalsInv
  <2> QED
    BY <1>3, <2>8, <2>9 DEF SendsCancel
<1>4. ASSUME NEW p \in {AppendPayload, Commit, Create}, SendsNormal(p)
      PROVE  /\ Elems(normal)' \subseteq Elems(normal) /\ p \in Elems(normal)
             /\ p = Commit => Commit \notin Elems(normal)'
             /\ groups' = groups /\ groups = <<>> /\ Len(groups) = 0
             /\ Commit \in Elems(normal)' => Commit \in pending'
  BY <1>1, <1>4, NormalSent, PayloadsDiffer DEF SendsNormal, RefusalsInv
<1>5. ASSUME NEW p \in {AppendPayload, Commit, Create}, SendsNormal(p), races \subseteq races',
             NEW x \in Elems(inbox), x.kind = "error"
      PROVE  Stands(x)'
  <2>1. Stands(x)
    BY <1>5 DEF RefusalsInv
  <2>2. Elems(normal)' \subseteq Elems(normal) /\ groups' = groups
    BY <1>4, <1>5
  <2>3. x.benign => /\ x.on \in pending'
                    /\ x.on \notin Elems(normal)'
                    /\ \A j \in 1..Len(groups)' : groups'[j][1] # x.on
    BY <1>1, <2>1, <2>2 DEF Stands
  <2> QED
    BY <1>1, <1>5, <2>1, <2>3, StandsKept
<1>6. ASSUME NEW p \in {AppendPayload, Commit, Create}, SendsNormal(p), races \subseteq races',
             inbox' = inbox
      PROVE  RefusalsInv'
  <2>1. Elems(inbox)' = Elems(inbox) /\ Distinct(inbox)'
    BY <1>0, <1>6 DEF Elems, Distinct
  <2> QED
    BY <1>4, <1>5, <1>6, <2>1 DEF RefusalsInv
<1>7. CASE SendsAppend
  BY <1>6, <1>7 DEF SendsAppend
<1>8. CASE SendsCommit
  <2>1. SendsNormal(Commit) /\ races' = races /\ Commit \in Elems(normal) /\ Commit \notin Elems(normal)'
    BY <1>4, <1>8 DEF SendsCommit
  <2>2. \A x \in Elems(inbox) : x.kind = "error" => Stands(x)'
    BY <1>5, <2>1
  <2>3. CASE inbox' = Append(inbox, Event("committed", 0))
    <3>1. Event("committed", 0) \in Wire /\ Event("committed", 0).kind # "error"
      BY ItemTypes, PayloadFacts
    <3> QED
      BY <1>0, <1>1, <2>1, <2>2, <2>3, <3>1, RefusalsArrive
  <2>4. CASE inbox' = Append(inbox, Refused(Commit, TRUE))
    <3> PICK e : e = Refused(Commit, TRUE)
      OBVIOUS
    <3>1. e \in Wire /\ e.kind = "error" /\ e.benign = TRUE /\ e.on = Commit
      BY ItemTypes, PayloadFacts
    <3>2. Commit \in pending /\ encoder \notin {"audio", "settle", "failed"}
      BY <2>1 DEF RefusalsInv, PhaseInv
    <3>3. \A j \in 1..Len(groups)' : FALSE
      <4>1. Len(groups)' = 0
        BY <1>4, <2>1
      <4> QED
        BY <4>1
    <3>4. Stands(e)'
      BY <1>1, <2>1, <3>1, <3>2, <3>3 DEF Stands
    <3>5. \A x \in Elems(inbox) : x.kind = "error" /\ x.benign => x.on # e.on
      BY <2>1, <3>1 DEF RefusalsInv, Stands
    <3> QED
      BY <1>0, <1>1, <2>1, <2>2, <2>4, <3>1, <3>4, <3>5, RefusalsArrive
  <2> QED
    BY <1>8, <2>3, <2>4 DEF SendsCommit
<1>9. CASE SendsCreate
  <2>1. SendsNormal(Create) /\ races \subseteq races'
    BY <1>9 DEF SendsCreate
  <2>2. CASE inbox' = inbox
    BY <1>6, <2>1, <2>2
  <2>3. CASE races' = races \cup {"collided"} /\ inbox' = Append(inbox, Refused(Create, FALSE))
    <3> PICK e : e = Refused(Create, FALSE)
      OBVIOUS
    <3>0. Create \in Payloads /\ FALSE \in BOOLEAN
      BY ItemTypes
    <3>n. e.kind = "error" /\ e.on = Create
      BY PayloadFacts
    <3>w. e \in Wire
      BY <3>0, ItemTypes
    <3>b. ~e.benign
      BY DEF Refused
    <3>1. e \in Wire /\ e.kind = "error" /\ ~e.benign /\ e.on = Create
      BY <3>n, <3>w, <3>b
    <3>2. Stands(e)'
      BY <2>3, <3>1 DEF Stands
    <3>3. \A x \in Elems(inbox) : x.kind = "error" => Stands(x)'
      BY <1>5, <2>1
    <3> QED
      BY <1>0, <1>4, <2>1, <2>3, <3>1, <3>2, <3>3, RefusalsArrive
  <2> QED
    BY <1>9, <2>2, <2>3 DEF SendsCreate
<1> QED
  BY <1>2, <1>3, <1>7, <1>8, <1>9, PumpSays

(* A refusal of a pending command is no failure; another one has its       *)
(* cause.                                                                  *)
LEMMA RefusalsReceives ==
  ASSUME Types, backend = "realtime", RefusalsInv, RealtimeReceives
  PROVE  RefusalsInv'
<1>0. inbox \in Seq(Wire) /\ Distinct(inbox)
  BY DEF Types, InboxTypes, RefusalsInv
<1> PICK e \in Wire : TakesResponse(e) \/ TakesSpeech(e) \/ TakesRefusal(e)
  BY ReceivesSays
<1>1. Takes(e) /\ races \subseteq races'
  BY DEF TakesResponse, TakesSpeech, TakesRefusal
<1>2. UNCHANGED <<normal, groups, encoder, told>> /\ inbox # <<>> /\ inbox' = Tail(inbox) /\ inbox[1] = e
  BY <1>1 DEF Takes, caller
<1>3. /\ Elems(normal)' = Elems(normal) /\ e \in Elems(inbox)
      /\ Elems(inbox)' \subseteq Elems(inbox) /\ Distinct(inbox)'
      /\ e.kind = "error" /\ e.benign =>
           \A x \in Elems(inbox)' : x.kind = "error" /\ x.benign => x.on # e.on
  <2>1. /\ e \in Elems(inbox) /\ Elems(Tail(inbox)) \subseteq Elems(inbox) /\ Distinct(Tail(inbox))
        /\ e.kind = "error" /\ e.benign =>
             \A x \in Elems(Tail(inbox)) : x.kind = "error" /\ x.benign => x.on # e.on
    BY <1>0, <1>2, TailElems, DistinctTail
  <2>2. Elems(normal)' = Elems(normal)
    BY <1>2 DEF Elems
  <2>3. Elems(inbox)' = Elems(Tail(inbox))
    BY <1>2 DEF Elems
  <2>4. Distinct(inbox)' <=> Distinct(Tail(inbox))
    BY <1>2 DEF Distinct
  <2>5. Distinct(inbox)'
    BY <2>1, <2>4
  <2>6. ASSUME e.kind = "error", e.benign
        PROVE  \A x \in Elems(inbox)' : x.kind = "error" /\ x.benign => x.on # e.on
    BY <2>1, <2>3, <2>6
  <2> QED
    BY <2>1, <2>2, <2>3, <2>5, <2>6, Zenon
<1>4. ASSUME NEW x \in Elems(inbox), Stands(x), x.benign => x.on \in pending' PROVE Stands(x)'
  <2>1. x.benign => /\ x.on \notin Elems(normal)'
                    /\ \A j \in 1..Len(groups)' : groups'[j][1] # x.on
    BY <1>2, <1>3, <1>4 DEF Stands
  <2> QED
    BY <1>1, <1>2, <1>4, <2>1, StandsKept
<1>5. CASE pending' = pending
  <2>1. \A x \in Elems(inbox)' : x.kind = "error" => Stands(x)'
    BY <1>3, <1>4, <1>5 DEF RefusalsInv, Stands
  <2> QED
    BY <1>3, <1>5, <2>1 DEF RefusalsInv
<1>6. CASE e.kind = "error" /\ pending' = pending \ {e.on}
  <2>1. Stands(e)
    BY <1>3, <1>6 DEF RefusalsInv
  <2>2. ASSUME NEW x \in Elems(inbox)', x.kind = "error" PROVE Stands(x)'
    <3>1. Stands(x)
      BY <1>3, <2>2 DEF RefusalsInv
    <3>2. x.benign => x.on # e.on
      <4>1. CASE e.benign
        BY <1>3, <1>6, <2>2, <4>1
      <4>2. CASE ~e.benign
        BY <2>1, <3>1, <4>2, ControlsDiffer, PayloadsDiffer DEF Stands
      <4> QED
        BY <4>1, <4>2
    <3>3. x.benign => x.on \in pending'
      BY <1>6, <3>1, <3>2 DEF Stands
    <3> QED
      BY <1>3, <1>4, <2>2, <3>1, <3>3
  <2>3. Commit \in Elems(normal)' => Commit \in pending'
    BY <1>3, <1>6, <2>1, PayloadsDiffer DEF RefusalsInv, Stands
  <2> QED
    BY <1>3, <2>2, <2>3 DEF RefusalsInv
<1> QED
  BY <1>5, <1>6 DEF TakesResponse, TakesSpeech, TakesRefusal

(* Something else is queued for sending.                                   *)
LEMMA RefusalsEnqueued ==
  ASSUME Types, RefusalsInv, NEW p \in {AppendPayload, Commit, Create}, inbox' = inbox,
         Elems(normal)' = Elems(normal) \cup {p}, UNCHANGED <<groups, told, races>>,
         pending \subseteq pending', p = Commit => Commit \in pending' /\ ~Committing(encoder),
         Committing(encoder) => Committing(encoder')
  PROVE  RefusalsInv'
<1>1. Elems(inbox)' = Elems(inbox) /\ Distinct(inbox)'
  BY DEF Elems, RefusalsInv, Distinct
<1>2. ASSUME NEW x \in Elems(inbox), x.kind = "error" PROVE Stands(x)'
  <2>1. Stands(x)
    BY <1>2 DEF RefusalsInv
  <2>2. x.benign => x.on # p
    <3>1. x.benign => (x.on = Commit /\ Committing(encoder)) \/ \E r \in told : x.on = Cancel(r)
      BY <2>1 DEF Stands, Committing
    <3> QED
      BY <3>1, ControlsDiffer, PayloadsDiffer
  <2>3. x.benign => /\ x.on \in pending'
                    /\ x.on \notin Elems(normal)'
                    /\ \A j \in 1..Len(groups)' : groups'[j][1] # x.on
    BY <2>1, <2>2 DEF Stands
  <2> QED
    BY <2>1, <2>3, StandsKept
<1>3. Commit \in Elems(normal)' => Commit \in pending'
  BY DEF RefusalsInv
<1> QED
  BY <1>1, <1>2, <1>3 DEF RefusalsInv

(* An interrupt makes its cancel pending before it can be refused.         *)
LEMMA RefusalsInterrupt ==
  ASSUME Types, backend = "realtime", NormalInv, ControlsInv, RefusalsInv, NEW r \in Responses, RealtimeInterrupt(r)
  PROVE  RefusalsInv'
<1>1. UNCHANGED <<inbox, normal, races, encoder>> /\ told' = told \cup {r}
  BY DEF RealtimeInterrupt, link, tasks
<1>2. /\ pending \subseteq pending' /\ r \notin told
      /\ \A j \in 1..Len(groups') : (j \in 1..Len(groups) /\ groups'[j] = groups[j]) \/ groups'[j][1] = Cancel(r)
  BY ControlsInterrupt
<1>3. Elems(inbox)' = Elems(inbox) /\ Elems(normal)' = Elems(normal) /\ Distinct(inbox)'
  BY <1>1 DEF Elems, RefusalsInv, Distinct
<1>4. ASSUME NEW x \in Elems(inbox), x.kind = "error" PROVE Stands(x)'
  <2>1. Stands(x)
    BY <1>4 DEF RefusalsInv
  <2>2. x.benign => x.on # Cancel(r)
    BY <1>2, <2>1, ControlsDiffer DEF Stands
  <2>3. x.benign => /\ x.on \in pending'
                    /\ x.on \notin Elems(normal)'
                    /\ \A j \in 1..Len(groups)' : groups'[j][1] # x.on
    BY <1>2, <1>3, <2>1, <2>2 DEF Stands
  <2> QED
    BY <1>1, <2>1, <2>3, StandsKept
<1>5. Commit \in Elems(normal)' => Commit \in pending'
  BY <1>2, <1>3 DEF RefusalsInv
<1> QED
  BY <1>3, <1>4, <1>5 DEF RefusalsInv

(* All of Realtime but the flow of its events.                             *)
Waiting == encoder = "done" /\ ~gaveUp => Completed

CommandInv ==
  TurnsInv /\ NormalPhase /\ DoneInv /\ ControlsInv /\ RefusalsInv /\ CauseInv /\ OverInv /\ Waiting

LEMMA CommandKept ==
  ASSUME CommandInv, UNCHANGED <<answered, active, inbox, responseDone, group, groups, last>>,
         UNCHANGED <<broken, races, conn, outQ, caller>>,
         pending \subseteq pending', receiver' = receiver
  PROVE  /\ DoneInv' /\ ControlsInv' /\ OverInv'
         /\ UNCHANGED pump /\ (encoder = "done" => encoder' = "done")
              /\ (encoder' = "failed" => encoder = "failed") => CauseInv'
<1>1. DoneInv'
  BY DoneKept DEF CommandInv
<1>2. ControlsInv'
  <2>1. \A i \in 1..Len(groups) : \A r : groups[i][1] = Cancel(r) => Cancel(r) \in pending'
    <3> SUFFICES ASSUME NEW i \in 1..Len(groups), NEW r, groups[i][1] = Cancel(r)
                 PROVE  Cancel(r) \in pending
      OBVIOUS
    <3>1. PICK s \in told : /\ groups[i] \in {<<Cancel(s)>>, <<Cancel(s), Truncate(s)>>}
                            /\ Cancel(s) \in pending
      BY DEF CommandInv, ControlsInv
    <3>2. groups[i][1] = Cancel(s)
      BY <3>1
    <3> QED
      BY <3>1, <3>2
  <2> QED
    BY <2>1, ControlsKept DEF CommandInv, caller
<1>3. OverInv'
  BY OverKept DEF CommandInv, caller
<1>4. Elems(outQ)' = Elems(outQ)
  BY DEF Elems
<1>5. UNCHANGED pump /\ (encoder = "done" => encoder' = "done")
        /\ (encoder' = "failed" => encoder = "failed") => CauseInv'
  BY <1>4, CauseKept DEF CommandInv, caller
<1> QED
  BY <1>1, <1>2, <1>3, <1>5

(* The encoder's steps keep what is known of commands.                     *)
LEMMA CommandEncoder ==
  ASSUME Types, backend = "realtime", backend' = backend, CommandInv,
         AppendAudio \/ FinishInput \/ Settled \/ Acknowledged \/ \E timeout \in BOOLEAN : FinalResponse(timeout)
  PROVE  DoneInv' /\ ControlsInv' /\ RefusalsInv' /\ CauseInv' /\ OverInv' /\ Waiting'
<1>0. NormalPhase /\ RefusalsInv /\ encoder # "done" /\ Waiting /\ stream = "open"
  BY DEF CommandInv, AppendAudio, FinishInput, Settled, Acknowledged, FinalResponse
<1>1. /\ UNCHANGED <<answered, active, inbox, responseDone, group, groups, last>>
      /\ UNCHANGED <<broken, races, conn, outQ, caller>> /\ receiver' = receiver
      /\ UNCHANGED pump
  BY DEF AppendAudio, FinishInput, Settled, Acknowledged, FinalResponse, provider, link, machine,
         outbound, realtimeVars
<1>2. encoder' # "failed"
  BY DEF AppendAudio, FinishInput, Settled, Acknowledged, FinalResponse, outbound, realtimeVars
<1>3. pending \subseteq pending'
  BY DEF AppendAudio, FinishInput, Settled, Acknowledged, FinalResponse, outbound, realtimeVars
<1>4. DoneInv' /\ ControlsInv' /\ OverInv' /\ CauseInv'
  BY <1>0, <1>1, <1>2, <1>3, CommandKept
<1>5. Completed' = Completed
  BY <1>1 DEF Completed
<1>6. told' = told
  BY <1>1 DEF caller
<1>7. CASE AppendAudio
  <2>1. encoder = "audio" /\ Enqueue(AppendPayload) /\ encoder' = encoder
    BY <1>7 DEF AppendAudio, AppendPayload
  <2>2. Create \notin Elems(normal) /\ Commit \notin Elems(normal)
    BY <1>0, <2>1 DEF NormalPhase, PhaseInv, CreateDue
  <2>3. Elems(normal)' = Elems(normal) \cup {AppendPayload}
    BY <1>0, <2>1, <2>2, NormalEnqueued DEF NormalPhase
  <2>4. RefusalsInv'
    BY <1>0, <1>1, <1>3, <1>6, <2>1, <2>3, RefusalsEnqueued, PayloadsDiffer
  <2> QED
    BY <1>0, <1>4, <2>1, <2>4 DEF Waiting
<1>8. CASE FinishInput
  <2>1. encoder = "audio" /\ (encoder' = "done" => gaveUp') /\ normal' = normal /\ ~Committing(encoder)
    BY <1>8 DEF FinishInput, realtimeVars, outbound, Committing
  <2>2. RefusalsInv'
    BY <1>0, <1>1, <1>3, <1>6, <2>1, RefusalsKept
  <2> QED
    BY <1>4, <2>1, <2>2 DEF Waiting
<1>9. CASE Settled
  <2>1. encoder = "settle" /\ encoder' \in {"ack", "final"} /\ ~Committing(encoder)
    BY <1>9 DEF Settled, Committing
  <2>2. RefusalsInv'
    <3>1. CASE eof = "speech_pending"
      <4>1. Enqueue(Commit) /\ pending' = pending \cup {Commit}
        BY <1>9, <3>1 DEF Settled
      <4>2. Create \notin Elems(normal) /\ Commit \notin Elems(normal)
        BY <1>0, <2>1 DEF NormalPhase, PhaseInv, CreateDue
      <4>3. Elems(normal)' = Elems(normal) \cup {Commit}
        BY <1>0, <4>1, <4>2, NormalEnqueued DEF NormalPhase
      <4> QED
        BY <1>0, <1>1, <1>3, <1>6, <2>1, <4>1, <4>3, RefusalsEnqueued
    <3>2. CASE eof # "speech_pending"
      <4>1. normal' = normal
        BY <1>9, <3>2 DEF Settled
      <4> QED
        BY <1>0, <1>1, <1>3, <1>6, <2>1, <4>1, RefusalsKept
    <3> QED
      BY <3>1, <3>2
  <2> QED
    BY <1>4, <2>1, <2>2 DEF Waiting
<1>10. CASE Acknowledged
  <2>1. encoder = "ack" /\ encoder' = "final" /\ Committing(encoder')
    BY <1>10 DEF Acknowledged, Committing
  <2>2. RefusalsInv'
    <3>1. CASE NeedsCreate
      <4>1. Enqueue(Create) /\ Create \notin Elems(normal)
        BY <1>0, <1>10, <2>1, <3>1 DEF Acknowledged, Create, NormalPhase, PhaseInv
      <4>2. Elems(normal)' = Elems(normal) \cup {Create}
        BY <1>0, <4>1, NormalEnqueued DEF NormalPhase
      <4> QED
        BY <1>0, <1>1, <1>3, <1>6, <2>1, <4>2, RefusalsEnqueued, PayloadsDiffer
    <3>2. CASE ~NeedsCreate
      <4>1. normal' = normal
        BY <1>10, <3>2 DEF Acknowledged
      <4> QED
        BY <1>0, <1>1, <1>3, <1>6, <2>1, <4>1, RefusalsKept
    <3> QED
      BY <3>1, <3>2
  <2> QED
    BY <1>4, <2>1, <2>2 DEF Waiting
<1>11. ASSUME NEW timeout \in BOOLEAN, FinalResponse(timeout) PROVE RefusalsInv' /\ Waiting'
  <2>1. encoder = "final" /\ encoder' = "done" /\ normal' = normal /\ gaveUp' = (gaveUp \/ ~responseDone)
        /\ Committing(encoder')
    BY <1>11 DEF FinalResponse, realtimeVars, outbound, Committing
  <2>2. ~gaveUp' => Completed
    BY <2>1 DEF CommandInv, DoneInv
  <2>3. RefusalsInv'
    BY <1>0, <1>1, <1>3, <1>6, <2>1, RefusalsKept
  <2> QED
    BY <1>5, <2>1, <2>2, <2>3 DEF Waiting
<1> QED
  BY <1>4, <1>7, <1>8, <1>9, <1>10, <1>11

(* The invariant of commands is kept by every step of Realtime.            *)
LEMMA CommandRealtime ==
  ASSUME Types, RealtimeStep, backend' = backend, CommandInv
  PROVE  CommandInv'
<1>0. backend = "realtime" /\ StreamTypes
  BY DEF RealtimeStep, Types
<1>1. NormalPhase' /\ TurnsInv'
  BY PhaseRealtime DEF CommandInv
<1>2. CASE AppendAudio \/ FinishInput \/ Settled \/ Acknowledged \/ \E timeout \in BOOLEAN : FinalResponse(timeout)
  BY <1>0, <1>1, <1>2, CommandEncoder DEF CommandInv
<1>3. ASSUME UNCHANGED <<encoder, gaveUp>>, Completed => Completed' PROVE Waiting'
  BY <1>3 DEF Waiting, CommandInv
<1>4. CASE RealtimeReceives
  <2>1. PICK e \in Wire : TakesResponse(e) \/ TakesSpeech(e) \/ TakesRefusal(e)
    BY <1>0, <1>4, ReceivesSays
  <2>2. Takes(e)
    BY <2>1 DEF TakesResponse, TakesSpeech, TakesRefusal
  <2>3. UNCHANGED <<encoder, gaveUp>>
    BY <2>2 DEF Takes
  <2>4. receiver' = receiver \/ receiver' = "done"
    BY <2>1 DEF TakesResponse, TakesSpeech, TakesRefusal
  <2>5. OverInv'
    BY <2>2, <2>4, OverKept DEF Takes, caller, CommandInv
  <2>6. DoneInv' /\ Waiting'
    BY <1>0, <1>3, <1>4, <2>3, DoneReceives DEF CommandInv
  <2>7. CauseInv' /\ ControlsInv' /\ RefusalsInv'
    BY <1>0, <1>4, CauseReceives, ControlsReceives, RefusalsReceives DEF CommandInv
  <2> QED
    BY <1>1, <2>5, <2>6, <2>7 DEF CommandInv
<1>5. ASSUME UNCHANGED <<conn, broken, tasks, caller, pump>>, races \subseteq races'
      PROVE  OverInv' /\ CauseInv' /\ UNCHANGED <<encoder, gaveUp>>
  <2>1. UNCHANGED <<encoder, gaveUp, receiver, outQ, closing, stream, yielded, told>> /\ Elems(outQ)' = Elems(outQ)
    BY <1>5 DEF tasks, caller, Elems
  <2>2. OverInv'
    BY <1>5, <2>1, OverKept DEF CommandInv
  <2>3. CauseInv'
    BY <1>5, <2>1, CauseKept DEF CommandInv
  <2> QED
    BY <2>1, <2>2, <2>3
<1>6. CASE PumpSends
  <2>1. PumpLeaves /\ races \subseteq races'
    BY <1>0, <1>6, PumpSays DEF CommandInv, NormalPhase, SendsTruncate, SendsCancel, SendsAppend,
       SendsCommit, SendsCreate
  <2>2. OverInv' /\ CauseInv' /\ UNCHANGED <<encoder, gaveUp>>
    BY <1>5, <2>1 DEF PumpLeaves
  <2>3. DoneInv' /\ Waiting'
    BY <1>0, <1>3, <1>6, <2>2, DonePump DEF CommandInv, NormalPhase
  <2>4. ControlsInv' /\ RefusalsInv'
    BY <1>0, <1>6, ControlsPump, RefusalsPump DEF CommandInv, NormalPhase
  <2> QED
    BY <1>1, <2>2, <2>3, <2>4 DEF CommandInv
<1>7. CASE ServerStep
  <2>1. UNCHANGED <<conn, broken, tasks, caller, realtimeVars>>
    BY <1>0, <1>7, ServerSays
  <2>2. OverInv' /\ CauseInv' /\ UNCHANGED <<encoder, gaveUp>>
    BY <1>5, <2>1 DEF realtimeVars, outbound
  <2>3. DoneInv' /\ Waiting'
    BY <1>0, <1>3, <1>7, <2>2, DoneServer DEF CommandInv
  <2>4. RefusalsInv'
    BY <1>0, <1>7, RefusalsServer DEF CommandInv
  <2>5. ControlsInv'
    BY <2>1 DEF realtimeVars, outbound, caller, CommandInv, ControlsInv
  <2> QED
    BY <1>1, <2>2, <2>3, <2>4, <2>5 DEF CommandInv
<1>8. CASE PumpFails
  <2>1. /\ UNCHANGED <<answered, active, inbox, responseDone, group, groups, last, normal>>
        /\ UNCHANGED <<races, conn, outQ, caller, pending, receiver, encoder, gaveUp>>
        /\ stream = "open" /\ broken' = (broken \/ conn = "open")
    BY <1>8 DEF PumpFails, provider, tasks, machine
  <2>2. DoneInv'
    BY <2>1, DoneKept DEF CommandInv
  <2>3. ControlsInv'
    BY <2>1 DEF caller, CommandInv, ControlsInv
  <2>4. OverInv'
    BY <2>1, OverKept DEF CommandInv, caller
  <2>5. RefusalsInv'
    BY <2>1, RefusalsKept DEF CommandInv, caller
  <2>6. CauseInv'
    <3>1. conn \in {"open", "closed", "hungup", "lost"}
      BY <1>0 DEF StreamTypes
    <3>2. Elems(outQ)' = Elems(outQ) /\ stream' = stream /\ closing' = closing
      BY <2>1 DEF Elems, caller
    <3> QED
      BY <2>1, <3>1, <3>2 DEF CommandInv, CauseInv, RaisesForCause
  <2>7. Waiting'
    <3>1. Completed' = Completed
      BY <2>1 DEF Completed
    <3> QED
      BY <1>3, <2>1, <3>1
  <2> QED
    BY <1>1, <2>2, <2>3, <2>4, <2>5, <2>6, <2>7 DEF CommandInv
<1>9. ASSUME NEW r \in Responses, RealtimeInterrupt(r) PROVE CommandInv'
  <2>1. /\ UNCHANGED <<answered, active, inbox, responseDone, races, conn, outQ, pump, broken, receiver,
                       encoder, gaveUp, closing, stream, yielded>>
        /\ MayInterrupt(r) /\ told' = told \cup {r}
    BY <1>9 DEF RealtimeInterrupt, provider, link, tasks, machine
  <2>2. DoneInv'
    BY <2>1, DoneKept DEF CommandInv
  <2>3. ControlsInv' /\ RefusalsInv'
    BY <1>0, <1>9, ControlsInterrupt, RefusalsInterrupt DEF CommandInv, NormalPhase
  <2>4. OverInv'
    BY <2>1, OverTold DEF CommandInv
  <2>5. CauseInv'
    <3>1. Elems(outQ)' = Elems(outQ)
      BY <2>1 DEF Elems
    <3> QED
      BY <2>1, <3>1, CauseKept DEF CommandInv
  <2>6. Waiting'
    <3>1. Completed' = Completed
      BY <2>1 DEF Completed
    <3> QED
      BY <1>3, <2>1, <3>1
  <2> QED
    BY <1>1, <2>2, <2>3, <2>4, <2>5, <2>6 DEF CommandInv
<1> QED
  BY <1>2, <1>4, <1>6, <1>7, <1>8, <1>9 DEF RealtimeStep, RealtimeTasks

(* The parts that both adapters have, and those of Realtime alone.         *)
LEMMA CommonStream ==
  ASSUME Types, StreamStep, backend' = backend, TurnsInv, CauseInv, OverInv, Waiting
  PROVE  TurnsInv' /\ CauseInv' /\ OverInv' /\ Waiting'
<1>0. StreamLeaves /\ StreamTypes
  BY StreamSays DEF Types
<1>1. UNCHANGED <<spoken, ended, owed, active, answered, normal, races, gaveUp>>
  BY <1>0 DEF StreamLeaves, provider, realtimeVars, outbound
<1>2. Elems(normal)' = Elems(normal) /\ Completed' = Completed
  BY <1>1 DEF Elems, Completed
<1>3. encoder' = encoder \/ (encoder = "audio" /\ encoder' = "failed")
  BY <1>0 DEF StreamLeaves
<1>4. TurnsInv'
  BY <1>0, <1>1, <1>2, <1>3, TurnsKept
<1>5. Waiting'
  BY <1>1, <1>2, <1>3 DEF Waiting
<1> QED
  BY <1>4, <1>5, CauseStream, OverStream

LEMMA CommandStream ==
  ASSUME Types, backend = "realtime", StreamStep, backend' = backend, CommandInv
  PROVE  CommandInv'
<1>0. StreamLeaves
  BY StreamSays
<1>1. UNCHANGED <<answered, active, responseDone, normal, group, groups, last, pending, races, told>>
  BY <1>0 DEF StreamLeaves, provider, realtimeVars, outbound, machine
<1>2. /\ inbox' = inbox \/ inbox' = <<>>
      /\ Committing(encoder) => Committing(encoder')
  BY <1>0 DEF StreamLeaves, Committing
<1>3. DoneInv'
  BY <1>1, <1>2, DoneKept DEF CommandInv
<1>4. ControlsInv'
  BY <1>1 DEF CommandInv, ControlsInv
<1>5. RefusalsInv'
  BY <1>1, <1>2, RefusalsKept DEF CommandInv
<1>6. PhaseInv' /\ CommitInv'
  BY PhaseStream DEF CommandInv, NormalPhase
<1>7. NormalInv'
  BY <1>1 DEF CommandInv, NormalPhase, NormalInv, Elems
<1> QED
  BY <1>3, <1>4, <1>5, <1>6, <1>7, CommonStream DEF CommandInv, NormalPhase

---------------------------------------------------------------------------
(* The events of a response, on their way to the caller. *)

(* The order of events, when one arrives or is taken.                      *)
LEMMA OrderAppend ==
  ASSUME NEW S, NEW q \in Seq(S), NEW e \in S, InOrder(q), \A x \in Elems(q) : Before(x, e)
  PROVE  InOrder(Append(q, e))
<1> PICK p : p = Append(q, e)
  OBVIOUS
<1>1. /\ Len(p) = Len(q) + 1 /\ p[Len(q) + 1] = e /\ Len(q) \in Nat
      /\ \A i \in 1..Len(q) : p[i] = q[i] /\ q[i] \in Elems(q)
  BY AppendElems, LenProperties DEF Elems
<1>2. ASSUME NEW i \in 1..Len(p), NEW j \in 1..Len(p), i < j PROVE Before(p[i], p[j])
  <2>1. i \in 1..Len(q) /\ (j \in 1..Len(q) \/ j = Len(q) + 1)
    BY <1>1, <1>2
  <2>2. CASE j \in 1..Len(q)
    <3>1. Before(q[i], q[j])
      BY <1>2, <2>1, <2>2 DEF InOrder
    <3> QED
      BY <1>1, <2>1, <2>2, <3>1
  <2>3. CASE j = Len(q) + 1
    BY <1>1, <2>1, <2>3
  <2> QED
    BY <2>1, <2>2, <2>3
<1> QED
  BY <1>2 DEF InOrder

LEMMA OrderTail ==
  ASSUME NEW S, NEW q \in Seq(S), q # <<>>, InOrder(q)
  PROVE  InOrder(Tail(q)) /\ \A x \in Elems(Tail(q)) : Before(q[1], x)
<1> PICK p : p = Tail(q)
  OBVIOUS
<1>1. /\ Len(p) = Len(q) - 1 /\ Len(q) >= 1 /\ Len(q) \in Nat
      /\ \A i \in 1..Len(p) : p[i] = q[i + 1] /\ i + 1 \in 1..Len(q)
  BY TailElems, LenProperties
<1>2. ASSUME NEW i \in 1..Len(p), NEW j \in 1..Len(p), i < j PROVE Before(p[i], p[j])
  <2>1. i + 1 < j + 1
    BY <1>2
  <2>2. Before(q[i + 1], q[j + 1])
    BY <1>1, <2>1 DEF InOrder
  <2> QED
    BY <1>1, <2>2
<1>3. ASSUME NEW i \in 1..Len(p) PROVE Before(q[1], p[i])
  <2>1. 1 < i + 1 /\ 1 \in 1..Len(q)
    BY <1>1
  <2>2. Before(q[1], q[i + 1])
    BY <1>1, <2>1 DEF InOrder
  <2> QED
    BY <1>1, <2>2
<1> QED
  BY <1>2, <1>3 DEF InOrder, Elems

LEMMA OrderEmpty == InOrder(<<>>) /\ \A top : Fits({}, top)
  BY DEF InOrder, Fits

(* What is no event of a response is before and after anything.            *)
LEMMA OrderIdle ==
  ASSUME NEW e, e.kind \notin Kinds
  PROVE  \A x : Before(x, e) /\ Before(e, x)
BY DEF Before

(* What yielding an event counts.                                          *)
LEMMA YieldIs ==
  ASSUME yielded \in [Kinds -> [Responses -> Nat]], NEW e \in Item, Yields(e), e.resp \in Responses
  PROVE  \A k \in Kinds, r \in Responses :
           yielded'[k][r] = IF k = e.kind /\ r = e.resp THEN yielded[k][r] + 1 ELSE yielded[k][r]
BY DEF Yields

(* An event is yielded when all before it have been.                       *)
LEMMA YieldKeeps ==
  ASSUME yielded \in [Kinds -> [Responses -> Nat]], NEW e \in Item, Yields(e),
         NEW T, NEW top \in Nat, top <= 2 * MaxTurns,
         \A x \in T : Before(e, x), \A x \in T : x.kind \in Kinds => x.resp \in Nat,
         Fits({e} \cup T, top)
  PROVE  /\ Fits(T, top)'
         /\ \A r \in Responses : Announced(r, {e} \cup T) => Announced(r, T)'
         /\ \A r \in Responses : Unfinished(r, {e} \cup T) => Unfinished(r, T)'
         /\ \A r \in Responses : r > top /\ Fresh(r) => Fresh(r)'
<1>0. /\ "started" \in Kinds /\ "done" \in Kinds /\ e.kind \in Kinds /\ MaxTurns \in Nat
      /\ e.resp \in Nat
  BY ItemTypes, ResponsesAre DEF Yields, Item
<1>1. /\ 1 <= e.resp /\ e.resp <= top
      /\ e.kind = "started" => yielded["started"][e.resp] = 0
      /\ e.kind # "started" => yielded["done"][e.resp] = 0
  BY <1>0 DEF Fits
<1>2. e.resp \in Responses /\ \A r \in Responses : r \in Nat
  BY <1>0, <1>1 DEF Responses
<1>3. \A k \in Kinds, r \in Responses :
        yielded'[k][r] = IF k = e.kind /\ r = e.resp THEN yielded[k][r] + 1 ELSE yielded[k][r]
  BY <1>2, YieldIs
<1>4. \A k \in Kinds, r \in Responses : yielded[k][r] \in Nat
  OBVIOUS
<1>5. \A r \in Responses : /\ e # Event("started", r) => e.kind # "started" \/ e.resp # r
                           /\ e # Event("done", r) => e.kind # "done" \/ e.resp # r
  BY DEF Item, Event
<1>6. ASSUME NEW r \in Responses, Announced(r, {e} \cup T) PROVE Announced(r, T)'
  <2>1. CASE yielded["started"][r] = 1
    <3>1. ~("started" = e.kind /\ r = e.resp)
      BY <1>1, <2>1
    <3>2. yielded'["started"][r] = 1
      BY <1>0, <1>3, <2>1, <3>1
    <3> QED
      BY <3>2 DEF Announced
  <2>2. CASE e = Event("started", r)
    <3>1. e.kind = "started" /\ e.resp = r
      BY <2>2, PayloadFacts
    <3>2. yielded'["started"][r] = 1
      BY <1>0, <1>1, <1>3, <3>1
    <3> QED
      BY <3>2 DEF Announced
  <2>3. CASE Event("started", r) \in T
    BY <2>3 DEF Announced
  <2> QED
    BY <1>6, <2>1, <2>2, <2>3 DEF Announced
<1>7. ASSUME NEW r \in Responses, Unfinished(r, {e} \cup T) PROVE Unfinished(r, T)'
  <2>1. yielded["done"][r] = 0 /\ e # Event("done", r) /\ Event("done", r) \notin T
    BY <1>7 DEF Unfinished
  <2>2. yielded'["done"][r] = 0
    BY <1>0, <1>3, <1>5, <2>1
  <2> QED
    BY <2>1, <2>2 DEF Unfinished
<1>8. ASSUME NEW r \in Responses, r > top, Fresh(r) PROVE Fresh(r)'
  <2>1. r # e.resp
    BY <1>0, <1>1, <1>2, <1>8
  <2>2. yielded'["started"][r] = yielded["started"][r] /\ yielded'["done"][r] = yielded["done"][r]
    BY <1>0, <1>3, <2>1
  <2> QED
    BY <1>8, <2>2 DEF Fresh
<1>9. ASSUME NEW x \in T, x.kind \in Kinds
      PROVE  /\ 1 <= x.resp /\ x.resp <= top
             /\ IF x.kind = "started" THEN yielded'["started"][x.resp] = 0
                ELSE yielded'["done"][x.resp] = 0 /\ Announced(x.resp, T)'
  <2>1. /\ 1 <= x.resp /\ x.resp <= top
        /\ IF x.kind = "started" THEN yielded["started"][x.resp] = 0
           ELSE yielded["done"][x.resp] = 0 /\ Announced(x.resp, {e} \cup T)
    BY <1>9 DEF Fits
  <2>2. x.resp \in Nat /\ x.resp \in Responses
    BY <1>0, <1>9, <2>1 DEF Responses
  <2>3. e.resp = x.resp => \/ e.kind = "started" /\ x.kind # "started"
                           \/ e.kind = "audio" /\ x.kind # "started"
    BY <1>0, <1>9 DEF Before
  <2>4. CASE x.kind = "started"
    <3>1. ~("started" = e.kind /\ x.resp = e.resp)
      BY <2>3, <2>4
    <3> QED
      BY <1>0, <1>3, <2>1, <2>2, <2>4, <3>1
  <2>5. CASE x.kind # "started"
    <3>1. ~("done" = e.kind /\ x.resp = e.resp)
      BY <2>3
    <3> QED
      BY <1>0, <1>3, <1>6, <2>1, <2>2, <2>5, <3>1
  <2> QED
    BY <2>1, <2>4, <2>5
<1>10. Fits(T, top)'
  BY <1>9 DEF Fits
<1> QED
  BY <1>6, <1>7, <1>8, <1>10

(* A new event fits what is under way.                                     *)
LEMMA FitsGrows ==
  ASSUME NEW S, NEW e, NEW top \in Nat, NEW n \in Nat, top <= n, Fits(S, top),
         \A x \in S : x.kind \in Kinds => x.resp \in Nat,
         e.kind \in Kinds =>
           /\ 1 <= e.resp /\ e.resp <= n
           /\ IF e.kind = "started" THEN yielded["started"][e.resp] = 0
              ELSE yielded["done"][e.resp] = 0 /\ Announced(e.resp, S)
  PROVE  Fits(S \cup {e}, n) /\ \A r : Announced(r, S) => Announced(r, S \cup {e})
<1>1. \A r : Announced(r, S) => Announced(r, S \cup {e})
  BY DEF Announced
<1>2. ASSUME NEW x \in S, x.kind \in Kinds
      PROVE  /\ 1 <= x.resp /\ x.resp <= n
             /\ IF x.kind = "started" THEN yielded["started"][x.resp] = 0
                ELSE yielded["done"][x.resp] = 0 /\ Announced(x.resp, S)
  BY <1>2 DEF Fits
<1> QED
  BY <1>1, <1>2 DEF Fits

LEMMA ResponsesFit ==
  ASSUME StreamTypes, TurnsInv
  PROVE  /\ Len(answered) \in Nat /\ Len(answered) <= 2 * MaxTurns
         /\ owed # <<>> => Len(answered) + 1 <= 2 * MaxTurns
         /\ \A r \in Nat : 1 <= r /\ r <= Len(answered) => r \in Responses
<1>1. /\ Len(Due) = Len(answered) + Len(owed) /\ Len(answered) \in Nat /\ Len(owed) \in Nat
      /\ ended \in Nat /\ spoken \in Nat /\ MaxTurns \in Nat /\ Len(Due) \in Nat
  BY DueIs, ResponsesAre DEF StreamTypes
<1>2. owed # <<>> => Len(owed) >= 1
  BY TailElems DEF StreamTypes
<1>3. /\ ended <= MaxTurns /\ Len(Due) <= ended + 1
      /\ Len(Due) = ended + 1 => ended >= 1
  BY <1>1 DEF TurnsInv
<1>4. \A d, e, m \in Nat : e <= m /\ d <= e + 1 /\ (d = e + 1 => e >= 1) => d <= 2 * m
  OBVIOUS
<1>5. Len(Due) <= 2 * MaxTurns
  BY <1>1, <1>3, <1>4
<1>6. Len(answered) <= 2 * MaxTurns /\ (owed # <<>> => Len(answered) + 1 <= 2 * MaxTurns)
  <2>1. \A d, a, o, m \in Nat : d = a + o /\ d <= m => a <= m /\ (o >= 1 => a + 1 <= m)
    OBVIOUS
  <2>2. 2 * MaxTurns \in Nat
    BY <1>1
  <2> QED
    BY <1>1, <1>2, <1>5, <2>1, <2>2
<1>7. \A r \in Nat : 1 <= r /\ r <= Len(answered) => r \in Responses
  BY <1>1, <1>6 DEF Responses
<1> QED
  BY <1>1, <1>6, <1>7

(* All that is under way to the caller.                                    *)
FlowAll == Elems(outQ) \cup Elems(inbox)

LEMMA FlowTypes ==
  ASSUME Types
  PROVE  /\ \A x \in Elems(outQ) : x.kind \in Kinds => x.resp \in Nat
         /\ backend = "realtime" => \A x \in Elems(inbox) : x.kind \in Kinds => x.resp \in Nat
<1>1. Elems(outQ) \subseteq Item
  BY ElemsIn DEF Types, StreamTypes
<1>2. backend = "realtime" => Elems(inbox) \subseteq Wire
  BY ElemsIn DEF Types, InboxTypes
<1>3. \A x \in Item : x.resp \in Nat
  BY DEF Item
<1> QED
  BY <1>1, <1>2, <1>3, ItemTypes

LEMMA FlowSame ==
  ASSUME RealtimeFlow, UNCHANGED <<outQ, inbox, stream, yielded, answered>>, active' \in {0, active}
  PROVE  RealtimeFlow'
<1>1. Elems(outQ)' = Elems(outQ) /\ Elems(inbox)' = Elems(inbox)
  BY DEF Elems
<1> QED
  BY <1>1 DEF RealtimeFlow, InOrder, AllBefore, Fits, Announced, Unfinished, Fresh

(* The server sends one more.                                              *)
LEMMA FlowArrives ==
  ASSUME Types, backend = "realtime", TurnsInv, RealtimeFlow, stream = "open",
         NEW e \in Wire, inbox' = Append(inbox, e), UNCHANGED <<outQ, yielded, stream>>,
         Len(answered') \in Nat, Len(answered) <= Len(answered'),
         \A x \in FlowAll : Before(x, e),
         e.kind \in Kinds =>
           /\ 1 <= e.resp /\ e.resp <= Len(answered')
           /\ IF e.kind = "started" THEN yielded["started"][e.resp] = 0
              ELSE yielded["done"][e.resp] = 0 /\ Announced(e.resp, FlowAll),
         active' # 0 =>
           \/ active' = active /\ e # Event("done", active)
           \/ e = Event("started", active') /\ Unfinished(active', FlowAll)
  PROVE  RealtimeFlow'
<1>0. /\ inbox \in Seq(Wire) /\ Len(answered) \in Nat
      /\ InOrder(outQ) /\ InOrder(inbox) /\ AllBefore(Elems(outQ), Elems(inbox))
      /\ Fits(FlowAll, Len(answered))
      /\ active # 0 => Announced(active, FlowAll) /\ Unfinished(active, FlowAll)
      /\ \A r \in Responses : r > Len(answered) => Fresh(r)
  BY DueIs DEF Types, InboxTypes, StreamTypes, RealtimeFlow, FlowAll
<1>1. \A x \in FlowAll : x.kind \in Kinds => x.resp \in Nat
  BY FlowTypes DEF FlowAll
<1>2. Fits(FlowAll \cup {e}, Len(answered')) /\ \A r : Announced(r, FlowAll) => Announced(r, FlowAll \cup {e})
  BY <1>0, <1>1, FitsGrows
<1>3. InOrder(Append(inbox, e)) /\ Elems(Append(inbox, e)) = Elems(inbox) \cup {e}
  BY <1>0, AppendElems, OrderAppend DEF FlowAll
<1>4. Elems(outQ)' = Elems(outQ) /\ Elems(inbox)' = Elems(inbox) \cup {e}
  BY <1>3 DEF Elems
<1>5. InOrder(inbox)' /\ InOrder(outQ)' /\ AllBefore(Elems(outQ), Elems(inbox) \cup {e})
  BY <1>0, <1>3 DEF InOrder, AllBefore, FlowAll
<1>6. active' # 0 =>
        Announced(active', FlowAll \cup {e}) /\ Unfinished(active', FlowAll \cup {e})
  <2>1. CASE active' # 0 /\ active' = active /\ e # Event("done", active)
    BY <1>0, <1>2, <2>1 DEF Unfinished
  <2>2. CASE active' # 0 /\ e = Event("started", active') /\ Unfinished(active', FlowAll)
    <3>1. e # Event("done", active')
      BY <2>2 DEF Event
    <3> QED
      BY <2>2, <3>1 DEF Announced, Unfinished
  <2> QED
    BY <2>1, <2>2
<1>7. \A r \in Responses : r > Len(answered') => Fresh(r)
  BY <1>0, ResponsesAre
<1>8. Elems(outQ) \cup (Elems(inbox) \cup {e}) = FlowAll \cup {e}
  BY DEF FlowAll
<1> QED
  BY <1>2, <1>4, <1>5, <1>6, <1>7, <1>8 DEF RealtimeFlow, Fits, Announced, Unfinished, Fresh, AllBefore

(* An event on its way is one of a response.                               *)
LEMMA EventIs ==
  ASSUME Types, backend = "realtime"
  PROVE  \A x \in FlowAll : x.kind \in Kinds => x = Event(x.kind, x.resp) /\ x.resp \in Nat
<1>1. FlowAll \subseteq Item \cup Wire
  BY ElemsIn DEF Types, StreamTypes, InboxTypes, FlowAll
<1>2. \A x \in Item : x = Event(x.kind, x.resp) /\ x.resp \in Nat
  BY DEF Item, Event
<1>3. ASSUME NEW x \in Wire, x.kind \in Kinds PROVE x \in Item
  BY <1>3, ItemTypes
<1> QED
  BY <1>1, <1>2, <1>3

(* The response in progress has been announced, and is not over.           *)
LEMMA FlowActive ==
  ASSUME Types, backend = "realtime", TurnsInv, RealtimeFlow, stream = "open", active # 0,
         NEW k \in {"audio", "done"}
  PROVE  /\ Event(k, active) \in Wire /\ k \in Kinds
         /\ \A x \in FlowAll : Before(x, Event(k, active))
         /\ 1 <= active /\ active <= Len(answered)
         /\ yielded["done"][active] = 0 /\ Announced(active, FlowAll)
<1>0. active = Len(answered) /\ active \in Nat
  BY DEF TurnsInv, Types, StreamTypes
<1>1. Announced(active, FlowAll) /\ Unfinished(active, FlowAll)
  BY DEF RealtimeFlow, FlowAll
<1>2. k \in Kinds /\ Event(k, active) \in Wire
  BY <1>0, ItemTypes
<1>3. ASSUME NEW x \in FlowAll, x.kind \in Kinds, x.resp = active
      PROVE  x.kind \in {"started", "audio"}
  <2>1. x = Event(x.kind, active)
    BY <1>3, EventIs
  <2>2. x.kind # "done"
    BY <1>1, <1>3, <2>1 DEF Unfinished
  <2> QED
    BY <1>3, <2>2 DEF Kinds
<1>4. Event(k, active).kind # "started" /\ Event(k, active).resp = active
  BY PayloadFacts
<1>5. \A x \in FlowAll : Before(x, Event(k, active))
  BY <1>3, <1>4 DEF Before
<1> QED
  BY <1>0, <1>1, <1>2, <1>5 DEF Unfinished

(* The server goes on with its response, or begins one.                    *)
LEMMA FlowContinues ==
  ASSUME Types, backend = "realtime", TurnsInv, RealtimeFlow, stream = "open", active # 0,
         NEW k \in {"audio", "done"}, Receives(Event(k, active)),
         UNCHANGED <<outQ, yielded, stream, answered>>,
         active' = IF k = "done" THEN 0 ELSE active
  PROVE  RealtimeFlow'
<1>1. /\ Event(k, active) \in Wire /\ k \in Kinds
      /\ \A x \in FlowAll : Before(x, Event(k, active))
      /\ 1 <= active /\ active <= Len(answered)
      /\ yielded["done"][active] = 0 /\ Announced(active, FlowAll)
  BY FlowActive
<1>2. Event(k, active).kind = k /\ Event(k, active).resp = active /\ k # "started"
  BY PayloadFacts
<1>3. Len(answered') \in Nat /\ Len(answered) <= Len(answered')
  BY DueIs DEF Types
<1>4. active' # 0 => active' = active /\ Event(k, active) # Event("done", active)
  BY PayloadFacts
<1>5. inbox' = Append(inbox, Event(k, active))
  BY DEF Receives
<1>6. Event(k, active).kind \in Kinds =>
           /\ 1 <= Event(k, active).resp /\ Event(k, active).resp <= Len(answered')
           /\ IF Event(k, active).kind = "started" THEN yielded["started"][Event(k, active).resp] = 0
              ELSE yielded["done"][Event(k, active).resp] = 0 /\ Announced(Event(k, active).resp, FlowAll)
  BY <1>1, <1>2
<1> QED
  BY <1>1, <1>3, <1>4, <1>5, <1>6, FlowArrives

LEMMA FlowBegins ==
  ASSUME Types, backend = "realtime", TurnsInv, RealtimeFlow, stream = "open", ServerStarts,
         Receives(Event("started", Len(answered) + 1)), UNCHANGED <<outQ, yielded, stream>>
  PROVE  RealtimeFlow'
<1> DEFINE n == Len(answered) + 1
<1>0. Len(answered) \in Nat /\ n \in Nat /\ n \in Responses
  BY ResponsesFit DEF Types, ServerStarts, Responses
<1>1. Len(answered') = n
  BY AppendElems, TailElems DEF Types, StreamTypes, ServerStarts
<1>2. Fits(FlowAll, Len(answered)) /\ Fresh(n)
  BY <1>0 DEF RealtimeFlow, FlowAll
<1>3. ASSUME NEW x \in FlowAll, x.kind \in Kinds PROVE x.resp # n
  BY <1>0, <1>2, <1>3, EventIs DEF Fits
<1>4. Event("started", n).kind = "started" /\ Event("started", n).resp = n
  BY PayloadFacts
<1>5. \A x \in FlowAll : Before(x, Event("started", n))
  BY <1>3, <1>4 DEF Before
<1>6. Unfinished(n, FlowAll)
  BY <1>2, <1>3, PayloadFacts, ItemTypes DEF Unfinished, Fresh
<1>7. active' = n /\ 1 <= n /\ Len(answered) <= n
  BY <1>0 DEF ServerStarts
<1>8. Event("started", n) \in Wire /\ inbox' = Append(inbox, Event("started", n))
  BY <1>0, ItemTypes DEF Receives
<1> HIDE DEF n
<1> QED
  BY <1>0, <1>1, <1>2, <1>4, <1>5, <1>6, <1>7, <1>8, FlowArrives DEF Fresh

(* What is no event of a response changes nothing.                         *)
LEMMA FlowIdle ==
  ASSUME Types, backend = "realtime", TurnsInv, RealtimeFlow, stream = "open",
         NEW e \in Wire, e.kind \notin Kinds, Receives(e),
         UNCHANGED <<outQ, yielded, stream, answered, active>>
  PROVE  RealtimeFlow'
<1>1. Len(answered') \in Nat /\ Len(answered) <= Len(answered')
  BY DueIs DEF Types
<1>2. \A x \in FlowAll : Before(x, e)
  BY OrderIdle
<1>3. e # Event("done", active)
  BY PayloadFacts, ItemTypes
<1> QED
  BY <1>1, <1>2, <1>3, FlowArrives DEF Receives

(* The flow is kept by the server, the pump, the receiver and the caller.  *)
LEMMA FlowServer ==
  ASSUME Types, backend = "realtime", TurnsInv, RealtimeFlow, ServerStep
  PROVE  RealtimeFlow'
<1>0. UNCHANGED <<tasks, caller>>
  BY ServerSays
<1>1. UNCHANGED <<outQ, yielded, stream>>
  BY <1>0 DEF tasks, caller
<1>2. CASE stream # "open"
  BY <1>1, <1>2 DEF RealtimeFlow
<1>3. CASE stream = "open"
  <2>1. Event("speech", 0) \in Wire /\ Event("speech", 0).kind \notin Kinds
    BY ItemTypes, PayloadFacts DEF Kinds
  <2>2. Event("committed", spoken) \in Wire /\ Event("committed", spoken).kind \notin Kinds
    BY ItemTypes, PayloadFacts DEF Kinds, Types, StreamTypes
  <2>3. CASE ServerSpeech /\ Receives(Event("speech", 0))
    BY <1>1, <1>3, <2>1, <2>3, FlowIdle DEF ServerSpeech
  <2>4. CASE ServerOwes /\ Receives(Event("committed", spoken))
    BY <1>1, <1>3, <2>2, <2>4, FlowIdle DEF ServerOwes
  <2>5. CASE ServerStarts /\ Receives(Event("started", Len(answered) + 1))
    BY <1>1, <1>3, <2>5, FlowBegins
  <2>6. CASE ServerGoesOn /\ Receives(Event("audio", active))
    BY <1>1, <1>3, <2>6, FlowContinues DEF ServerGoesOn
  <2>7. CASE ServerEnds /\ Receives(Event("done", active))
    BY <1>1, <1>3, <2>7, FlowContinues DEF ServerEnds
  <2> QED
    BY <2>3, <2>4, <2>5, <2>6, <2>7, ServerSays
<1> QED
  BY <1>2, <1>3

LEMMA FlowPump ==
  ASSUME Types, backend = "realtime", TurnsInv, NormalInv, ControlsInv, RealtimeFlow, PumpSends
  PROVE  RealtimeFlow'
<1>0. PumpLeaves /\ stream = "open" /\ conn = "open"
  BY PumpSays
<1>1. UNCHANGED <<outQ, yielded, stream>>
  BY <1>0 DEF PumpLeaves, tasks, caller
<1>2. ASSUME NEW p \in Payloads, NEW b \in BOOLEAN
      PROVE  Refused(p, b) \in Wire /\ Refused(p, b).kind \notin Kinds
  BY ItemTypes, PayloadFacts DEF Kinds
<1>3. CASE SendsTruncate
  BY <1>1, <1>3, FlowSame DEF SendsTruncate, provider
<1>4. CASE \E r \in told : SendsCancel(r)
  <2>1. PICK r \in told : SendsCancel(r)
    BY <1>4
  <2>2. r \in Nat
    BY ResponsesAre DEF Types, StreamTypes
  <2>3. UNCHANGED answered
    BY <2>1 DEF SendsCancel
  <2>4. CASE active = r /\ active' = 0 /\ inbox' = Append(inbox, Event("done", r))
    <3>1. active # 0
      BY <2>4, ResponsesAre DEF Types, StreamTypes
    <3>2. Receives(Event("done", active))
      BY <1>0, <2>4 DEF Receives
    <3> QED
      BY <1>0, <1>1, <2>3, <2>4, <3>1, <3>2, FlowContinues
  <2>5. CASE active # r /\ active' = active /\ inbox' = Append(inbox, Refused(Cancel(r), TRUE))
    <3>1. Receives(Refused(Cancel(r), TRUE)) /\ Cancel(r) \in Payloads
      BY <1>0, <2>2, <2>5, ItemTypes DEF Receives
    <3> QED
      BY <1>0, <1>1, <1>2, <2>3, <2>5, <3>1, FlowIdle
  <2> QED
    BY <2>1, <2>4, <2>5 DEF SendsCancel
<1>5. CASE SendsAppend
  BY <1>1, <1>5, FlowSame DEF SendsAppend
<1>6. CASE SendsCommit
  <2>1. Event("committed", 0) \in Wire /\ Event("committed", 0).kind \notin Kinds
    BY ItemTypes, PayloadFacts DEF Kinds
  <2>2. \E e \in Wire : e.kind \notin Kinds /\ Receives(e)
    <3>1. CASE spoken > ended
      BY <1>0, <1>6, <2>1, <3>1 DEF SendsCommit, Receives
    <3>2. CASE ~(spoken > ended)
      BY <1>0, <1>2, <1>6, <3>2, ItemTypes DEF SendsCommit, Receives
    <3> QED
      BY <3>1, <3>2
  <2> QED
    BY <1>0, <1>1, <1>6, <2>2, FlowIdle DEF SendsCommit
<1>7. CASE SendsCreate
  <2>1. CASE inbox' = inbox
    BY <1>1, <1>7, <2>1, FlowSame DEF SendsCreate
  <2>2. CASE inbox' = Append(inbox, Refused(Create, FALSE))
    <3>1. Receives(Refused(Create, FALSE))
      BY <1>0, <2>2 DEF Receives
    <3> QED
      BY <1>0, <1>1, <1>2, <1>7, <3>1, FlowIdle, ItemTypes DEF SendsCreate
  <2> QED
    BY <1>7, <2>1, <2>2 DEF SendsCreate
<1> QED
  BY <1>3, <1>4, <1>5, <1>6, <1>7, PumpSays

(* Events move on, none of a response lost or new.                         *)
LEMMA FlowMoves ==
  ASSUME RealtimeFlow, UNCHANGED <<yielded, stream, answered, active>>,
         stream = "open" =>
           /\ InOrder(outQ)' /\ InOrder(inbox)' /\ AllBefore(Elems(outQ), Elems(inbox))'
           /\ \A x : x.kind \in Kinds => (x \in FlowAll' <=> x \in FlowAll)
  PROVE  RealtimeFlow'
<1>1. CASE stream # "open"
  BY <1>1 DEF RealtimeFlow
<1>2. CASE stream = "open"
  <2>1. /\ Fits(FlowAll, Len(answered))
        /\ active # 0 => Announced(active, FlowAll) /\ Unfinished(active, FlowAll)
        /\ \A r \in Responses : r > Len(answered) => Fresh(r)
    BY <1>2 DEF RealtimeFlow, FlowAll
  <2>2. \A x : x.kind \in Kinds => (x \in FlowAll' <=> x \in FlowAll)
    BY <1>2
  <2>3. \A r : /\ Event("started", r) \in FlowAll' <=> Event("started", r) \in FlowAll
               /\ Event("done", r) \in FlowAll' <=> Event("done", r) \in FlowAll
    BY <2>2, PayloadFacts, ItemTypes
  <2>4. \A r : Announced(r, FlowAll) => Announced(r, FlowAll)'
    BY <2>3 DEF Announced
  <2>5. \A r : Unfinished(r, FlowAll) => Unfinished(r, FlowAll)'
    BY <2>3 DEF Unfinished
  <2>6. Fits(FlowAll, Len(answered))'
    <3>1. ASSUME NEW x \in FlowAll', x.kind \in Kinds
          PROVE  /\ 1 <= x.resp /\ x.resp <= Len(answered)
                 /\ IF x.kind = "started" THEN yielded["started"][x.resp] = 0
                    ELSE yielded["done"][x.resp] = 0 /\ Announced(x.resp, FlowAll)'
      <4>1. x \in FlowAll
        BY <2>2, <3>1
      <4>2. /\ 1 <= x.resp /\ x.resp <= Len(answered)
            /\ IF x.kind = "started" THEN yielded["started"][x.resp] = 0
               ELSE yielded["done"][x.resp] = 0 /\ Announced(x.resp, FlowAll)
        BY <2>1, <3>1, <4>1 DEF Fits
      <4> QED
        BY <2>4, <4>2
    <3> QED
      BY <3>1 DEF Fits
  <2>7. active # 0 => Announced(active, FlowAll)' /\ Unfinished(active, FlowAll)'
    BY <2>1, <2>4, <2>5
  <2>8. (\A r \in Responses : r > Len(answered) => Fresh(r))'
    BY <2>1 DEF Fresh
  <2> QED
    BY <1>2, <2>6, <2>7, <2>8 DEF RealtimeFlow, FlowAll, Announced, Unfinished
<1> QED
  BY <1>1, <1>2

LEMMA FlowReceives ==
  ASSUME Types, backend = "realtime", OverInv, RealtimeFlow, RealtimeReceives
  PROVE  RealtimeFlow'
<1>1. PICK e \in Wire : TakesResponse(e) \/ TakesSpeech(e) \/ TakesRefusal(e)
  BY ReceivesSays
<1>2. Takes(e)
  BY <1>1 DEF TakesResponse, TakesSpeech, TakesRefusal
<1>3. /\ UNCHANGED <<yielded, stream, answered, active>> /\ inbox # <<>> /\ inbox[1] = e /\ inbox' = Tail(inbox)
      /\ receiver = "reading"
  BY <1>2 DEF Takes, provider, caller, RealtimeReceives, ReceiverFree
<1>4. stream = "open"
  BY <1>3 DEF OverInv
<1>5. /\ InOrder(outQ) /\ InOrder(inbox) /\ AllBefore(Elems(outQ), Elems(inbox))
  BY <1>4 DEF RealtimeFlow
<1> PICK t : t = Tail(inbox)
  OBVIOUS
<1>6. /\ inbox \in Seq(Wire) /\ InOrder(t) /\ \A x \in Elems(t) : Before(e, x)
      /\ Elems(inbox) = {e} \cup Elems(t)
  BY <1>3, <1>5, OrderTail, TailElems DEF Types, InboxTypes
<1>7. InOrder(inbox)' /\ Elems(inbox)' = Elems(t)
  BY <1>3, <1>6 DEF InOrder, Elems
<1>8. outQ \in Seq(Item) /\ AfterFailure \in Item /\ AfterFailure.kind \notin Kinds
  BY DEF Types, StreamTypes, AfterFailure, Failure, EndOfStream, Event, Kinds, Item
<1>9. ASSUME NEW f \in Item, outQ' = Append(outQ, f), \A x \in Elems(outQ) : Before(x, f)
      PROVE  InOrder(outQ)' /\ Elems(outQ)' = Elems(outQ) \cup {f}
  <2>1. InOrder(Append(outQ, f)) /\ Elems(Append(outQ, f)) = Elems(outQ) \cup {f}
    BY <1>5, <1>8, <1>9, OrderAppend, AppendElems
  <2> QED
    BY <1>9, <2>1 DEF InOrder, Elems
<1>10. CASE TakesResponse(e)
  <2>1. outQ' = Append(outQ, e) /\ e \in Item
    BY <1>10, ItemTypes DEF TakesResponse
  <2>2. InOrder(outQ)' /\ Elems(outQ)' = Elems(outQ) \cup {e}
    BY <1>5, <1>6, <1>9, <2>1 DEF AllBefore
  <2>3. AllBefore(Elems(outQ), Elems(inbox))'
    BY <1>5, <1>6, <1>7, <2>2 DEF AllBefore
  <2>4. FlowAll' = FlowAll
    BY <1>6, <1>7, <2>2 DEF FlowAll
  <2> QED
    BY <1>3, <1>7, <2>2, <2>3, <2>4, FlowMoves
<1>11. CASE TakesSpeech(e) \/ TakesRefusal(e)
  <2>1. e.kind \notin Kinds /\ (outQ' = outQ \/ outQ' = Append(outQ, AfterFailure))
    BY <1>11 DEF TakesSpeech, TakesRefusal, Kinds
  <2>2. CASE outQ' = outQ
    <3>1. InOrder(outQ)' /\ Elems(outQ)' = Elems(outQ)
      BY <1>5, <2>2 DEF InOrder, Elems
    <3>2. AllBefore(Elems(outQ), Elems(inbox))'
      BY <1>5, <1>6, <1>7, <3>1 DEF AllBefore
    <3>3. \A x : x.kind \in Kinds => (x \in FlowAll' <=> x \in FlowAll)
      BY <1>6, <1>7, <2>1, <3>1 DEF FlowAll
    <3> QED
      BY <1>3, <1>7, <3>1, <3>2, <3>3, FlowMoves
  <2>3. CASE outQ' = Append(outQ, AfterFailure)
    <3>1. InOrder(outQ)' /\ Elems(outQ)' = Elems(outQ) \cup {AfterFailure}
      BY <1>8, <1>9, <2>3, OrderIdle
    <3>2. AllBefore(Elems(outQ), Elems(inbox))'
      BY <1>5, <1>6, <1>7, <1>8, <3>1, OrderIdle DEF AllBefore
    <3>3. \A x : x.kind \in Kinds => (x \in FlowAll' <=> x \in FlowAll)
      BY <1>6, <1>7, <1>8, <2>1, <3>1 DEF FlowAll
    <3> QED
      BY <1>3, <1>7, <3>1, <3>2, <3>3, FlowMoves
  <2> QED
    BY <2>1, <2>2, <2>3
<1> QED
  BY <1>1, <1>10, <1>11

LEMMA FlowYields ==
  ASSUME Types, backend = "realtime", TurnsInv, RealtimeFlow, NEW e \in Item, Yields(e),
         UNCHANGED <<answered, active>>
  PROVE  RealtimeFlow'
<1>0. /\ outQ \in Seq(Item) /\ outQ # <<>> /\ outQ[1] = e /\ e.kind \in Kinds
      /\ outQ' = Tail(outQ) /\ inbox' = inbox /\ stream = "open" /\ stream' = "open"
      /\ yielded \in [Kinds -> [Responses -> Nat]] /\ active \in {0, Len(answered)} /\ active \in Nat
  BY DEF Yields, Types, StreamTypes, link, TurnsInv
<1>1. /\ InOrder(outQ) /\ InOrder(inbox) /\ AllBefore(Elems(outQ), Elems(inbox))
      /\ Fits(FlowAll, Len(answered))
      /\ active # 0 => Announced(active, FlowAll) /\ Unfinished(active, FlowAll)
      /\ \A r \in Responses : r > Len(answered) => Fresh(r)
  BY <1>0 DEF RealtimeFlow, FlowAll
<1> PICK q : q = Tail(outQ)
  OBVIOUS
<1> PICK T : T = Elems(q) \cup Elems(inbox)
  OBVIOUS
<1>2. /\ InOrder(q) /\ \A x \in Elems(q) : Before(e, x)
      /\ Elems(outQ) = {e} \cup Elems(q)
  BY <1>0, <1>1, OrderTail, TailElems
<1>3. FlowAll = {e} \cup T /\ \A x \in T : Before(e, x)
  BY <1>1, <1>2 DEF FlowAll, AllBefore
<1>4. Elems(outQ)' = Elems(q) /\ InOrder(outQ)' /\ Elems(inbox)' = Elems(inbox) /\ InOrder(inbox)'
  BY <1>0, <1>1, <1>2 DEF Elems, InOrder
<1>5. AllBefore(Elems(outQ), Elems(inbox))'
  BY <1>1, <1>2, <1>4 DEF AllBefore
<1>6. \A x \in T : x.kind \in Kinds => x.resp \in Nat
  BY <1>3, EventIs
<1> PICK top : top = Len(answered)
  OBVIOUS
<1>7. top \in Nat /\ top <= 2 * MaxTurns /\ (active # 0 => active \in Responses)
  BY <1>0, ResponsesFit, TailElems, DueIs DEF Types, Responses
<1>8. /\ Fits(T, top)'
      /\ \A r \in Responses : Announced(r, FlowAll) => Announced(r, T)'
      /\ \A r \in Responses : Unfinished(r, FlowAll) => Unfinished(r, T)'
      /\ \A r \in Responses : r > top /\ Fresh(r) => Fresh(r)'
  <2>1. Fits({e} \cup T, top)
    BY <1>1, <1>3
  <2> HIDE DEF Item
  <2> QED
    BY <1>0, <1>3, <1>6, <1>7, <2>1, YieldKeeps
<1>9. (Elems(outQ) \cup Elems(inbox))' = T /\ Len(answered') = top
  BY <1>4
<1>10. active # 0 => Announced(active, T)' /\ Unfinished(active, T)'
  <2> PICK a : a = active
    OBVIOUS
  <2>1. a # 0 => Announced(a, T)' /\ Unfinished(a, T)'
    BY <1>1, <1>7, <1>8
  <2>2. active' = a
    OBVIOUS
  <2> QED
    BY <2>1, <2>2 DEF Announced, Unfinished
<1>11. (\A r \in Responses : r > Len(answered) => Fresh(r))'
  BY <1>1, <1>8, <1>9 DEF Fresh
<1> QED
  BY <1>4, <1>5, <1>8, <1>9, <1>10, <1>11 DEF RealtimeFlow, Fits, Announced, Unfinished

LEMMA FlowStream ==
  ASSUME Types, backend = "realtime", TurnsInv, RealtimeFlow, StreamStep
  PROVE  RealtimeFlow'
<1>0. UNCHANGED <<answered, active>>
  BY StreamSays DEF StreamLeaves, provider
<1>1. CASE \E e \in Item : Yields(e)
  BY <1>0, <1>1, FlowYields
<1>2. CASE Leaves
  BY <1>2 DEF Leaves, RealtimeFlow
<1>3. CASE ReceiverEnds
  <2>1. PICK f \in Item : f.kind \notin Kinds /\ outQ' = Append(outQ, f)
    BY <1>3, ItemTypes DEF ReceiverEnds, AfterFailure, Failure, EndOfStream, Event, Kinds
  <2>2. outQ \in Seq(Item) /\ UNCHANGED <<yielded, stream, inbox>>
    BY <1>3 DEF ReceiverEnds, Types, StreamTypes, link, caller
  <2>3. ASSUME stream = "open"
        PROVE  /\ InOrder(outQ)' /\ InOrder(inbox)' /\ AllBefore(Elems(outQ), Elems(inbox))'
               /\ \A x : x.kind \in Kinds => (x \in FlowAll' <=> x \in FlowAll)
    <3>1. InOrder(outQ) /\ InOrder(inbox) /\ AllBefore(Elems(outQ), Elems(inbox))
      BY <2>3 DEF RealtimeFlow
    <3>2. InOrder(Append(outQ, f)) /\ Elems(Append(outQ, f)) = Elems(outQ) \cup {f}
      BY <2>1, <2>2, <3>1, OrderIdle, OrderAppend, AppendElems
    <3>3. InOrder(outQ)' /\ Elems(outQ)' = Elems(outQ) \cup {f}
      BY <2>1, <3>2 DEF InOrder, Elems
    <3>4. InOrder(inbox)' /\ Elems(inbox)' = Elems(inbox)
      BY <2>2, <3>1 DEF InOrder, Elems
    <3>5. AllBefore(Elems(outQ), Elems(inbox))'
      BY <2>1, <3>1, <3>3, <3>4, OrderIdle DEF AllBefore
    <3> QED
      BY <2>1, <3>3, <3>4, <3>5 DEF FlowAll
  <2> QED
    BY <1>0, <2>2, <2>3, FlowMoves
<1>4. CASE CloseAtEnd \/ EncoderFails \/ \E how \in {"hungup", "lost"} : ConnectionBreaks(how)
  <2>1. UNCHANGED <<outQ, inbox, stream, yielded>>
    BY <1>4 DEF CloseAtEnd, EncoderFails, ConnectionBreaks, tasks, caller
  <2> QED
    BY <1>0, <2>1, FlowSame
<1> QED
  BY <1>1, <1>2, <1>3, <1>4, StreamSays

LEMMA FlowRealtime ==
  ASSUME Types, RealtimeStep, OverInv, TurnsInv, NormalInv, ControlsInv, RealtimeFlow
  PROVE  RealtimeFlow'
<1>0. backend = "realtime"
  BY DEF RealtimeStep
<1>1. CASE RealtimeReceives
  BY <1>0, <1>1, FlowReceives
<1>2. CASE PumpSends
  BY <1>0, <1>2, FlowPump
<1>3. CASE ServerStep
  BY <1>0, <1>3, FlowServer
<1>4. CASE \/ PumpFails \/ Settled \/ Acknowledged \/ AppendAudio \/ FinishInput
           \/ \E timeout \in BOOLEAN : FinalResponse(timeout)
           \/ \E r \in Responses : RealtimeInterrupt(r)
  <2>1. UNCHANGED <<outQ, inbox, stream, yielded, answered, active>>
    BY <1>4 DEF PumpFails, Settled, Acknowledged, AppendAudio, FinishInput, FinalResponse,
       RealtimeInterrupt, provider, link, tasks, caller
  <2> QED
    BY <2>1, FlowSame
<1> QED
  BY <1>1, <1>2, <1>3, <1>4 DEF RealtimeStep, RealtimeTasks

---------------------------------------------------------------------------
(* Counting what is in a queue. *)

(* Where a queue holds members of a set, and how many.                     *)
Positions(q, S) == {i \in 1..Len(q) : q[i] \in S}
Count(q, S) == Cardinality(Positions(q, S))

LEMMA CountType ==
  ASSUME NEW U, NEW q \in Seq(U), NEW S
  PROVE  /\ IsFiniteSet(Positions(q, S)) /\ Count(q, S) \in Nat
         /\ Count(q, S) = 0 <=> \A i \in 1..Len(q) : q[i] \notin S
         /\ Count(<<>>, S) = 0
<1>1. Len(q) \in Nat /\ IsFiniteSet(1..Len(q))
  BY LenProperties, FS_Interval
<1>2. IsFiniteSet(Positions(q, S))
  BY <1>1, FS_Subset DEF Positions
<1>3. Count(q, S) \in Nat /\ (Count(q, S) = 0 <=> Positions(q, S) = {})
  BY <1>2, FS_CardinalityType, FS_EmptySet DEF Count
<1>4. Positions(<<>>, S) = {}
  BY EmptyElems DEF Positions
<1> QED
  BY <1>2, <1>3, <1>4, FS_EmptySet DEF Positions, Count

LEMMA CountAppend ==
  ASSUME NEW U, NEW q \in Seq(U), NEW e \in U, NEW S
  PROVE  Count(Append(q, e), S) = Count(q, S) + IF e \in S THEN 1 ELSE 0
<1> PICK p : p = Append(q, e)
  OBVIOUS
<1>1. /\ Len(q) \in Nat /\ Len(p) = Len(q) + 1 /\ p[Len(q) + 1] = e
      /\ \A i \in 1..Len(q) : p[i] = q[i]
  BY LenProperties, AppendElems
<1>2. IsFiniteSet(Positions(q, S)) /\ Count(q, S) \in Nat
  BY CountType
<1>3. CASE e \in S
  <2>1. Positions(p, S) = Positions(q, S) \cup {Len(q) + 1} /\ Len(q) + 1 \notin Positions(q, S)
    BY <1>1, <1>3 DEF Positions
  <2> QED
    BY <1>2, <1>3, <2>1, FS_AddElement DEF Count
<1>4. CASE e \notin S
  <2>1. Positions(p, S) = Positions(q, S)
    BY <1>1, <1>4 DEF Positions
  <2> QED
    BY <1>2, <1>4, <2>1 DEF Count
<1> QED
  BY <1>3, <1>4

LEMMA CountTail ==
  ASSUME NEW U, NEW q \in Seq(U), q # <<>>, NEW S
  PROVE  Count(q, S) = Count(Tail(q), S) + IF q[1] \in S THEN 1 ELSE 0
<1> PICK t : t = Tail(q)
  OBVIOUS
<1> DEFINE rest == Positions(q, S) \ {1}
           f == [i \in Positions(t, S) |-> i + 1]
<1>1. /\ t \in Seq(U) /\ Len(t) = Len(q) - 1 /\ Len(q) \in Nat /\ Len(q) >= 1
      /\ \A i \in 1..Len(t) : t[i] = q[i + 1]
  BY TailElems, LenProperties
<1>2. IsFiniteSet(Positions(q, S)) /\ IsFiniteSet(Positions(t, S)) /\ Count(q, S) \in Nat
  BY <1>1, CountType
<1>3. f \in Bijection(Positions(t, S), rest)
  <2>1. f \in [Positions(t, S) -> rest]
    BY <1>1 DEF Positions
  <2>2. \A i, j \in Positions(t, S) : f[i] = f[j] => i = j
    BY DEF Positions
  <2>3. ASSUME NEW y \in rest PROVE \E i \in Positions(t, S) : f[i] = y
    <3>1. y - 1 \in Positions(t, S) /\ (y - 1) + 1 = y
      BY <1>1 DEF Positions
    <3> QED
      BY <3>1
  <2> HIDE DEF f, rest
  <2> QED
    BY <2>1, <2>2, <2>3 DEF Bijection, Injection, Surjection, IsInjective
<1>4. Cardinality(rest) = Cardinality(Positions(t, S))
  BY <1>2, <1>3, FS_Bijection DEF ExistsBijection
<1>5. Cardinality(rest) = IF 1 \in Positions(q, S) THEN Cardinality(Positions(q, S)) - 1
                          ELSE Cardinality(Positions(q, S))
  BY <1>2, FS_RemoveElement
<1>6. 1 \in Positions(q, S) <=> q[1] \in S
  BY <1>1 DEF Positions
<1> QED
  BY <1>2, <1>4, <1>5, <1>6 DEF Count

---------------------------------------------------------------------------
(* Gemini: the messages that complete a turn. *)

Complete == {m \in Message : m.complete}

LEMMA ClosesIs ==
  ASSUME NEW q \in Seq(Message)
  PROVE  /\ Closes(q) = Count(q, Complete) /\ Closes(q) \in Nat
         /\ Closes(q) = 0 <=> \A i \in 1..Len(q) : ~q[i].complete
<1>1. \A i \in 1..Len(q) : q[i] \in Message
  BY ElemsIn DEF Elems
<1>2. {i \in 1..Len(q) : q[i].complete} = Positions(q, Complete)
  BY <1>1 DEF Positions, Complete
<1>3. Closes(q) = Count(q, Complete)
  BY <1>2 DEF Closes, Count
<1> QED
  BY <1>1, <1>3, CountType DEF Complete

LEMMA ClosesAppend ==
  ASSUME NEW q \in Seq(Message), NEW m \in Message
  PROVE  Closes(Append(q, m)) = Closes(q) + IF m.complete THEN 1 ELSE 0
<1>1. Append(q, m) \in Seq(Message)
  BY AppendElems
<1>2. Closes(Append(q, m)) = Count(Append(q, m), Complete) /\ Closes(q) = Count(q, Complete)
  BY <1>1, ClosesIs
<1>3. Count(Append(q, m), Complete) = Count(q, Complete) + IF m \in Complete THEN 1 ELSE 0
  BY CountAppend
<1>4. m \in Complete <=> m.complete
  BY DEF Complete
<1> QED
  BY <1>2, <1>3, <1>4

LEMMA ClosesTail ==
  ASSUME NEW q \in Seq(Message), q # <<>>
  PROVE  Closes(q) = Closes(Tail(q)) + IF q[1].complete THEN 1 ELSE 0
<1>1. Tail(q) \in Seq(Message) /\ q[1] \in Message
  BY TailElems
<1> QED
  BY <1>1, ClosesIs, CountTail DEF Complete

(* A stream that is open has lost nothing of what was sent.                *)
LEMMA StreamOpen ==
  ASSUME Types, StreamStep, stream' = "open"
  PROVE  stream = "open" /\ inbox' = inbox
<1>1. CASE \E e \in Item : Yields(e)
  BY <1>1 DEF Yields, link
<1>2. CASE Leaves
  BY <1>2 DEF Leaves
<1>3. CASE ReceiverEnds
  BY <1>3 DEF ReceiverEnds, link, caller
<1>4. CASE CloseAtEnd \/ EncoderFails \/ \E how \in {"hungup", "lost"} : ConnectionBreaks(how)
  BY <1>4 DEF CloseAtEnd, EncoderFails, ConnectionBreaks, caller
<1> QED
  BY <1>1, <1>2, <1>3, <1>4, StreamSays

LEMMA TurnSame ==
  ASSUME TurnInv, UNCHANGED <<turns, answered, active, said>>,
         stream' = "open" => stream = "open" /\ inbox' = inbox
  PROVE  TurnInv'
<1>1. UNCHANGED <<turn, turnCount, doneEmitted, turnStarted, turnFinished>> /\ Completed' = Completed
  BY DEF turns, Completed
<1>2. stream' = "open" => Closes(inbox)' = Closes(inbox) /\ Len(inbox)' = Len(inbox)
  BY DEF Closes
<1> QED
  BY <1>1, <1>2 DEF TurnInv

(* The server completes a turn by one message.                             *)
LEMMA TurnServer ==
  ASSUME Types, backend = "gemini", TurnInv, GeminiServerStep
  PROVE  TurnInv'
<1>0. /\ UNCHANGED <<turn, turnCount, doneEmitted, turnStarted, turnFinished, stream>>
      /\ inbox \in Seq(Message) /\ StreamTypes
      /\ turnCount \in Nat /\ Len(answered) \in Nat /\ active \in Nat /\ Closes(inbox) \in Nat
  BY GeminiServerSays, DueIs, ClosesIs DEF turns, caller, Types, InboxTypes, StreamTypes, GeminiTypes
<1>1. CASE (ServerSpeech \/ ServerOwes) /\ UNCHANGED <<inbox, said>>
  BY <1>0, <1>1, TurnSame DEF ServerSpeech, ServerOwes, turns
<1>2. CASE ServerStarts /\ UNCHANGED <<inbox, said>>
  <2>1. Len(answered') = Len(answered) + 1
    BY <1>2, AppendElems, TailElems DEF Types, StreamTypes, ServerStarts
  <2>2. active = 0 /\ active' = Len(answered) + 1 /\ active' # 0
    BY <1>0, <1>2 DEF ServerStarts
  <2>3. turnFinished => Completed'
    BY <1>0, <1>2, CompletedServer DEF TurnInv, ServerMoves
  <2>4. Closes(inbox)' = Closes(inbox)
    BY <1>2 DEF Closes
  <2>5. stream = "open" =>
          turnCount + Closes(inbox) + 1 = Len(answered) + 1 + (IF turn = 0 THEN 0 ELSE 1)
    BY <1>0, <2>2 DEF TurnInv
  <2>6. turnCount <= Len(answered) + 1 /\ Len(answered) + 1 >= 1
    BY <1>0 DEF TurnInv
  <2> QED
    BY <1>0, <1>2, <2>1, <2>2, <2>3, <2>4, <2>5, <2>6 DEF TurnInv
<1>3. ASSUME NEW m \in Message, Receives(m), SaysIs(m), ServerGoesOn \/ ServerEnds
      PROVE  TurnInv'
  <2>1. active # 0 /\ answered' = answered /\ active' = IF m.complete THEN 0 ELSE active
    BY <1>3 DEF SaysIs, ServerGoesOn, ServerEnds
  <2>2. turnFinished => Completed'
    BY <1>0, <1>3, CompletedServer DEF TurnInv, ServerMoves
  <2>3. /\ Closes(inbox)' = Closes(inbox) + IF m.complete THEN 1 ELSE 0
        /\ inbox' # <<>> /\ inbox'[Len(inbox')] = m
    <3>1. /\ Closes(Append(inbox, m)) = Closes(inbox) + IF m.complete THEN 1 ELSE 0
          /\ Append(inbox, m) # <<>> /\ Append(inbox, m)[Len(Append(inbox, m))] = m
      BY <1>0, ClosesAppend, AppendElems, LenProperties, EmptyElems
    <3> QED
      BY <1>3, <3>1 DEF Receives, Closes
  <2>4. said' # "nothing" => active' # 0
    BY <1>3, <2>1 DEF SaysIs
  <2>5. stream = "open" =>
          turnCount + Closes(inbox)' + (IF active' = 0 THEN 0 ELSE 1)
            = Len(answered) + (IF turn = 0 THEN 0 ELSE 1)
    <3>1. stream = "open" =>
            turnCount + Closes(inbox) + 1 = Len(answered) + (IF turn = 0 THEN 0 ELSE 1)
      BY <2>1 DEF TurnInv
    <3> QED
      BY <1>0, <2>1, <2>3, <3>1
  <2>6. Closes(inbox)' = 0 => ~m.complete
    BY <1>0, <2>3
  <2> QED
    BY <1>0, <2>1, <2>2, <2>3, <2>4, <2>5, <2>6 DEF TurnInv
<1> QED
  BY <1>1, <1>2, <1>3, GeminiServerSays

(* One turn more on the left for the one that c counts beyond k. *)
LEMMA CountedOn ==
  \A x, y, z, b, l \in Nat :
    x + y + b = l /\ (y = z \/ y = z + 1) => (x + 1) + z + b = l + (IF y = z THEN 1 ELSE 0)
  OBVIOUS

(* What is left of the turns when the next message is taken.               *)
LEMMA TurnTakes ==
  ASSUME Types, backend = "gemini", OverInv, TurnInv, NEW m \in Message, NEW t \in Nat, GeminiTakes(m, t)
  PROVE  /\ stream = "open" /\ t >= 1 /\ t = turnCount' /\ t <= Len(answered)
         /\ turnCount <= t /\ (turn = 0 => t = turnCount + 1) /\ (turn # 0 => t = turn)
         /\ turnCount' + Closes(inbox)' + (IF active = 0 THEN 0 ELSE 1)
              = Len(answered) + (IF m.complete THEN 0 ELSE 1)
         /\ inbox' # <<>> /\ ~inbox'[Len(inbox')].complete => active # 0
         /\ ~m.complete /\ Closes(inbox)' = 0 => active # 0
         /\ m.complete => Completed
<1>0. /\ receiver = "reading" /\ inbox # <<>> /\ inbox[1] = m /\ inbox' = Tail(inbox)
      /\ t = IF turn = 0 THEN turnCount + 1 ELSE turn
      /\ turnCount' = IF turn = 0 THEN t ELSE turnCount
  BY DEF GeminiTakes
<1>1. /\ stream = "open" /\ inbox \in Seq(Message) /\ Tail(inbox) \in Seq(Message)
      /\ turnCount \in Nat /\ Len(answered) \in Nat /\ active \in Nat /\ turn \in {0, turnCount}
      /\ Closes(inbox) \in Nat /\ Closes(Tail(inbox)) \in Nat
  BY <1>0, TailElems, DueIs, ClosesIs DEF OverInv, TurnInv, Types, InboxTypes, StreamTypes, GeminiTypes
<1>2. /\ turnCount + Closes(inbox) + (IF active = 0 THEN 0 ELSE 1)
            = Len(answered) + (IF turn = 0 THEN 0 ELSE 1)
      /\ ~inbox[Len(inbox)].complete => active # 0
      /\ turn # 0 /\ Closes(inbox) = 0 => active # 0
  BY <1>0, <1>1 DEF TurnInv
<1>3. Closes(inbox) = Closes(Tail(inbox)) + IF m.complete THEN 1 ELSE 0
  BY <1>0, <1>1, ClosesTail
<1>4. /\ Len(inbox) \in Nat /\ Len(inbox) >= 1 /\ Len(Tail(inbox)) = Len(inbox) - 1
      /\ \A i \in 1..Len(Tail(inbox)) : Tail(inbox)[i] = inbox[i + 1]
  BY <1>0, <1>1, TailElems, LenProperties
<1>5. Tail(inbox) # <<>> => Tail(inbox)[Len(Tail(inbox))] = inbox[Len(inbox)]
  <2> SUFFICES ASSUME Tail(inbox) # <<>> PROVE Tail(inbox)[Len(Tail(inbox))] = inbox[Len(inbox)]
    OBVIOUS
  <2>1. Len(Tail(inbox)) \in 1..Len(Tail(inbox)) /\ Len(Tail(inbox)) + 1 = Len(inbox)
    BY <1>1, <1>4, EmptySeq
  <2> QED
    BY <1>4, <2>1
<1>6. Closes(inbox) = 0 => active # 0
  <2>1. Closes(inbox) = 0 => ~inbox[Len(inbox)].complete
    BY <1>1, <1>4, ClosesIs
  <2> QED
    BY <1>2, <2>1
<1>7. Closes(inbox)' = Closes(Tail(inbox))
  BY <1>0 DEF Closes
<1> PICK c : c = Closes(inbox)
  OBVIOUS
<1> PICK k : k = Closes(Tail(inbox))
  OBVIOUS
<1> PICK n : n = Len(answered)
  OBVIOUS
<1>8. /\ c \in Nat /\ k \in Nat /\ n \in Nat /\ c = k + IF m.complete THEN 1 ELSE 0
      /\ turnCount + c + (IF active = 0 THEN 0 ELSE 1) = n + (IF turn = 0 THEN 0 ELSE 1)
      /\ c = 0 => active # 0
  BY <1>1, <1>2, <1>3, <1>6
<1>9. t >= 1 /\ t = turnCount' /\ turnCount <= t /\ t <= n
  <2>1. CASE turn = 0
    <3>1. t = turnCount + 1 /\ turnCount' = t
      BY <1>0, <2>1
    <3>2. turnCount + c + (IF active = 0 THEN 0 ELSE 1) = n
      BY <1>8, <2>1
    <3>3. turnCount + 1 <= n
      BY <1>1, <1>8, <3>2
    <3> QED
      BY <1>1, <3>1, <3>3
  <2>2. CASE turn # 0
    <3>1. t = turnCount /\ turnCount' = turnCount /\ turnCount >= 1
      BY <1>0, <1>1, <2>2
    <3>2. turnCount + c + (IF active = 0 THEN 0 ELSE 1) = n + 1
      BY <1>8, <2>2
    <3>3. turnCount <= n
      BY <1>1, <1>8, <3>2
    <3> QED
      BY <1>1, <3>1, <3>3
  <2> QED
    BY <2>1, <2>2
<1> PICK a : a = IF active = 0 THEN 0 ELSE 1
  OBVIOUS
<1>a. a \in Nat
  OBVIOUS
<1>10. turnCount' + k + (IF active = 0 THEN 0 ELSE 1) = n + (IF m.complete THEN 0 ELSE 1)
  <2>1. (c = k <=> ~m.complete) /\ (c = k \/ c = k + 1)
    BY <1>8
  <2>2. CASE turn = 0
    <3>1. turnCount' = turnCount + 1 /\ turnCount + c + a = n + 0
      BY <1>0, <1>8, <2>2
    <3>2. (turnCount + 1) + k + a = n + (IF c = k THEN 1 ELSE 0)
      <4>1. c \in Nat /\ k \in Nat /\ n \in Nat /\ turnCount \in Nat /\ a \in Nat
        BY <1>1, <1>8, <1>a
      <4>2. turnCount + c + a = n
        BY <3>1, <4>1
      <4>3. turnCount + c + a = n /\ (c = k \/ c = k + 1)
              => (turnCount + 1) + k + a = n + (IF c = k THEN 1 ELSE 0)
        BY <4>1, CountedOn, SMTT(60)
      <4> QED
        BY <2>1, <4>2, <4>3, Zenon
    <3> QED
      BY <2>1, <3>1, <3>2
  <2>3. CASE turn # 0
    <3>1. turnCount' = turnCount /\ turnCount + c + a = n + 1
      BY <1>0, <1>8, <2>3
    <3>2. \A x, y, z, b, l \in Nat :
            x + y + b = l + 1 /\ (y = z \/ y = z + 1) => x + z + b = l + (IF y = z THEN 1 ELSE 0)
      OBVIOUS
    <3>3. turnCount + k + a = n + (IF c = k THEN 1 ELSE 0)
      <4>1. c \in Nat /\ k \in Nat /\ n \in Nat /\ turnCount \in Nat /\ a \in Nat
        BY <1>1, <1>8, <1>a
      <4>2. turnCount + c + a = n + 1
        BY <3>1
      <4> QED
        BY <2>1, <3>2, <4>1, <4>2
    <3> QED
      BY <2>1, <3>1, <3>3
  <2> QED
    BY <2>2, <2>3
<1>11. m.complete => n >= 1 /\ (active # 0 => n >= 2)
  BY <1>0, <1>1, <1>8, SMTT(30)
<1> QED
  BY <1>0, <1>1, <1>2, <1>5, <1>7, <1>8, <1>9, <1>10, <1>11 DEF Completed

(* Taking a message opens a turn, goes on with it, or completes it.        *)
LEMMA TurnReceives ==
  ASSUME Types, backend = "gemini", OverInv, TurnInv, GeminiReceives
  PROVE  TurnInv'
<1>1. PICK m \in Message, t \in Nat :
           /\ GeminiTakes(m, t)
           /\ doneEmitted' = (~m.complete /\ ((turn # 0 /\ doneEmitted) \/ m.interrupted))
           /\ turnStarted' = ~m.complete /\ turnFinished' = m.complete
  BY GeminiReceivesSays
<1>2. /\ stream = "open" /\ t >= 1 /\ t = turnCount' /\ t <= Len(answered)
      /\ turnCount' + Closes(inbox)' + (IF active = 0 THEN 0 ELSE 1)
              = Len(answered) + (IF m.complete THEN 0 ELSE 1)
      /\ inbox' # <<>> /\ ~inbox'[Len(inbox')].complete => active # 0
      /\ ~m.complete /\ Closes(inbox)' = 0 => active # 0
      /\ m.complete => Completed
  BY <1>1, TurnTakes
<1>3. turn' = (IF m.complete THEN 0 ELSE t) /\ UNCHANGED <<answered, active, stream, said>>
  BY <1>1 DEF GeminiTakes, provider, caller
<1>4. Completed' = Completed
  BY <1>3 DEF Completed
<1>5. turn' = 0 <=> m.complete
  BY <1>2, <1>3
<1>6. turnStarted' <=> turn' # 0
  BY <1>1, <1>5
<1>7. doneEmitted' => turn' # 0
  BY <1>1, <1>5
<1>8. turnFinished' => Completed'
  BY <1>1, <1>2, <1>4
<1> QED
  BY <1>2, <1>3, <1>5, <1>6, <1>7, <1>8 DEF TurnInv

(* An interrupted response says no more.                                   *)
LEMMA SilentSame ==
  ASSUME SilentInv, UNCHANGED <<doneEmitted, said>>,
         stream' = "open" => stream = "open" /\ inbox' = inbox
  PROVE  SilentInv'
BY DEF SilentInv, Open

(* The server says nothing more in a turn it called interrupted.           *)
LEMMA SilentServer ==
  ASSUME Types, backend = "gemini", SilentInv, GeminiServerStep
  PROVE  SilentInv'
<1>0. UNCHANGED <<doneEmitted, stream>> /\ inbox \in Seq(Message)
  BY GeminiServerSays DEF turns, caller, Types, InboxTypes
<1>1. CASE UNCHANGED <<inbox, said>>
  BY <1>0, <1>1, SilentSame
<1>2. ASSUME NEW m \in Message, Receives(m), SaysIs(m), stream = "open" PROVE SilentInv'
  <2> PICK n : n = Len(inbox)
    OBVIOUS
  <2> PICK p : p = Append(inbox, m)
    OBVIOUS
  <2>1. /\ n \in Nat /\ Len(p) = n + 1 /\ p[n + 1] = m /\ inbox' = p
        /\ \A i \in 1..n : p[i] = inbox[i]
    BY <1>0, <1>2, AppendElems, LenProperties DEF Receives
  <2>2. \A i, j \in Nat : i >= 1 /\ j <= n /\ Open(p, i, j) => Open(inbox, i, j)
    BY <2>1 DEF Open
  <2>3. \A i \in Nat : i >= 1 /\ i <= n + 1 /\ Open(p, i, n + 1) => Open(p, i, n) /\ ~m.complete
    BY <2>1 DEF Open
  <2>4. /\ m.audio => said # "interrupted"
        /\ said = "interrupted" /\ ~m.complete => said' = "interrupted"
        /\ m.interrupted /\ ~m.complete => said' = "interrupted"
    BY <1>2 DEF SaysIs
  <2>5. /\ \A i, j \in 1..n : i < j /\ Open(inbox, i, j - 1) /\ inbox[i].interrupted => ~inbox[j].audio
        /\ doneEmitted => \A j \in 1..n : Open(inbox, 1, j - 1) => ~inbox[j].audio
        /\ doneEmitted /\ Open(inbox, 1, n) => said = "interrupted"
        /\ \A i \in 1..n : Open(inbox, i, n) /\ inbox[i].interrupted => said = "interrupted"
    BY <1>2 DEF SilentInv
  <2>6. ASSUME NEW i \in 1..(n + 1), NEW j \in 1..(n + 1), i < j, Open(p, i, j - 1), p[i].interrupted
        PROVE  ~p[j].audio
    <3>1. i \in 1..n /\ j - 1 \in Nat /\ j - 1 <= n
      BY <2>1, <2>6
    <3>2. Open(inbox, i, j - 1) /\ inbox[i].interrupted
      BY <2>1, <2>2, <2>6, <3>1
    <3>3. CASE j \in 1..n
      BY <2>1, <2>5, <2>6, <3>1, <3>2, <3>3
    <3>4. CASE j = n + 1
      <4>1. Open(inbox, i, n)
        BY <2>1, <3>2, <3>4
      <4> QED
        BY <2>1, <2>4, <2>5, <3>1, <3>2, <3>4, <4>1
    <3> QED
      BY <2>1, <3>3, <3>4
  <2>7. ASSUME doneEmitted, NEW j \in 1..(n + 1), Open(p, 1, j - 1) PROVE ~p[j].audio
    <3>1. j - 1 \in Nat /\ j - 1 <= n
      BY <2>1
    <3>2. Open(inbox, 1, j - 1)
      BY <2>2, <2>7, <3>1
    <3>3. CASE j \in 1..n
      BY <2>1, <2>5, <2>7, <3>2, <3>3
    <3>4. CASE j = n + 1
      <4>1. Open(inbox, 1, n)
        BY <2>1, <3>2, <3>4
      <4> QED
        BY <2>1, <2>4, <2>5, <2>7, <3>4, <4>1
    <3> QED
      BY <2>1, <3>3, <3>4
  <2>8. doneEmitted /\ Open(p, 1, n + 1) => said' = "interrupted"
    BY <2>1, <2>2, <2>3, <2>4, <2>5
  <2>9. ASSUME NEW i \in 1..(n + 1), Open(p, i, n + 1), p[i].interrupted PROVE said' = "interrupted"
    <3>1. Open(p, i, n) /\ ~m.complete /\ i \in Nat
      BY <2>3, <2>9
    <3>2. CASE i \in 1..n
      BY <2>1, <2>2, <2>4, <2>5, <2>9, <3>1, <3>2
    <3>3. CASE i = n + 1
      BY <2>1, <2>4, <2>9, <3>1, <3>3
    <3> QED
      BY <2>1, <3>2, <3>3
  <2>10. inbox' = p /\ Len(p) = n + 1 /\ doneEmitted' = doneEmitted
    BY <1>0, <2>1
  <2> QED
    BY <2>6, <2>7, <2>8, <2>9, <2>10 DEF SilentInv, Open
<1>3. CASE stream # "open"
  BY <1>0, <1>3 DEF SilentInv
<1> QED
  BY <1>1, <1>2, <1>3, GeminiServerSays

(* Taking a message leaves the rest as silent as it was.                   *)
LEMMA SilentReceives ==
  ASSUME Types, backend = "gemini", OverInv, SilentInv, GeminiReceives
  PROVE  SilentInv'
<1>1. PICK m \in Message, t \in Nat :
           /\ GeminiTakes(m, t)
           /\ doneEmitted' = (~m.complete /\ ((turn # 0 /\ doneEmitted) \/ m.interrupted))
  BY GeminiReceivesSays
<1>a. doneEmitted' => ~m.complete /\ (doneEmitted \/ m.interrupted)
  BY <1>1, Zenon
<1>2. /\ receiver = "reading" /\ inbox # <<>> /\ inbox[1] = m /\ inbox' = Tail(inbox)
      /\ UNCHANGED <<stream, said>>
  BY <1>1 DEF GeminiTakes, caller
<1>3. stream = "open" /\ inbox \in Seq(Message)
  BY <1>2 DEF OverInv, Types, InboxTypes
<1> PICK n : n = Len(inbox)
  OBVIOUS
<1> PICK p : p = Tail(inbox)
  OBVIOUS
<1>4. /\ n \in Nat /\ n >= 1 /\ Len(p) = n - 1 /\ inbox' = p
      /\ \A i \in 1..(n - 1) : p[i] = inbox[i + 1]
  BY <1>2, <1>3, TailElems, LenProperties
<1>5. \A i, j \in Nat : i >= 1 /\ j <= n - 1 /\ Open(p, i, j) => Open(inbox, i + 1, j + 1)
  <2> SUFFICES ASSUME NEW i \in Nat, NEW j \in Nat, i >= 1, j <= n - 1, Open(p, i, j),
                      NEW k \in (i + 1)..(j + 1)
               PROVE  ~inbox[k].complete
    BY DEF Open
  <2>1. k - 1 \in i..j /\ k - 1 \in 1..(n - 1) /\ (k - 1) + 1 = k
    BY <1>4
  <2> QED
    BY <1>4, <2>1 DEF Open
<1>6. \A j \in Nat : j <= n - 1 /\ Open(p, 1, j) /\ ~m.complete => Open(inbox, 1, j + 1)
  <2> SUFFICES ASSUME NEW j \in Nat, j <= n - 1, Open(p, 1, j), ~m.complete,
                      NEW k \in 1..(j + 1)
               PROVE  ~inbox[k].complete
    BY DEF Open
  <2>1. CASE k = 1
    BY <1>2, <2>1
  <2>2. CASE k # 1
    <3>1. Open(inbox, 2, j + 1) /\ k \in 2..(j + 1)
      BY <1>5, <2>2
    <3> QED
      BY <3>1 DEF Open
  <2> QED
    BY <2>1, <2>2
<1>7. /\ \A i, j \in 1..n : i < j /\ Open(inbox, i, j - 1) /\ inbox[i].interrupted => ~inbox[j].audio
      /\ doneEmitted => \A j \in 1..n : Open(inbox, 1, j - 1) => ~inbox[j].audio
      /\ doneEmitted /\ Open(inbox, 1, n) => said = "interrupted"
      /\ \A i \in 1..n : Open(inbox, i, n) /\ inbox[i].interrupted => said = "interrupted"
  BY <1>3 DEF SilentInv
<1>8. ASSUME NEW i \in 1..(n - 1), NEW j \in 1..(n - 1), i < j, Open(p, i, j - 1), p[i].interrupted
      PROVE  ~p[j].audio
  <2>1. /\ i + 1 \in 1..n /\ j + 1 \in 1..n /\ i + 1 < j + 1 /\ (j + 1) - 1 = (j - 1) + 1
        /\ j - 1 \in Nat /\ j - 1 <= n - 1
    BY <1>4, <1>8
  <2>2. Open(inbox, i + 1, (j + 1) - 1)
    BY <1>5, <1>8, <2>1
  <2>3. ~inbox[j + 1].audio
    BY <1>4, <1>7, <1>8, <2>1, <2>2
  <2> QED
    BY <1>4, <2>3
<1>9. ASSUME doneEmitted', NEW j \in 1..(n - 1), Open(p, 1, j - 1) PROVE ~p[j].audio
  <2>1. /\ ~m.complete /\ (doneEmitted \/ m.interrupted)
        /\ j + 1 \in 1..n /\ 1 \in 1..n /\ 1 < j + 1 /\ (j + 1) - 1 = (j - 1) + 1
        /\ j - 1 \in Nat /\ j - 1 <= n - 1
    BY <1>a, <1>4, <1>9
  <2>2. Open(inbox, 1, (j + 1) - 1)
    BY <1>6, <1>9, <2>1
  <2>3. ~inbox[j + 1].audio
    BY <1>2, <1>7, <2>1, <2>2
  <2> QED
    BY <1>4, <2>3
<1>10. doneEmitted' /\ Open(p, 1, n - 1) => said' = "interrupted"
  <2> SUFFICES ASSUME doneEmitted', Open(p, 1, n - 1) PROVE said' = "interrupted"
    OBVIOUS
  <2>1. ~m.complete /\ (doneEmitted \/ m.interrupted) /\ n - 1 \in Nat /\ (n - 1) + 1 = n /\ 1 \in 1..n
    BY <1>a, <1>4
  <2>2. Open(inbox, 1, n)
    BY <1>6, <2>1
  <2> QED
    BY <1>2, <1>7, <2>1, <2>2
<1>11. ASSUME NEW i \in 1..(n - 1), Open(p, i, n - 1), p[i].interrupted PROVE said' = "interrupted"
  <2>1. i + 1 \in 1..n /\ n - 1 \in Nat /\ (n - 1) + 1 = n
    BY <1>4
  <2>2. Open(inbox, i + 1, n)
    BY <1>5, <1>11, <2>1
  <2> QED
    BY <1>2, <1>4, <1>7, <1>11, <2>1, <2>2
<1>12. inbox' = p /\ Len(p) = n - 1
  BY <1>4
<1> QED
  BY <1>8, <1>9, <1>10, <1>11, <1>12 DEF SilentInv, Open

(* The events of one message, in the order the adapter maps them.          *)
Carries(q, t) == q \in Seq(Item) /\ InOrder(q) /\ Fits(Elems(q), t) /\ Announced(t, Elems(q))

LEMMA CarriesAppend ==
  ASSUME NEW q \in Seq(Item), NEW t \in Nat, t >= 1, Carries(q, t), Unfinished(t, Elems(q)),
         NEW k \in {"audio", "done"}
  PROVE  /\ Carries(Append(q, Event(k, t)), t)
         /\ k = "audio" => Unfinished(t, Elems(Append(q, Event(k, t))))
<1> PICK e : e = Event(k, t)
  OBVIOUS
<1>0. e \in Item /\ k \in Kinds /\ e.kind = k /\ e.resp = t
  BY ItemTypes, PayloadFacts
<1>1. InOrder(q) /\ Fits(Elems(q), t) /\ Announced(t, Elems(q))
  BY DEF Carries
<1>2. \A x \in Elems(q) : x \in Item
  BY ElemsIn
<1>3. ASSUME NEW x \in Elems(q), x.kind \in Kinds, x.resp = t PROVE x.kind \in {"started", "audio"}
  <2>1. x = Event(x.kind, t)
    BY <1>2, <1>3 DEF Item, Event
  <2>2. x.kind # "done"
    BY <1>3, <2>1 DEF Unfinished
  <2> QED
    BY <1>3, <2>2 DEF Kinds
<1>4. \A x \in Elems(q) : Before(x, e)
  BY <1>0, <1>3 DEF Before
<1>5. /\ Append(q, e) \in Seq(Item) /\ InOrder(Append(q, e))
      /\ Elems(Append(q, e)) = Elems(q) \cup {e}
  BY <1>0, <1>1, <1>4, OrderAppend, AppendElems
<1>6. \A x \in Elems(q) : x.kind \in Kinds => x.resp \in Nat
  BY <1>2 DEF Item
<1>7. yielded["done"][t] = 0
  BY DEF Unfinished
<1>8. Fits(Elems(q) \cup {e}, t) /\ \A r : Announced(r, Elems(q)) => Announced(r, Elems(q) \cup {e})
  <2> PICK S : S = Elems(q)
    OBVIOUS
  <2>1. /\ t <= t /\ Fits(S, t) /\ \A x \in S : x.kind \in Kinds => x.resp \in Nat
        /\ 1 <= e.resp /\ e.resp <= t /\ e.kind # "started"
        /\ yielded["done"][e.resp] = 0 /\ Announced(e.resp, S)
    BY <1>0, <1>1, <1>6, <1>7
  <2>2. Fits(S \cup {e}, t) /\ \A r : Announced(r, S) => Announced(r, S \cup {e})
    BY <2>1, FitsGrows
  <2> QED
    BY <2>2
<1>9. k = "audio" => e # Event("done", t)
  BY <1>0, PayloadFacts
<1> QED
  BY <1>1, <1>5, <1>8, <1>9 DEF Carries, Unfinished

LEMMA GeminiFlowSame ==
  ASSUME GeminiFlow, UNCHANGED <<turn, turnCount, doneEmitted, yielded>>,
         stream' = "open" => stream = "open" /\ outQ' = outQ
  PROVE  GeminiFlow'
<1>1. stream' = "open" => Elems(outQ)' = Elems(outQ) /\ InOrder(outQ)' = InOrder(outQ)
  BY DEF Elems, InOrder
<1> QED
  BY <1>1 DEF GeminiFlow, Fits, Announced, Unfinished

LEMMA DroppedSame ==
  ASSUME DroppedInv, UNCHANGED <<turn, turnCount, abandoned, yielded, told>>
  PROVE  DroppedInv'
BY DEF DroppedInv, Fresh

(* The events a message is mapped to are in the order of the protocol.     *)
LEMMA GeminiFlowReceives ==
  ASSUME Types, backend = "gemini", OverInv, TurnsInv, TurnInv, DroppedInv, SilentInv, GeminiFlow,
         GeminiReceives
  PROVE  GeminiFlow' /\ DroppedInv' /\ \A x \in Elems(outQ)' : x \in Elems(outQ) \/ x.kind \in Kinds
<1>1. PICK m \in Message, t \in Nat, p \in Seq(Item), q \in Seq(Item) :
           /\ GeminiTakes(m, t)
           /\ Announces(p, t) /\ Voices(q, p, m, t) /\ Finishes(outQ', q, m, t)
           /\ doneEmitted' = (~m.complete /\ ((turn # 0 /\ doneEmitted) \/ m.interrupted))
           /\ abandoned' = IF m.complete THEN abandoned \ {t} ELSE abandoned
  BY GeminiReceivesSays
<1>2. /\ stream = "open" /\ t >= 1 /\ t = turnCount' /\ t <= Len(answered)
      /\ turnCount <= t /\ (turn = 0 => t = turnCount + 1) /\ (turn # 0 => t = turn)
  BY <1>1, TurnTakes
<1>3. /\ inbox # <<>> /\ inbox[1] = m /\ turn' = (IF m.complete THEN 0 ELSE t)
      /\ UNCHANGED <<yielded, stream, told>>
  BY <1>1 DEF GeminiTakes, caller
<1>4. /\ turnCount \in Nat /\ turn \in Nat /\ turn \in {0, turnCount} /\ outQ \in Seq(Item)
      /\ t \in Responses /\ told \subseteq Responses /\ inbox \in Seq(Message)
  BY <1>2, ResponsesFit DEF Types, GeminiTypes, StreamTypes, TurnInv, InboxTypes
<1>5. /\ InOrder(outQ) /\ Fits(Elems(outQ), turnCount)
      /\ turn # 0 => Announced(turn, Elems(outQ))
      /\ turn # 0 /\ ~doneEmitted => Unfinished(turn, Elems(outQ))
  BY <1>2 DEF GeminiFlow
<1>6. \A x \in Elems(outQ) : x \in Item /\ (x.kind \in Kinds => x.resp \in Nat)
  <2>1. Elems(outQ) \subseteq Item /\ \A x \in Item : x.resp \in Nat
    BY <1>4, ElemsIn DEF Item
  <2> QED
    BY <2>1
<1>7. /\ Carries(p, t) /\ (~(turn # 0 /\ doneEmitted) => Unfinished(t, Elems(p)))
      /\ Elems(p) \subseteq Elems(outQ) \cup {Event("started", t)}
  <2>1. CASE turn # 0
    <3>1. p = outQ /\ t = turn /\ turnCount = t
      BY <1>1, <1>2, <1>4, <2>1 DEF Announces
    <3> QED
      BY <1>4, <1>5, <2>1, <3>1 DEF Carries
  <2>2. CASE turn = 0
    <3> PICK e : e = Event("started", t)
      OBVIOUS
    <3>1. p = Append(outQ, e) /\ t = turnCount + 1 /\ e \in Item /\ e.kind = "started" /\ e.resp = t
      BY <1>1, <1>2, <2>2, ItemTypes, PayloadFacts DEF Announces
    <3>2. Fresh(t)
      BY <1>2, <1>4, <2>2 DEF DroppedInv
    <3>3. ASSUME NEW x \in Elems(outQ), x.kind \in Kinds PROVE x.resp # t
      BY <1>4, <1>5, <1>6, <3>1, <3>3 DEF Fits
    <3>4. \A x \in Elems(outQ) : Before(x, e)
      BY <3>1, <3>3 DEF Before
    <3>5. InOrder(p) /\ Elems(p) = Elems(outQ) \cup {e}
      <4>1. InOrder(Append(outQ, e)) /\ Elems(Append(outQ, e)) = Elems(outQ) \cup {e}
        BY <1>4, <1>5, <3>1, <3>4, OrderAppend, AppendElems
      <4> QED
        BY <3>1, <4>1
    <3>6. Fits(Elems(outQ) \cup {e}, t)
      <4>1. /\ turnCount <= t /\ 1 <= e.resp /\ e.resp <= t /\ e.kind = "started"
            /\ yielded["started"][e.resp] = 0
        BY <1>2, <1>4, <3>1, <3>2 DEF Fresh
      <4>2. Fits(Elems(outQ), turnCount) /\ \A x \in Elems(outQ) : x.kind \in Kinds => x.resp \in Nat
        BY <1>5, <1>6
      <4> PICK S : S = Elems(outQ)
        OBVIOUS
      <4> PICK c \in Nat : c = turnCount
        BY <1>4
      <4>3. Fits(S \cup {e}, t)
        BY <4>1, <4>2, FitsGrows
      <4> QED
        BY <4>3
    <3>7. Unfinished(t, Elems(p))
      <4>1. /\ Event("done", t).kind = "done" /\ Event("done", t).resp = t /\ "done" \in Kinds
            /\ e.kind # "done"
        BY <3>1, PayloadFacts, ItemTypes
      <4>2. Event("done", t) \notin Elems(outQ) /\ Event("done", t) # e
        BY <3>3, <4>1
      <4> QED
        BY <3>2, <3>5, <4>2 DEF Unfinished, Fresh
    <3>8. Announced(t, Elems(p))
      BY <3>5 DEF Announced
    <3> QED
      BY <3>5, <3>6, <3>7, <3>8 DEF Carries
  <2> QED
    BY <2>1, <2>2
<1>8. m.audio => ~(turn # 0 /\ doneEmitted)
  <2> SUFFICES ASSUME m.audio, doneEmitted PROVE FALSE
    OBVIOUS
  <2>1. 1 \in 1..Len(inbox) /\ Open(inbox, 1, 1 - 1)
    BY <1>3, <1>4, TailElems, LenProperties DEF Open
  <2>2. ~inbox[1].audio
    BY <1>2, <2>1 DEF SilentInv
  <2> QED
    BY <1>3, <2>2
<1>9. /\ Carries(q, t) /\ (~(turn # 0 /\ doneEmitted) => Unfinished(t, Elems(q)))
      /\ Elems(q) \subseteq Elems(p) \cup {Event("audio", t)}
  <2>1. CASE m.audio /\ t \notin abandoned
    <3>1. q = Append(p, Event("audio", t)) /\ Event("audio", t) \in Item
      BY <1>1, <2>1, ItemTypes DEF Voices
    <3>2. Unfinished(t, Elems(p))
      BY <1>7, <1>8, <2>1
    <3>3. Carries(q, t) /\ Unfinished(t, Elems(q))
      BY <1>2, <1>7, <3>1, <3>2, CarriesAppend
    <3> QED
      BY <3>1, <3>3, AppendElems
  <2>2. CASE ~(m.audio /\ t \notin abandoned)
    <3>1. q = p
      BY <1>1, <2>2 DEF Voices
    <3> QED
      BY <1>7, <3>1
  <2> QED
    BY <2>1, <2>2
<1> PICK o : o = outQ'
  OBVIOUS
<1>10. /\ Carries(o, t)
       /\ ~(turn # 0 /\ doneEmitted) /\ ~m.interrupted /\ ~m.complete => Unfinished(t, Elems(o))
       /\ Elems(o) \subseteq Elems(q) \cup {Event("done", t)}
  <2>1. CASE ~(turn # 0 /\ doneEmitted) /\ (m.interrupted \/ m.complete)
    <3>1. o = Append(q, Event("done", t)) /\ Event("done", t) \in Item
      BY <1>1, <2>1, ItemTypes DEF Finishes
    <3>2. Carries(o, t)
      BY <1>2, <1>9, <2>1, <3>1, CarriesAppend
    <3> QED
      BY <2>1, <3>1, <3>2, AppendElems
  <2>2. CASE ~(~(turn # 0 /\ doneEmitted) /\ (m.interrupted \/ m.complete))
    <3>1. o = q
      BY <1>1, <2>2 DEF Finishes
    <3> QED
      BY <1>9, <3>1
  <2> QED
    BY <2>1, <2>2
<1>11. Elems(outQ)' = Elems(o) /\ InOrder(outQ)' = InOrder(o)
  BY DEF Elems, InOrder
<1>12. \A x \in Elems(outQ)' : x \in Elems(outQ) \/ x.kind \in Kinds
  BY <1>7, <1>9, <1>10, <1>11, PayloadFacts, ItemTypes
<1>13. turn' # 0 /\ ~doneEmitted' => ~(turn # 0 /\ doneEmitted) /\ ~m.interrupted /\ ~m.complete
  <2>1. turn' # 0 => ~m.complete
    BY <1>3
  <2>2. ~doneEmitted' /\ ~m.complete => ~((turn # 0 /\ doneEmitted) \/ m.interrupted)
    BY <1>1, Zenon
  <2> QED
    BY <2>1, <2>2
<1>14. turn' # 0 => turn' = t
  BY <1>3
<1>15. GeminiFlow'
  <2>1. InOrder(outQ)' /\ Fits(Elems(outQ), turnCount)'
    BY <1>2, <1>3, <1>10, <1>11 DEF Carries, Fits, Announced
  <2>2. (turn # 0 => Announced(turn, Elems(outQ)))'
    BY <1>3, <1>10, <1>11, <1>14 DEF Carries, Announced
  <2>3. (turn # 0 /\ ~doneEmitted => Unfinished(turn, Elems(outQ)))'
    BY <1>3, <1>10, <1>11, <1>13, <1>14 DEF Unfinished
  <2> QED
    BY <2>1, <2>2, <2>3 DEF GeminiFlow
<1>16. DroppedInv'
  <2>1. ASSUME NEW r \in Responses, r > turnCount' PROVE Fresh(r)'
    <3>1. r > turnCount
      BY <1>2, <1>4, <2>1, ResponsesAre
    <3> QED
      BY <1>3, <3>1 DEF DroppedInv, Fresh
  <2>2. ASSUME NEW r \in told PROVE r <= turnCount' /\ (r = turn' => r \in abandoned')
    <3>1. r \in Nat /\ r >= 1 /\ r <= turnCount /\ (r = turn => r \in abandoned)
      BY <1>4, ResponsesAre DEF DroppedInv
    <3>2. r <= turnCount'
      BY <1>2, <1>4, <3>1
    <3>3. CASE r = turn'
      <4>1. ~m.complete /\ r = t
        BY <1>3, <3>1, <3>3
      <4>2. turn # 0 /\ t = turn
        BY <1>2, <1>4, <3>1, <4>1
      <4> QED
        BY <1>1, <3>1, <3>2, <4>1, <4>2
    <3> QED
      BY <3>2, <3>3
  <2> QED
    BY <1>3, <2>1, <2>2 DEF DroppedInv
<1> QED
  BY <1>12, <1>15, <1>16

(* All that is kept in a session of Gemini.                                *)
GeminiInv ==
  /\ TurnsInv /\ CauseInv /\ OverInv /\ Waiting
  /\ TurnInv /\ DroppedInv /\ SilentInv /\ GeminiFlow

(* The caller's steps, the server's, the receiver's and an interrupt keep  *)
(* it.                                                                     *)
LEMMA GeminiYields ==
  ASSUME Types, TurnsInv, TurnInv, DroppedInv, GeminiFlow, NEW e \in Item, Yields(e),
         UNCHANGED <<turn, turnCount, doneEmitted, abandoned, told>>
  PROVE  GeminiFlow' /\ DroppedInv'
<1>0. /\ outQ \in Seq(Item) /\ outQ # <<>> /\ outQ[1] = e /\ outQ' = Tail(outQ)
      /\ stream = "open" /\ stream' = "open" /\ told \subseteq Responses
      /\ yielded \in [Kinds -> [Responses -> Nat]] /\ turnCount \in Nat /\ turn \in {0, turnCount}
  BY DEF Yields, Types, StreamTypes, GeminiTypes, TurnInv
<1>1. /\ InOrder(outQ) /\ Fits(Elems(outQ), turnCount)
      /\ turn # 0 => Announced(turn, Elems(outQ))
      /\ turn # 0 /\ ~doneEmitted => Unfinished(turn, Elems(outQ))
  BY <1>0 DEF GeminiFlow
<1> PICK T : T = Elems(Tail(outQ))
  OBVIOUS
<1>2. /\ InOrder(Tail(outQ)) /\ \A x \in T : Before(e, x)
      /\ Elems(outQ) = {e} \cup T
  BY <1>0, <1>1, OrderTail, TailElems
<1>3. Elems(outQ)' = T /\ InOrder(outQ)'
  BY <1>0, <1>2 DEF Elems, InOrder
<1>4. \A x \in T : x.kind \in Kinds => x.resp \in Nat
  <2>1. T \subseteq Item /\ \A x \in Item : x.resp \in Nat
    <3>1. Elems(outQ) \subseteq Item
      BY <1>0, ElemsIn
    <3>2. \A x \in Item : x.resp \in Nat
      BY DEF Item
    <3> QED
      BY <1>2, <3>1, <3>2
  <2> QED
    BY <2>1
<1> PICK top \in Nat : top = turnCount
  BY <1>0
<1> PICK c : c = turn
  OBVIOUS
<1>5. top <= 2 * MaxTurns /\ (c # 0 => c \in Responses)
  <2>1. turnCount <= Len(answered) /\ Len(answered) \in Nat /\ Len(answered) <= 2 * MaxTurns
        /\ \A r \in Nat : 1 <= r /\ r <= Len(answered) => r \in Responses
    BY ResponsesFit DEF Types, TurnInv
  <2>2. c # 0 => c \in Nat /\ 1 <= c /\ c <= Len(answered)
    BY <1>0, <2>1
  <2>3. 2 * MaxTurns \in Nat
    BY ResponsesAre
  <2> QED
    BY <1>0, <2>1, <2>2, <2>3
<1>6. /\ Fits(T, top)'
      /\ \A r \in Responses : Announced(r, {e} \cup T) => Announced(r, T)'
      /\ \A r \in Responses : Unfinished(r, {e} \cup T) => Unfinished(r, T)'
      /\ \A r \in Responses : r > top /\ Fresh(r) => Fresh(r)'
  <2>1. Fits({e} \cup T, top)
    BY <1>1, <1>2
  <2> HIDE DEF Item
  <2> QED
    BY <1>0, <1>2, <1>4, <1>5, <2>1, YieldKeeps
<1>7. turn' = c /\ turnCount' = top /\ doneEmitted' = doneEmitted
  OBVIOUS
<1>8. /\ c # 0 => Announced(c, T)'
      /\ c # 0 /\ ~doneEmitted => Unfinished(c, T)'
  BY <1>1, <1>2, <1>5, <1>6
<1>9. GeminiFlow'
  BY <1>3, <1>6, <1>7, <1>8 DEF GeminiFlow, Fits, Announced, Unfinished
<1>10. DroppedInv'
  <2>1. \A r \in Responses : r > top => Fresh(r)'
    BY <1>6 DEF DroppedInv
  <2> QED
    BY <1>7, <2>1 DEF DroppedInv, Fresh
<1> QED
  BY <1>9, <1>10

LEMMA GeminiStream ==
  ASSUME Types, backend = "gemini", StreamStep, backend' = backend, GeminiInv
  PROVE  GeminiInv'
<1>0. StreamLeaves /\ UNCHANGED <<turns, turn, turnCount, doneEmitted, said, abandoned, told, answered, active>>
  BY StreamSays DEF StreamLeaves, provider, geminiVars, turns
<1>1. stream' = "open" => stream = "open" /\ inbox' = inbox
  BY StreamOpen
<1>2. TurnsInv' /\ CauseInv' /\ OverInv' /\ Waiting'
  BY CommonStream DEF GeminiInv
<1>3. TurnInv' /\ SilentInv'
  BY <1>0, <1>1, TurnSame, SilentSame DEF GeminiInv
<1>4. CASE \E e \in Item : Yields(e)
  BY <1>0, <1>2, <1>3, <1>4, GeminiYields DEF GeminiInv
<1>5. CASE Leaves
  <2>1. GeminiFlow'
    BY <1>5 DEF Leaves, GeminiFlow
  <2>2. DroppedInv'
    BY <1>0, <1>5, DroppedSame DEF Leaves, GeminiInv
  <2> QED
    BY <1>2, <1>3, <2>1, <2>2 DEF GeminiInv
<1>6. CASE ReceiverEnds
  <2>1. PICK f \in Item : f.kind \notin Kinds /\ outQ' = Append(outQ, f)
    BY <1>6, ItemTypes DEF ReceiverEnds, AfterFailure, Failure, EndOfStream, Event, Kinds
  <2>2. outQ \in Seq(Item) /\ UNCHANGED <<yielded, stream>>
    BY <1>6 DEF ReceiverEnds, Types, StreamTypes, caller
  <2>3. DroppedInv'
    BY <1>0, <2>2, DroppedSame DEF GeminiInv
  <2>4. ASSUME stream = "open" PROVE GeminiFlow'
    <3>1. /\ InOrder(outQ) /\ Fits(Elems(outQ), turnCount)
          /\ turn # 0 => Announced(turn, Elems(outQ))
          /\ turn # 0 /\ ~doneEmitted => Unfinished(turn, Elems(outQ))
      BY <2>4 DEF GeminiFlow, GeminiInv
    <3>2. InOrder(Append(outQ, f)) /\ Elems(Append(outQ, f)) = Elems(outQ) \cup {f}
      BY <2>1, <2>2, <3>1, OrderIdle, OrderAppend, AppendElems
    <3>3. InOrder(outQ)' /\ Elems(outQ)' = Elems(outQ) \cup {f}
      BY <2>1, <3>2 DEF InOrder, Elems
    <3>4. \A r : /\ Announced(r, Elems(outQ)) => Announced(r, Elems(outQ) \cup {f})
                 /\ Unfinished(r, Elems(outQ)) => Unfinished(r, Elems(outQ) \cup {f})
      BY <2>1, PayloadFacts, ItemTypes DEF Announced, Unfinished
    <3>5. Fits(Elems(outQ) \cup {f}, turnCount)
      <4>1. ASSUME NEW x \in Elems(outQ), x.kind \in Kinds
            PROVE  /\ 1 <= x.resp /\ x.resp <= turnCount
                   /\ IF x.kind = "started" THEN yielded["started"][x.resp] = 0
                      ELSE yielded["done"][x.resp] = 0 /\ Announced(x.resp, Elems(outQ))
        BY <3>1, <4>1 DEF Fits
      <4> QED
        BY <2>1, <3>4, <4>1 DEF Fits
    <3> QED
      BY <1>0, <2>2, <3>1, <3>3, <3>4, <3>5 DEF GeminiFlow, Fits, Announced, Unfinished
  <2>5. GeminiFlow'
    BY <2>2, <2>4 DEF GeminiFlow
  <2> QED
    BY <1>2, <1>3, <2>3, <2>5 DEF GeminiInv
<1>7. CASE CloseAtEnd \/ EncoderFails \/ \E how \in {"hungup", "lost"} : ConnectionBreaks(how)
  <2>1. UNCHANGED <<outQ, stream, yielded>>
    BY <1>7 DEF CloseAtEnd, EncoderFails, ConnectionBreaks, tasks, caller
  <2>2. GeminiFlow' /\ DroppedInv'
    BY <1>0, <2>1, GeminiFlowSame, DroppedSame DEF GeminiInv
  <2> QED
    BY <1>2, <1>3, <2>2 DEF GeminiInv
<1> QED
  BY <1>4, <1>5, <1>6, <1>7, StreamSays

---------------------------------------------------------------------------
LEMMA GeminiServer ==
  ASSUME Types, backend = "gemini", GeminiServerStep, backend' = backend, UNCHANGED realtimeVars, GeminiInv
  PROVE  GeminiInv'
<1>0. /\ UNCHANGED <<conn, broken, tasks, caller, turns, abandoned>> /\ StreamTypes
      /\ UNCHANGED <<races, encoder, normal, pump, closing, stream, yielded, told, receiver, gaveUp, outQ>>
      /\ UNCHANGED <<turn, turnCount, doneEmitted>>
  BY GeminiServerSays DEF tasks, caller, turns, realtimeVars, outbound, Types
<1>1. ServerMoves
  BY GeminiServerSays DEF ServerMoves
<1>2. TurnsInv'
  BY <1>0, <1>1, TurnsServer DEF GeminiInv
<1>3. OverInv'
  BY <1>0, OverKept DEF GeminiInv
<1>4. CauseInv'
  <2>1. Elems(outQ)' = Elems(outQ)
    BY <1>0 DEF Elems
  <2> QED
    BY <1>0, <2>1, CauseKept DEF GeminiInv
<1>5. Waiting'
  BY <1>0, <1>1, CompletedServer DEF Waiting, GeminiInv
<1>6. TurnInv' /\ SilentInv'
  BY TurnServer, SilentServer DEF GeminiInv
<1>7. GeminiFlow' /\ DroppedInv'
  BY <1>0, GeminiFlowSame, DroppedSame DEF GeminiInv
<1> QED
  BY <1>2, <1>3, <1>4, <1>5, <1>6, <1>7 DEF GeminiInv

LEMMA GeminiReceiving ==
  ASSUME Types, backend = "gemini", GeminiReceives, backend' = backend, UNCHANGED realtimeVars, GeminiInv
  PROVE  GeminiInv'
<1>0. PICK m \in Message, t \in Nat : GeminiTakes(m, t)
  BY GeminiReceivesSays
<1>1. /\ UNCHANGED <<provider, conn, broken, encoder, gaveUp, receiver, closing, stream, yielded, told>>
      /\ UNCHANGED <<spoken, ended, owed, answered, active, races, normal, pump>> /\ StreamTypes
  BY <1>0 DEF GeminiTakes, caller, provider, realtimeVars, outbound, Types
<1>2. /\ GeminiFlow' /\ DroppedInv' /\ \A x \in Elems(outQ)' : x \in Elems(outQ) \/ x.kind \in Kinds
  BY GeminiFlowReceives DEF GeminiInv
<1>3. TurnInv' /\ SilentInv'
  BY TurnReceives, SilentReceives DEF GeminiInv
<1>4. TurnsInv'
  BY <1>1, TurnsKept DEF GeminiInv, Elems
<1>5. OverInv'
  BY <1>1, OverKept DEF GeminiInv
<1>6. CauseInv'
  <2>1. (\E x \in Elems(outQ)' : x.kind = "failure") => \E x \in Elems(outQ) : x.kind = "failure"
    BY <1>2 DEF Kinds
  <2> QED
    BY <1>1, <2>1, CauseKept DEF GeminiInv
<1>7. Waiting'
  BY <1>1 DEF Waiting, Completed, GeminiInv
<1> QED
  BY <1>2, <1>3, <1>4, <1>5, <1>6, <1>7 DEF GeminiInv

(* The encoder, and interrupt(), of Gemini.                                *)
LEMMA GeminiEncoder ==
  ASSUME Types, backend = "gemini", backend' = backend, UNCHANGED realtimeVars, GeminiInv,
         \/ SendAudio \/ SendFails \/ EndInput
         \/ \E elapsed \in BOOLEAN : TurnSettled(elapsed)
         \/ \E timeout \in BOOLEAN : FinalTurn(timeout)
  PROVE  GeminiInv'
<1>0. /\ UNCHANGED <<spoken, ended, owed, answered, active, conn, inbox, receiver, outQ, caller, turns, said, abandoned>>
      /\ broken => broken'
      /\ encoder \in {"audio", "settle", "final"}
      /\ encoder' = "failed" => broken'
  BY DEF SendAudio, SendFails, EndInput, TurnSettled, FinalTurn, provider, link, tasks, caller, geminiVars
<1>1. /\ UNCHANGED <<races, normal, pump, closing, stream, yielded, told>>
      /\ UNCHANGED <<turn, turnCount, doneEmitted, turnStarted, turnFinished>> /\ StreamTypes
  BY <1>0 DEF caller, turns, realtimeVars, outbound, Types
<1>2. /\ encoder = "final" => encoder' \in {"final", "done"}
      /\ encoder' = "done" /\ ~gaveUp' => Completed'
  <2>0. Completed' = Completed
    BY <1>0 DEF Completed
  <2>1. CASE SendAudio
    BY <2>0, <2>1 DEF SendAudio, GeminiInv, Waiting
  <2>2. CASE SendFails
    BY <2>2 DEF SendFails
  <2>3. CASE EndInput
    <3>1. appended = 0 \/ (appended > 0 /\ appended # 0)
      BY DEF Types, StreamTypes
    <3>2. CASE appended = 0
      BY <2>3, <3>2, Zenon DEF EndInput
    <3>3. CASE appended > 0 /\ appended # 0
      <4>1. encoder' \in {"settle", "final"}
        BY <2>3, <3>3 DEF EndInput
      <4> QED
        BY <2>3, <4>1 DEF EndInput
    <3> QED
      BY <3>1, <3>2, <3>3
  <2>4. ASSUME NEW elapsed \in BOOLEAN, TurnSettled(elapsed)
        PROVE  /\ encoder = "final" => encoder' \in {"final", "done"}
               /\ encoder' = "done" /\ ~gaveUp' => Completed'
    <3>1. turnStarted <=> turn # 0
      BY DEF GeminiInv, TurnInv
    <3>2. encoder' = "done" => turn = 0
      BY <2>4 DEF TurnSettled
    <3>3. turn = 0 => gaveUp'
      BY <2>4, <3>1 DEF TurnSettled
    <3> QED
      BY <2>4, <3>2, <3>3 DEF TurnSettled
  <2>5. ASSUME NEW timeout \in BOOLEAN, FinalTurn(timeout)
        PROVE  /\ encoder = "final" => encoder' \in {"final", "done"}
               /\ encoder' = "done" /\ ~gaveUp' => Completed'
    <3>1. turnFinished => Completed
      BY DEF GeminiInv, TurnInv
    <3>2. ~gaveUp' => turnFinished
      BY <2>5 DEF FinalTurn
    <3> QED
      BY <2>0, <2>5, <3>1, <3>2 DEF FinalTurn
  <2> QED
    BY <2>1, <2>2, <2>3, <2>4, <2>5
<1>3. TurnsInv'
  <2>1. Elems(normal)' = Elems(normal)
    BY <1>1 DEF Elems
  <2>2. encoder \in {"final", "done"} =>
          encoder' \in {"final", "done"} /\ (Create \notin Elems(normal) => Create \notin Elems(normal)')
    BY <1>0, <1>2, <2>1
  <2> QED
    BY <1>0, <1>1, <2>2, TurnsKept DEF GeminiInv
<1>4. OverInv'
  BY <1>0, <1>1, OverKept DEF GeminiInv
<1>5. CauseInv'
  <2>1. Elems(outQ)' = Elems(outQ)
    BY <1>0 DEF Elems
  <2> QED
    BY <1>0, <1>1, <2>1, CauseKept DEF GeminiInv
<1>6. Waiting'
  BY <1>2 DEF Waiting
<1>7. TurnInv' /\ SilentInv'
  BY <1>0, <1>1, TurnSame, SilentSame DEF GeminiInv
<1>8. GeminiFlow' /\ DroppedInv'
  BY <1>0, <1>1, GeminiFlowSame, DroppedSame DEF GeminiInv
<1> QED
  BY <1>3, <1>4, <1>5, <1>6, <1>7, <1>8 DEF GeminiInv

LEMMA GeminiInterrupted ==
  ASSUME Types, backend = "gemini", backend' = backend, UNCHANGED realtimeVars, GeminiInv,
         NEW r \in Responses, GeminiInterrupt(r)
  PROVE  GeminiInv'
<1>0. /\ UNCHANGED <<spoken, ended, owed, answered, active, conn, broken, inbox, encoder, gaveUp, receiver, outQ>>
      /\ UNCHANGED <<closing, stream, yielded, said, turns>>
      /\ UNCHANGED <<races, normal, pump, turn, turnCount, doneEmitted>> /\ StreamTypes
      /\ MayInterrupt(r) /\ told' = told \cup {r} /\ abandoned' = abandoned \cup {r}
  BY DEF GeminiInterrupt, provider, link, tasks, turns, realtimeVars, outbound, Types
<1>1. /\ Elems(outQ)' = Elems(outQ) /\ Elems(normal)' = Elems(normal) /\ Completed' = Completed
  BY <1>0 DEF Elems, Completed
<1>2. TurnsInv'
  BY <1>0, <1>1, TurnsKept DEF GeminiInv
<1>3. OverInv'
  BY <1>0, OverTold DEF GeminiInv
<1>4. CauseInv'
  BY <1>0, <1>1, CauseKept DEF GeminiInv
<1>5. Waiting'
  BY <1>0, <1>1 DEF GeminiInv, Waiting
<1>6. TurnInv' /\ SilentInv'
  BY <1>0, TurnSame, SilentSame DEF GeminiInv
<1>7. GeminiFlow'
  BY <1>0, GeminiFlowSame DEF GeminiInv
<1>8. DroppedInv'
  <2>1. r <= turnCount
    <3>1. ~Fresh(r)
      BY <1>0 DEF MayInterrupt, Fresh
    <3>2. r \in Nat /\ turnCount \in Nat
      BY ResponsesAre DEF Types, GeminiTypes
    <3> QED
      BY <3>1, <3>2 DEF GeminiInv, DroppedInv
  <2> QED
    BY <1>0, <2>1 DEF GeminiInv, DroppedInv, Fresh
<1> QED
  BY <1>2, <1>3, <1>4, <1>5, <1>6, <1>7, <1>8 DEF GeminiInv

LEMMA GeminiKept ==
  ASSUME Types, GeminiStep, backend' = backend, GeminiInv
  PROVE  GeminiInv'
<1>0. backend = "gemini" /\ UNCHANGED realtimeVars
  BY DEF GeminiStep
<1>1. CASE GeminiServerStep
  BY <1>0, <1>1, GeminiServer
<1>2. CASE GeminiReceives
  BY <1>0, <1>2, GeminiReceiving
<1>3. CASE \/ SendAudio \/ SendFails \/ EndInput
           \/ \E elapsed \in BOOLEAN : TurnSettled(elapsed)
           \/ \E timeout \in BOOLEAN : FinalTurn(timeout)
  BY <1>0, <1>3, GeminiEncoder
<1>4. CASE \E r \in Responses : GeminiInterrupt(r)
  BY <1>0, <1>4, GeminiInterrupted
<1> QED
  BY <1>1, <1>2, <1>3, <1>4 DEF GeminiStep, GeminiTasks

(***************************************************************************)
(* The inductive invariant: what both adapters keep, and what each does.   *)
(***************************************************************************)
IInv ==
  /\ Types /\ backend \in {"realtime", "gemini"}
  /\ backend = "realtime" => CommandInv /\ RealtimeFlow /\ turn = 0 /\ turnCount = 0
  /\ backend = "gemini" => GeminiInv

LEMMA CommonInit ==
  ASSUME Init
  PROVE  /\ TurnsInv /\ CauseInv /\ OverInv /\ Waiting
         /\ Elems(outQ) = {} /\ Elems(inbox) = {} /\ Elems(normal) = {} /\ Len(groups) = 0 /\ Len(inbox) = 0
         /\ InOrder(outQ) /\ InOrder(inbox) /\ \A r \in Responses : Fresh(r)
<1>0. /\ unheard = 0 /\ spoken = 0 /\ ended = 0 /\ owed = <<>> /\ active = 0 /\ answered = <<>>
      /\ conn = "open" /\ broken = FALSE /\ inbox = <<>> /\ encoder = "audio" /\ outQ = <<>>
      /\ closing = FALSE /\ stream = "open" /\ yielded = [k \in Kinds |-> [r \in Responses |-> 0]] /\ told = {}
      /\ normal = <<>> /\ groups = <<>> /\ pump = "running" /\ races = {}
  BY DEF Init, StreamInit, RealtimeInit
<1>1. MaxTurns \in Nat
  BY ResponsesAre
<1>2. Due = <<>> /\ Elems(Due) = {} /\ Len(Due) = 0 /\ IsInjective(<<>>) /\ Len(answered) = 0
  BY <1>0, EmptyElems DEF Due, IsInjective
<1>3. TurnsInv
  BY <1>0, <1>1, <1>2 DEF TurnsInv
<1>4. Elems(outQ) = {} /\ Elems(inbox) = {} /\ Elems(normal) = {} /\ Len(groups) = 0 /\ Len(inbox) = 0
  BY <1>0, EmptyElems
<1>5. CauseInv /\ OverInv /\ Waiting
  BY <1>0, <1>4 DEF CauseInv, OverInv, Waiting, RaisesForCause
<1>6. \A r \in Responses : Fresh(r)
  BY <1>0, ItemTypes DEF Fresh
<1> QED
  BY <1>0, <1>3, <1>4, <1>5, <1>6, OrderEmpty

(* The invariant holds initially, in an idle step and in every step.       *)
LEMMA IInvInit == Init => IInv
<1> SUFFICES ASSUME Init PROVE IInv
  OBVIOUS
<1>0. /\ TurnsInv /\ CauseInv /\ OverInv /\ Waiting
      /\ Elems(outQ) = {} /\ Elems(inbox) = {} /\ Elems(normal) = {} /\ Len(groups) = 0 /\ Len(inbox) = 0
      /\ InOrder(outQ) /\ InOrder(inbox) /\ \A r \in Responses : Fresh(r)
  BY CommonInit
<1>1. /\ Types /\ backend \in {"realtime", "gemini"}
  BY TypesInit, BackendsAssumption DEF Init
<1>2. /\ encoder = "audio" /\ eof = "empty" /\ normal = <<>> /\ group = <<>> /\ responseDone = FALSE
      /\ active = 0 /\ said = "nothing" /\ turn = 0 /\ turnCount = 0 /\ doneEmitted = FALSE
      /\ turnStarted = FALSE /\ turnFinished = FALSE /\ told = {} /\ answered = <<>> /\ inbox = <<>>
  BY DEF Init, StreamInit, RealtimeInit, GeminiInit
<1>3. Len(normal) = 0 /\ Len(answered) = 0
  BY <1>2
<1>4. ~CreateDue
  BY <1>0, <1>2 DEF CreateDue
<1>5. NormalInv /\ PhaseInv
  BY <1>0, <1>2, <1>3, <1>4 DEF NormalInv, PhaseInv
<1>6. CommitInv
  BY <1>0, <1>2, <1>4 DEF CommitInv, Single
<1>7. DoneInv /\ ControlsInv /\ RefusalsInv
  BY <1>0, <1>2 DEF DoneInv, ControlsInv, RefusalsInv, Distinct
<1>8. RealtimeFlow
  BY <1>0, <1>2 DEF RealtimeFlow, AllBefore, Fits
<1>9. GeminiFlow /\ DroppedInv /\ SilentInv
  BY <1>0, <1>2 DEF GeminiFlow, DroppedInv, SilentInv, Fits
<1>10. TurnInv
  <2>1. Closes(inbox) = 0
    <3>1. <<>> \in Seq(Message) /\ Len(<<>>) = 0
      OBVIOUS
    <3>2. Closes(<<>>) = 0
      <4>1. Closes(<<>>) = Count(<<>>, Complete)
        BY <3>1, ClosesIs
      <4> QED
        BY <3>1, <4>1, CountType
    <3> QED
      BY <1>2, <3>2
  <2> QED
    BY <1>2, <1>3, <2>1 DEF TurnInv
<1> QED
  BY <1>0, <1>1, <1>2, <1>5, <1>6, <1>7, <1>8, <1>9, <1>10 DEF IInv, CommandInv, NormalPhase, GeminiInv

LEMMA IInvIdle == ASSUME IInv, UNCHANGED vars PROVE IInv'
<1>0. /\ UNCHANGED <<unheard, spoken, ended, owed, active, answered, conn, broken, inbox, encoder,
                     gaveUp, receiver, outQ, closing, stream, yielded, told>>
      /\ UNCHANGED <<eof, responseDone, normal, groups, group, pump, pending, last, races>>
      /\ UNCHANGED <<said, turns, turn, turnCount, doneEmitted, abandoned, backend>>
  BY DEF vars, provider, link, tasks, caller, realtimeVars, machine, outbound, geminiVars, turns
<1>1. Types' /\ StreamTypes /\ backend' \in {"realtime", "gemini"}
  BY <1>0, TypesIdle DEF IInv, Types
<1>2. Elems(normal)' = Elems(normal) /\ Elems(outQ)' = Elems(outQ) /\ Elems(Due)' = Elems(Due)
      /\ Elems(inbox)' = Elems(inbox) /\ Completed' = Completed
  BY <1>0 DEF Elems, Due, Completed
<1>3. ASSUME TurnsInv, CauseInv, OverInv, Waiting PROVE TurnsInv' /\ CauseInv' /\ OverInv' /\ Waiting'
  <2>1. TurnsInv'
    BY <1>0, <1>1, <1>2, <1>3, TurnsKept
  <2>2. CauseInv'
    BY <1>0, <1>2, <1>3, CauseKept
  <2>3. OverInv'
    BY <1>0, <1>3, OverKept
  <2>4. Waiting'
    BY <1>0, <1>2, <1>3 DEF Waiting
  <2> QED
    BY <2>1, <2>2, <2>3, <2>4
<1>4. CASE backend = "realtime"
  <2>1. NormalInv' /\ DoneInv' /\ ControlsInv' /\ RefusalsInv'
    <3>1. NormalInv'
      BY <1>0, <1>2, <1>4 DEF IInv, CommandInv, NormalPhase, NormalInv
    <3>2. DoneInv'
      BY <1>0, <1>4, DoneKept DEF IInv, CommandInv
    <3>3. ControlsInv'
      BY <1>0, <1>4 DEF IInv, CommandInv, ControlsInv
    <3>4. RefusalsInv'
      BY <1>0, <1>4, RefusalsKept DEF IInv, CommandInv
    <3> QED
      BY <3>1, <3>2, <3>3, <3>4
  <2>2. PhaseInv' /\ CommitInv'
    <3>1. CommittedIn(inbox)' \subseteq CommittedIn(inbox) /\ Single(inbox)'
      BY <1>0, <1>2, <1>4 DEF CommittedIn, IInv, CommandInv, NormalPhase, CommitInv, Single
    <3> QED
      BY <1>0, <1>2, <1>4, <3>1, PhaseKept DEF IInv, CommandInv, NormalPhase
  <2>3. RealtimeFlow'
    BY <1>0, <1>4, FlowSame DEF IInv
  <2> QED
    BY <1>0, <1>1, <1>3, <1>4, <2>1, <2>2, <2>3 DEF IInv, CommandInv, NormalPhase
<1>5. CASE backend = "gemini"
  <2>1. TurnInv' /\ DroppedInv' /\ SilentInv' /\ GeminiFlow'
    BY <1>0, <1>5, TurnSame, DroppedSame, SilentSame, GeminiFlowSame DEF IInv, GeminiInv
  <2> QED
    BY <1>0, <1>1, <1>3, <1>5, <2>1 DEF IInv, GeminiInv
<1> QED
  BY <1>4, <1>5 DEF IInv

LEMMA IInvStep == IInv /\ [Next]_vars => IInv'
<1> SUFFICES ASSUME IInv, Next PROVE IInv'
  BY IInvIdle
<1>0. backend' = backend /\ Types /\ Types'
  <2>1. backend = "realtime" => NormalInv /\ ControlsInv
    BY DEF IInv, CommandInv, NormalPhase
  <2> QED
    BY <2>1, TypesNext DEF IInv, Next
<1>1. CASE StreamStep
  <2>1. CASE backend = "realtime"
    <3>1. UNCHANGED <<turn, turnCount>>
      BY <1>1 DEF StreamStep, geminiVars, turns
    <3> QED
      BY <1>0, <1>1, <2>1, <3>1, CommandStream, FlowStream DEF IInv, CommandInv
  <2>2. CASE backend = "gemini"
    BY <1>0, <1>1, <2>2, GeminiStream DEF IInv
  <2> QED
    BY <2>1, <2>2 DEF IInv
<1>2. CASE RealtimeStep
  <2>1. backend = "realtime" /\ CommandInv /\ RealtimeFlow /\ turn' = 0 /\ turnCount' = 0
    BY <1>2 DEF RealtimeStep, IInv, geminiVars, turns
  <2>2. CommandInv' /\ RealtimeFlow'
    BY <1>0, <1>2, <2>1, CommandRealtime, FlowRealtime DEF CommandInv, NormalPhase
  <2> QED
    BY <1>0, <2>1, <2>2 DEF IInv
<1>3. CASE GeminiStep
  <2>1. backend = "gemini" /\ GeminiInv
    BY <1>3 DEF GeminiStep, IInv
  <2> QED
    BY <1>0, <1>3, <2>1, GeminiKept DEF IInv
<1> QED
  BY <1>1, <1>2, <1>3 DEF Next

(* What a session of either adapter never leaves, for any number of turns, *)
(* any audio, any queue size and any faults of the provider, the source    *)
(* and the link.                                                           *)
THEOREM ProvidersInvariant == Spec => []IInv
BY IInvInit, IInvStep, PTL DEF Spec

(* The invariant implies each part of TurnsAreAnswered.                    *)
LEMMA TypeOKHolds == IInv => TypeOK
<1> SUFFICES ASSUME IInv PROVE TypeOK
  OBVIOUS
<1>1. Types /\ TurnsInv /\ OverInv
  BY DEF IInv, CommandInv, GeminiInv
<1>2. turn \in {0, turnCount} /\ turnCount <= Len(answered)
  <2>1. Len(answered) \in Nat
    BY <1>1, DueIs DEF Types
  <2> QED
    BY <2>1 DEF IInv, GeminiInv, TurnInv
<1> QED
  BY <1>1, <1>2 DEF TypeOK, Types, StreamTypes, RealtimeTypes, TurnsInv, OverInv

LEMMA AnsweredOnceHolds == IInv => AnsweredOnce
<1> SUFFICES ASSUME IInv, "mistaken" \notin races PROVE IsInjective(answered)
  BY DEF AnsweredOnce
<1>1. Types /\ IsInjective(Due)
  BY DEF IInv, CommandInv, GeminiInv, TurnsInv
<1>2. /\ Due \in Seq(Nat) /\ answered \in Seq(Nat)
      /\ \A i \in 1..Len(answered) : i \in 1..Len(Due) /\ Due[i] = answered[i]
  BY <1>1, DueIs DEF Types, StreamTypes
<1>3. DOMAIN Due = 1..Len(Due) /\ DOMAIN answered = 1..Len(answered)
  BY <1>2
<1> QED
  BY <1>1, <1>2, <1>3 DEF IsInjective

LEMMA OneTurnIsAwaitedHolds == IInv => OneTurnIsAwaited
<1> SUFFICES ASSUME IInv, encoder = "done", ~gaveUp, races = {}, spoken = 1
             PROVE  ended = 1 /\ owed = <<>> /\ active = 0 /\ answered = <<1>>
  BY DEF OneTurnIsAwaited
<1>1. Types /\ StreamTypes /\ TurnsInv /\ Completed
  BY DEF IInv, CommandInv, GeminiInv, Waiting, Types
<1>2. /\ Due \in Seq(Nat) /\ Len(Due) = Len(answered) + Len(owed)
      /\ Len(answered) \in Nat /\ Len(owed) \in Nat /\ Len(Due) \in Nat
      /\ \A i \in 1..Len(answered) : i \in 1..Len(Due) /\ Due[i] = answered[i]
      /\ ended \in Nat /\ active \in Nat /\ answered \in Seq(Nat) /\ owed \in Seq(Nat)
  BY <1>1, DueIs DEF StreamTypes
<1>3. /\ ended <= 1 /\ IsInjective(Due) /\ \A t \in Elems(Due) : 1 <= t /\ t <= ended
  BY <1>1 DEF TurnsInv
<1>4. \A i \in 1..Len(Due) : Due[i] = 1 /\ ended = 1
  <2> SUFFICES ASSUME NEW i \in 1..Len(Due) PROVE Due[i] = 1 /\ ended = 1
    OBVIOUS
  <2>1. Due[i] \in Nat /\ 1 <= Due[i] /\ Due[i] <= ended
    <3>1. Due[i] \in Elems(Due) /\ Elems(Due) \subseteq Nat
      BY <1>2, ElemsIn DEF Elems
    <3> QED
      BY <1>3, <3>1
  <2> QED
    BY <1>2, <1>3, <2>1
<1>5. Len(Due) <= 1
  <2> SUFFICES ASSUME Len(Due) >= 2 PROVE FALSE
    BY <1>2
  <2>1. 1 \in 1..Len(Due) /\ 2 \in 1..Len(Due) /\ DOMAIN Due = 1..Len(Due)
    BY <1>2
  <2>2. Due[1] = Due[2]
    BY <1>4, <2>1
  <2> QED
    BY <1>3, <2>1, <2>2 DEF IsInjective
<1>6. Len(answered) >= 1 /\ (active # 0 => Len(answered) >= 2)
  BY <1>1 DEF Completed
<1>7. Len(answered) = 1 /\ Len(owed) = 0 /\ active = 0
  <2>1. \A d, a, o \in Nat : d = a + o /\ d <= 1 /\ a >= 1 => a = 1 /\ o = 0
    OBVIOUS
  <2>2. Len(answered) = 1 /\ Len(owed) = 0
    BY <1>2, <1>5, <1>6, <2>1
  <2>3. active = 0
    BY <1>6, <2>2
  <2> QED
    BY <2>2, <2>3
<1>8. 1 \in 1..Len(answered) /\ answered[1] = 1 /\ ended = 1
  BY <1>2, <1>4, <1>7
<1>9. owed = <<>>
  BY <1>2, <1>7, EmptySeq
<1>10. answered = <<1>>
  BY <1>2, <1>7, <1>8
<1> QED
  BY <1>7, <1>8, <1>9, <1>10

(***************************************************************************)
(* A turn of speech is answered once, unless the server's own commit was   *)
(* mistaken for the answer to ours; and a source that held one turn, not   *)
(* interrupted, is done only when that one was answered, unless the wait   *)
(* timed out, something failed, or one of the two races was met.           *)
(***************************************************************************)
THEOREM TurnsAnswered == Spec => []TurnsAreAnswered
<1>1. IInv => TurnsAreAnswered
  BY TypeOKHolds, AnsweredOnceHolds, OneTurnIsAwaitedHolds DEF TurnsAreAnswered
<1> QED
  BY <1>1, ProvidersInvariant, PTL

(***************************************************************************)
(* A session raises only for a cause: its provider, its connection or its  *)
(* source failed, or it met one of the two races.                          *)
(***************************************************************************)
THEOREM RaisedForCause == Spec => []RaisesForCause
<1>1. IInv => RaisesForCause
  BY DEF IInv, CommandInv, GeminiInv, CauseInv
<1> QED
  BY <1>1, ProvidersInvariant, PTL

---------------------------------------------------------------------------
(* Interruptions. *)

LEMMA ControlsTogether ==
  ASSUME IInv, [Next]_vars, last'.type = "truncate", last' # last
  PROVE  last = Payload("cancel", last'.resp)
<1>1. Next /\ ~UNCHANGED realtimeVars
  BY DEF vars, realtimeVars, outbound
<1>2. RealtimeStep
  BY <1>1 DEF Next, StreamStep, GeminiStep
<1>3. backend = "realtime" /\ Types /\ NormalInv /\ ControlsInv
  BY <1>2 DEF RealtimeStep, IInv, CommandInv, NormalPhase
<1>4. PumpSends
  BY <1>2 DEF RealtimeStep, RealtimeTasks, RealtimeReceives, PumpFails, Settled, Acknowledged,
     FinalResponse, ServerStep, AppendAudio, FinishInput, RealtimeInterrupt, realtimeVars, outbound
<1>5. CASE SendsTruncate
  <2>1. last' = Truncate(last.resp) /\ last.type = "cancel" /\ last \in Payloads
    BY <1>3, <1>5 DEF SendsTruncate, ControlsInv, Types, RealtimeTypes
  <2>2. last = Payload("cancel", last.resp)
    BY <2>1 DEF Payloads, Payload
  <2>3. last'.resp = last.resp
    BY <2>1 DEF Truncate, Payload
  <2> QED
    BY <2>2, <2>3
<1>6. ASSUME NEW r \in told, SendsCancel(r) PROVE FALSE
  BY <1>6 DEF SendsCancel, Cancel, Payload
<1>7. CASE SendsAppend \/ SendsCommit \/ SendsCreate
  <2>1. last' \in {AppendPayload, Commit, Create}
    BY <1>7 DEF SendsAppend, SendsCommit, SendsCreate, SendsNormal
  <2>2. last'.type \in {"append", "commit", "create"}
    BY <2>1 DEF AppendPayload, Commit, Create, Payload
  <2> QED
    BY <2>2
<1> QED
  BY <1>3, <1>4, <1>5, <1>6, <1>7, PumpSays

(* The audio of one response among what waits for the caller.              *)
AudioOf(r) == {Event("audio", r)}

LEMMA AudioWaitingIs ==
  ASSUME Types
  PROVE  \A r : AudioWaiting(r) = Count(outQ, AudioOf(r)) /\ AudioWaiting(r) \in Nat
<1>1. outQ \in Seq(Item) /\ DOMAIN outQ = 1..Len(outQ)
  BY DEF Types, StreamTypes
<1>2. ASSUME NEW r
      PROVE AudioWaiting(r) = Count(outQ, AudioOf(r)) /\ AudioWaiting(r) \in Nat
  <2>1. {i \in DOMAIN outQ : outQ[i] = Event("audio", r)} = Positions(outQ, AudioOf(r))
    BY <1>1 DEF Positions, AudioOf
  <2>2. Count(outQ, AudioOf(r)) \in Nat
    BY <1>1, CountType
  <2> QED
    BY <2>1, <2>2 DEF AudioWaiting, Count
<1> QED
  BY <1>2

(* What a queue becomes when events of no audio of r are put and taken.    *)
LEMMA CountPut ==
  ASSUME NEW q \in Seq(Item), NEW e \in Item, NEW r, e # Event("audio", r)
  PROVE  Append(q, e) \in Seq(Item) /\ Count(Append(q, e), AudioOf(r)) = Count(q, AudioOf(r))
<1>1. e \notin AudioOf(r)
  BY DEF AudioOf
<1>2. Count(q, AudioOf(r)) \in Nat
  BY CountType
<1> QED
  BY <1>1, <1>2, CountAppend, AppendElems

LEMMA DroppedReceives ==
  ASSUME IInv, backend = "gemini", GeminiReceives, NEW r \in told
  PROVE  Count(outQ', AudioOf(r)) = Count(outQ, AudioOf(r))
<1>0. Types /\ OverInv /\ TurnInv /\ DroppedInv
  BY DEF IInv, GeminiInv
<1>1. PICK m \in Message, t \in Nat, p \in Seq(Item), q \in Seq(Item) :
           GeminiTakes(m, t) /\ Announces(p, t) /\ Voices(q, p, m, t) /\ Finishes(outQ', q, m, t)
  BY <1>0, GeminiReceivesSays
<1>2. t >= 1 /\ (turn = 0 => t = turnCount + 1) /\ (turn # 0 => t = turn)
  BY <1>0, <1>1, TurnTakes
<1>3. r \in Nat /\ r <= turnCount /\ (r = turn => r \in abandoned) /\ outQ \in Seq(Item)
      /\ turnCount \in Nat
  BY <1>0, ResponsesAre DEF DroppedInv, Types, StreamTypes, GeminiTypes
<1>4. r = t => t \in abandoned
  BY <1>2, <1>3
<1>5. /\ Event("started", t) \in Item /\ Event("started", t) # Event("audio", r)
      /\ Event("done", t) \in Item /\ Event("done", t) # Event("audio", r)
      /\ Event("audio", t) \in Item /\ (Event("audio", t) = Event("audio", r) => t = r)
  BY ItemTypes, PayloadFacts
<1>6. Count(p, AudioOf(r)) = Count(outQ, AudioOf(r))
  BY <1>1, <1>3, <1>5, CountPut DEF Announces
<1>7. Count(q, AudioOf(r)) = Count(p, AudioOf(r))
  BY <1>1, <1>4, <1>5, CountPut DEF Voices
<1>8. Count(outQ', AudioOf(r)) = Count(q, AudioOf(r))
  BY <1>1, <1>5, CountPut DEF Finishes
<1> QED
  BY <1>6, <1>7, <1>8

(* No step queues audio of an interrupted response.                        *)
LEMMA DroppedStep ==
  ASSUME IInv, [Next]_vars, backend = "gemini", NEW r \in told
  PROVE  AudioWaiting(r)' <= AudioWaiting(r)
<1>0. Types /\ outQ \in Seq(Item) /\ AudioWaiting(r) = Count(outQ, AudioOf(r)) /\ AudioWaiting(r) \in Nat
  BY AudioWaitingIs DEF IInv, Types, StreamTypes
<1>1. AudioWaiting(r)' = Count(outQ', AudioOf(r))
  <2>1. Types'
    BY IInvStep DEF IInv
  <2>2. DOMAIN outQ' = 1..Len(outQ')
    BY <2>1 DEF Types, StreamTypes
  <2>3. {i \in DOMAIN outQ' : outQ'[i] = Event("audio", r)} = Positions(outQ', AudioOf(r))
    BY <2>2 DEF Positions, AudioOf
  <2> QED
    BY <2>3 DEF AudioWaiting, Count
<1>2. ASSUME outQ' = outQ PROVE AudioWaiting(r)' <= AudioWaiting(r)
  BY <1>0, <1>1, <1>2
<1>3. CASE StreamStep
  <2>1. CASE \E e \in Item : Yields(e)
    <3>1. outQ # <<>> /\ outQ' = Tail(outQ)
      BY <2>1 DEF Yields
    <3>2. Count(Tail(outQ), AudioOf(r)) \in Nat
      BY <1>0, <3>1, TailElems, CountType
    <3>3. Count(outQ, AudioOf(r)) = Count(Tail(outQ), AudioOf(r)) + IF outQ[1] \in AudioOf(r) THEN 1 ELSE 0
      BY <1>0, <3>1, CountTail
    <3>4. \A a, b \in Nat : a = b \/ a = b + 1 => b <= a
      OBVIOUS
    <3> QED
      BY <1>0, <1>1, <3>1, <3>2, <3>3, <3>4
  <2>2. CASE Leaves
    <3>1. Count(outQ', AudioOf(r)) = 0
      BY <1>0, <2>2, CountType DEF Leaves
    <3> QED
      BY <1>0, <1>1, <3>1
  <2>3. CASE ReceiverEnds
    <3>1. PICK f \in Item : f.kind \notin Kinds /\ outQ' = Append(outQ, f)
      BY <2>3, ItemTypes DEF ReceiverEnds, AfterFailure, Failure, EndOfStream, Event, Kinds
    <3>2. f # Event("audio", r)
      BY <3>1, PayloadFacts, ItemTypes
    <3>3. Count(outQ', AudioOf(r)) = Count(outQ, AudioOf(r))
      BY <1>0, <3>1, <3>2, CountPut
    <3> QED
      BY <1>0, <1>1, <3>3
  <2>4. CASE CloseAtEnd \/ EncoderFails \/ \E how \in {"hungup", "lost"} : ConnectionBreaks(how)
    BY <1>2, <2>4 DEF CloseAtEnd, EncoderFails, ConnectionBreaks, tasks
  <2> QED
    BY <1>0, <1>3, <2>1, <2>2, <2>3, <2>4, StreamSays
<1>4. CASE GeminiStep
  <2>1. CASE GeminiReceives
    <3>1. Count(outQ', AudioOf(r)) = Count(outQ, AudioOf(r))
      BY <2>1, DroppedReceives
    <3> QED
      BY <1>0, <1>1, <3>1
  <2>2. CASE ~GeminiReceives
    <3>1. outQ' = outQ
      BY <1>4, <2>2 DEF GeminiStep, GeminiTasks, GeminiServerStep, SendAudio, SendFails, EndInput,
         TurnSettled, FinalTurn, GeminiInterrupt, tasks
    <3> QED
      BY <1>2, <3>1
  <2> QED
    BY <2>1, <2>2
<1>5. CASE UNCHANGED vars
  BY <1>2, <1>5 DEF vars, tasks
<1> QED
  BY <1>3, <1>4, <1>5 DEF Next, RealtimeStep

(***************************************************************************)
(* Realtime: a cancellation is followed by its truncation with nothing     *)
(* between them.  Gemini: no audio of an interrupted response is mapped    *)
(* any more.                                                               *)
(***************************************************************************)
THEOREM InterruptsClean == Spec => InterruptsAreClean
<1>1. IInv /\ [Next]_vars =>
        [last'.type = "truncate" /\ last' # last => last = Payload("cancel", last'.resp)]_vars
  BY ControlsTogether
<1>2. IInv /\ [Next]_vars =>
        [backend = "gemini" => \A r \in told : AudioWaiting(r)' <= AudioWaiting(r)]_vars
  BY DroppedStep
<1> QED
  BY <1>1, <1>2, ProvidersInvariant, PTL
  DEF Spec, InterruptsAreClean, ControlsStayTogether, InterruptedIsDropped

---------------------------------------------------------------------------
(* The stream of either adapter is a stream of responses. *)

(* The next event to be yielded is one that may be.                        *)
LEMMA NextFits ==
  ASSUME IInv, NEW e \in Item, Yields(e)
  PROVE  /\ e.resp \in Responses
         /\ e.kind = "started" => yielded["started"][e.resp] = 0
         /\ e.kind # "started" => yielded["started"][e.resp] = 1 /\ yielded["done"][e.resp] = 0
<1>0. /\ Types /\ TurnsInv /\ e.kind \in Kinds /\ e.resp \in Nat
      /\ outQ \in Seq(Item) /\ outQ # <<>> /\ outQ[1] = e /\ e \in Elems(outQ) /\ stream = "open"
  BY TailElems DEF IInv, CommandInv, GeminiInv, Types, StreamTypes, Yields, Item
<1> PICK S : S = IF backend = "realtime" THEN FlowAll ELSE Elems(outQ)
  OBVIOUS
<1>1. \E top \in Nat : top <= Len(answered) /\ Fits(S, top)
  <2>1. CASE backend = "realtime"
    BY <1>0, <2>1, DueIs DEF IInv, RealtimeFlow, FlowAll, Types
  <2>2. CASE backend = "gemini"
    BY <1>0, <2>2 DEF IInv, GeminiInv, TurnInv, GeminiFlow, Types, GeminiTypes
  <2> QED
    BY <2>1, <2>2 DEF IInv
<1>2. PICK top \in Nat : top <= Len(answered) /\ Fits(S, top)
  BY <1>1
<1>3. e \in S
  BY <1>0 DEF FlowAll
<1>4. /\ 1 <= e.resp /\ e.resp <= top
      /\ IF e.kind = "started" THEN yielded["started"][e.resp] = 0
         ELSE yielded["done"][e.resp] = 0 /\ Announced(e.resp, S)
  BY <1>0, <1>2, <1>3 DEF Fits
<1>5. e.resp \in Responses
  BY <1>0, <1>2, <1>4, ResponsesFit DEF Types
<1>6. \A x \in S : x = e \/ Before(e, x)
  <2>1. InOrder(outQ)
    BY <1>0 DEF IInv, RealtimeFlow, GeminiInv, GeminiFlow
  <2>2. Elems(outQ) = {e} \cup Elems(Tail(outQ)) /\ \A x \in Elems(Tail(outQ)) : Before(e, x)
    BY <1>0, <2>1, TailElems, OrderTail
  <2>3. backend = "realtime" => \A x \in Elems(inbox) : Before(e, x)
    BY <1>0 DEF IInv, RealtimeFlow, AllBefore
  <2> QED
    BY <2>2, <2>3 DEF FlowAll
<1>7. Event("started", e.resp) \in S => e.kind = "started"
  <2> SUFFICES ASSUME Event("started", e.resp) \in S, e.kind # "started" PROVE FALSE
    OBVIOUS
  <2> PICK x : x = Event("started", e.resp)
    OBVIOUS
  <2>1. x.kind = "started" /\ x.resp = e.resp /\ x.kind \in Kinds
    BY PayloadFacts, ItemTypes
  <2>2. Before(e, x)
    BY <1>6, <2>1
  <2> QED
    BY <1>0, <2>1, <2>2 DEF Before
<1> QED
  BY <1>4, <1>5, <1>7 DEF Announced

LEMMA ContractInit == Init => Contract!Init
<1> SUFFICES ASSUME Init PROVE Contract!Init
  OBVIOUS
<1>1. stream = "open" /\ yielded = [k \in Kinds |-> [r \in Responses |-> 0]]
  BY DEF Init, StreamInit
<1>2. \A k \in Kinds : yielded[k] = [r \in Responses |-> 0]
  BY <1>1
<1> QED
  BY <1>1, <1>2, ItemTypes DEF Contract!Init, Contract!None, Contract!Responses, Responses

(* An event that is yielded is a step of the contract; the rest stutters.  *)
LEMMA ContractYields ==
  ASSUME IInv, NEW e \in Item, Yields(e)
  PROVE  Contract!Next
<1>0. /\ e.resp \in Responses /\ e.kind \in Kinds
      /\ e.kind = "started" => yielded["started"][e.resp] = 0
      /\ e.kind # "started" => yielded["started"][e.resp] = 1 /\ yielded["done"][e.resp] = 0
      /\ stream = "open" /\ stream' = "open"
  BY NextFits DEF Yields
<1>1. yielded \in [Kinds -> [Responses -> Nat]] /\ yielded' = [yielded EXCEPT ![e.kind][e.resp] = @ + 1]
  BY DEF Yields, IInv, Types, StreamTypes
<1> PICK r \in Responses : r = e.resp
  BY <1>0
<1>2. /\ yielded'[e.kind] = [yielded[e.kind] EXCEPT ![r] = @ + 1]
      /\ \A k \in Kinds : k # e.kind => yielded'[k] = yielded[k]
  BY <1>0, <1>1
<1>3. "started" \in Kinds /\ "audio" \in Kinds /\ "done" \in Kinds /\ Contract!Responses = Responses
  BY ItemTypes DEF Contract!Responses, Responses
<1>4. CASE e.kind = "started"
  <2>1. yielded'["started"] = [yielded["started"] EXCEPT ![r] = 1]
    BY <1>0, <1>1, <1>2, <1>3, <1>4
  <2>2. Contract!Begin(r)
    BY <1>0, <1>2, <1>3, <1>4, <2>1 DEF Contract!Begin
  <2> QED
    BY <1>3, <2>2 DEF Contract!Next
<1>5. CASE e.kind = "audio"
  <2>1. Contract!Audio(r)
    BY <1>0, <1>2, <1>3, <1>5 DEF Contract!Audio
  <2> QED
    BY <1>3, <2>1 DEF Contract!Next
<1>6. CASE e.kind = "done"
  <2>1. yielded'["done"] = [yielded["done"] EXCEPT ![r] = 1]
    BY <1>0, <1>1, <1>2, <1>3, <1>6
  <2>2. Contract!Finish(r)
    BY <1>0, <1>2, <1>3, <1>6, <2>1 DEF Contract!Finish
  <2> QED
    BY <1>3, <2>2 DEF Contract!Next
<1> QED
  BY <1>0, <1>4, <1>5, <1>6 DEF Kinds

LEMMA ContractNext == IInv /\ [Next]_vars => [Contract!Next]_(Contract!vars)
<1> SUFFICES ASSUME IInv, [Next]_vars, ~UNCHANGED <<yielded, stream>>
             PROVE  Contract!Next
  BY DEF Contract!vars
<1>1. StreamStep
  BY DEF Next, vars, caller, RealtimeStep, RealtimeTasks, RealtimeReceives, PumpSends, PumpFails, Settled, Acknowledged,
     FinalResponse, ServerStep, AppendAudio, FinishInput, RealtimeInterrupt, GeminiStep, GeminiTasks,
     GeminiReceives, TurnSettled, FinalTurn, GeminiServerStep, SendAudio, SendFails, EndInput, GeminiInterrupt
<1>2. CASE \E e \in Item : Yields(e)
  BY <1>2, ContractYields
<1>3. CASE Leaves
  <2>1. Contract!End
    BY <1>3 DEF Leaves, Contract!End
  <2> QED
    BY <2>1 DEF Contract!Next
<1>4. ~ReceiverEnds /\ ~CloseAtEnd /\ ~EncoderFails /\ ~\E how \in {"hungup", "lost"} : ConnectionBreaks(how)
  BY DEF ReceiverEnds, CloseAtEnd, EncoderFails, ConnectionBreaks, caller
<1> QED
  BY <1>1, <1>2, <1>3, <1>4, StreamSays DEF IInv

(***************************************************************************)
(* What either adapter yields is what the protocol promises: a response is *)
(* announced once, before its audio, and ends at most once, after it.      *)
(***************************************************************************)
THEOREM StreamsResponses == Spec => ImplementsResponseEvents
BY ContractInit, ContractNext, ProvidersInvariant, PTL DEF Spec, ImplementsResponseEvents, Contract!Spec
=============================================================================
