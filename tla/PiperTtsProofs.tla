--------------------------- MODULE PiperTtsProofs ---------------------------
(***************************************************************************)
(* AnswersAreOwn, for every number of utterances and blocks and every size *)
(* of the request queue, whatever the child does and whenever a synthesis  *)
(* is abandoned.                                                           *)
(*                                                                         *)
(* The inductive invariant PiperInv says that requests are numbered in the *)
(* order of the queue and that no result is newer than what is unhandled   *)
(* (Numbers); so, when somebody waits, an answer with the last number      *)
(* means that the child has nothing left to do, and the generator is where *)
(* the lookahead of the adapter expects it (Waiting, Between).             *)
(***************************************************************************)
EXTENDS PiperTts, SequenceTheorems, TLAPS

Blocks   == [utt : Nat, block : Nat]
Payloads == [op : {"start", "next"}, utt : Nat]
Requests == [id : Nat \ {0}, payload : Payloads]
Results  == {"ok", "cancelled", "error"}
Messages == [kind : Results \cup {"ready", "fatal", "closed", "died", "refused"},
             id : Nat, value : Blocks \cup {0}]
Chunks   == [utt : Nat, of : Blocks, final : BOOLEAN]

Types ==
  /\ ready \in {"none", "waiting", "ok", "failed"}
  /\ closing \in {"open", "joining", "bridge", "closed"}
  /\ child \in {"none", "loading", "idle", "busy", "exited"}
  /\ working \in Requests \cup {NoRequest}
  /\ working # NoRequest <=> child = "busy"
  /\ reqQ \in Seq(Requests \cup {Shutdown}) /\ Len(reqQ) <= RequestMax
  /\ results \in Seq(Messages) /\ cancelled \in BOOLEAN
  /\ counter \in Nat /\ pending \subseteq {counter} /\ (pending # {} => counter # 0)
  /\ answer \in Messages \cup {NoAnswer}
  /\ generator \in Blocks /\ held \in Blocks /\ spoken \in Seq(Chunks)
  /\ stage \in {"idle", "start", "next", "yield"}
  /\ utterance \in 0..MaxUtterances /\ (stage # "idle" => utterance # 0)

Members(q) == {q[i] : i \in 1..Len(q)}

(* The requests leave the queue in the order of their numbers, and the     *)
(* sentinel, which only a close puts there, is the last.                   *)
Ordered(q) ==
  \A i, j \in 1..Len(q) : i < j => q[i].id # 0 /\ (q[j].id = 0 \/ q[i].id < q[j].id)

Unhandled == Members(reqQ) \cup {working}

Numbers ==
  /\ Ordered(reqQ)
  /\ closing = "open" => \A q \in Members(reqQ) : q.id # 0
  /\ \A q \in Members(reqQ) : q.id <= counter /\ (q.id # 0 => working.id < q.id)
  /\ working.id <= counter
  /\ \A m \in Members(results) :
       /\ m.id <= counter
       /\ \A q \in Unhandled : q.id # 0 => m.id < q.id

Settled == \A q \in Unhandled : q.id = 0

Block(n) == [utt |-> utterance, block |-> held.block + n]

(* What the child has done for the request that is answered with value.    *)
Right(value) ==
  IF stage = "start" THEN generator = [utt |-> utterance, block |-> 1]
  ELSE value = End \/ (value = Block(1) /\ generator = Block(2))

(* The request somebody waits for is of the utterance and the stage; the   *)
(* generator is where the lookahead expects it.                            *)
Waiting ==
  pending # {} =>
    /\ stage \in {"start", "next"} /\ answer = NoAnswer
    /\ \A q \in Unhandled :
         /\ q.id = counter => q.payload = [op |-> stage, utt |-> utterance]
         /\ stage = "next" => q.id \in {0, counter}
         /\ (stage = "next" /\ q.id = counter) => generator = Block(1)
    /\ \A m \in Members(results) : m.id = counter /\ m.kind = "ok" => Right(m.value)

(* An answer that has come, and a block the consumer has not taken.        *)
Between ==
  /\ answer # NoAnswer => stage \in {"start", "next"} /\ pending = {}
  /\ answer.kind = "ok" => Right(answer.value) /\ Settled
  /\ stage = "yield" => generator = Block(1) /\ held # NoBlock /\ Settled
  /\ stage = "start" => held = NoBlock

(* The event that is set is not for the request somebody waits for, unless *)
(* the session is over.                                                    *)
Cancellation ==
  closing = "open" =>
    /\ pending # {} =>
         /\ cancelled => working.id # counter
         /\ \A m \in Members(results) : m.kind = "cancelled" => m.id # counter
    /\ answer.kind # "cancelled"
    /\ failed # "cancelled"

Last == spoken[Len(spoken)]
Spoken == spoken # <<>> /\ Last.utt = utterance

(* What has been yielded, and the block that is held back.                 *)
Speech ==
  /\ SpeaksItsOwnText
  /\ \A i \in 1..Len(spoken) : spoken[i].utt <= utterance
  /\ \A i, j \in 1..Len(spoken) : j = i + 1 =>
       spoken[i].utt < spoken[j].utt \/ (spoken[i].utt = spoken[j].utt /\ ~spoken[i].final)
  /\ (Spoken /\ ~Last.final) => held # NoBlock
  /\ stage # "idle" =>
       /\ Spoken => ~Last.final
       /\ held # NoBlock => held = [utt |-> utterance,
                                    block |-> IF Spoken THEN Last.of.block + 1 ELSE 1]
       /\ held = NoBlock => ~Spoken

(* The inductive invariant. *)
PiperInv ==
  Types /\ Numbers /\ Waiting /\ Between /\ Cancellation /\ Speech

LEMMA Bounds == RequestMax \in Nat \ {0} /\ MaxUtterances \in Nat
BY WorkerAssumption, PiperAssumption

---------------------------------------------------------------------------
(* Queues. *)

LEMMA TailMembers ==
  ASSUME NEW S, NEW es \in Seq(S), es # <<>>
  PROVE  /\ Head(es) \in S /\ Head(es) \in Members(es)
         /\ Tail(es) \in Seq(S) /\ Len(Tail(es)) <= Len(es)
         /\ Members(es) = Members(Tail(es)) \cup {Head(es)} /\ Members(es) \subseteq S
         /\ Ordered(es) =>
              /\ Ordered(Tail(es))
              /\ \A f \in Members(Tail(es)) :
                   Head(es).id # 0 /\ (f.id = 0 \/ Head(es).id < f.id)
<1> DEFINE t == Tail(es)
<1>1. /\ Head(es) \in S /\ t \in Seq(S) /\ Len(t) = Len(es) - 1
      /\ \A i \in 1..Len(t) : t[i] = es[i + 1]
      /\ Len(es) \in Nat /\ Len(es) # 0 /\ Head(es) = es[1]
  BY HeadTailProperties, LenProperties, EmptySeq
<1> HIDE DEF t
<1>2. \A i \in 1..Len(t) : i + 1 \in 1..Len(es) /\ 1 < i + 1
  BY <1>1
<1>3. \A i \in 1..Len(es) : i # 1 => i - 1 \in 1..Len(t) /\ t[i - 1] = es[i]
  BY <1>1
<1>4. Members(es) = Members(t) \cup {Head(es)}
  BY <1>1, <1>2, <1>3 DEF Members
<1>5. Members(es) \subseteq S
  BY ElementOfSeq DEF Members
<1>6. ASSUME Ordered(es) PROVE Ordered(t)
  <2> SUFFICES ASSUME NEW i \in 1..Len(t), NEW j \in 1..Len(t), i < j
               PROVE  t[i].id # 0 /\ (t[j].id = 0 \/ t[i].id < t[j].id)
    BY DEF Ordered
  <2>1. i + 1 \in 1..Len(es) /\ j + 1 \in 1..Len(es) /\ i + 1 < j + 1
    BY <1>2
  <2> QED
    BY <2>1, <1>1, <1>6 DEF Ordered
<1>7. ASSUME Ordered(es), NEW f \in Members(t)
      PROVE  Head(es).id # 0 /\ (f.id = 0 \/ Head(es).id < f.id)
  <2>1. PICK i \in 1..Len(t) : f = t[i]
    BY DEF Members
  <2>2. 1 \in 1..Len(es) /\ i + 1 \in 1..Len(es) /\ 1 < i + 1 /\ es[i + 1] = f
    BY <2>1, <1>1, <1>2
  <2> QED
    BY <2>2, <1>1, <1>7 DEF Ordered
<1> QED
  BY <1>1, <1>4, <1>5, <1>6, <1>7 DEF t

LEMMA AppendMembers ==
  ASSUME NEW S, NEW es \in Seq(S), NEW e \in S
  PROVE  /\ Append(es, e) \in Seq(S) /\ Len(es) \in Nat /\ Len(Append(es, e)) = Len(es) + 1
         /\ Members(Append(es, e)) = Members(es) \cup {e}
         /\ Ordered(es) /\ (\A f \in Members(es) : f.id # 0 /\ (e.id = 0 \/ f.id < e.id))
              => Ordered(Append(es, e))
<1> DEFINE fs == Append(es, e)
<1>1. /\ fs \in Seq(S) /\ Len(es) \in Nat /\ Len(fs) = Len(es) + 1
      /\ \A i \in 1..Len(es) : fs[i] = es[i]
      /\ fs[Len(es) + 1] = e
  BY AppendProperties, LenProperties
<1> HIDE DEF fs
<1>2. /\ \A i \in 1..Len(es) : i \in 1..Len(fs) /\ fs[i] = es[i]
      /\ Len(es) + 1 \in 1..Len(fs) /\ fs[Len(es) + 1] = e
      /\ \A i \in 1..Len(fs) : i \in 1..Len(es) \/ i = Len(es) + 1
  BY <1>1
<1>3. Members(fs) = Members(es) \cup {e}
  BY <1>2 DEF Members
<1>4. ASSUME Ordered(es), \A f \in Members(es) : f.id # 0 /\ (e.id = 0 \/ f.id < e.id)
      PROVE  Ordered(fs)
  <2> SUFFICES ASSUME NEW i \in 1..Len(fs), NEW j \in 1..Len(fs), i < j
               PROVE  fs[i].id # 0 /\ (fs[j].id = 0 \/ fs[i].id < fs[j].id)
    BY DEF Ordered
  <2>1. i \in 1..Len(es)
    BY <1>1
  <2>2. CASE j \in 1..Len(es)
    BY <2>1, <2>2, <1>2, <1>4 DEF Ordered
  <2>3. CASE j = Len(es) + 1
    BY <2>1, <2>3, <1>2, <1>4 DEF Members
  <2> QED
    BY <2>2, <2>3, <1>2
<1> QED
  BY <1>1, <1>3, <1>4 DEF fs

---------------------------------------------------------------------------
LEMMA PiperInitInv == Init => PiperInv
<1> SUFFICES ASSUME Init PROVE PiperInv
  OBVIOUS
<1>1. Members(reqQ) = {} /\ Members(results) = {} /\ working.id = 0 /\ working = NoRequest
  BY DEF Init, WorkerInit, Members, NoRequest
<1>2. Types
  <2>1. reqQ \in Seq(Requests \cup {Shutdown}) /\ Len(reqQ) <= RequestMax
        /\ results \in Seq(Messages) /\ spoken \in Seq(Chunks)
    BY Bounds DEF Init, WorkerInit
  <2>2. generator \in Blocks /\ held \in Blocks /\ utterance \in 0..MaxUtterances
    BY Bounds DEF Init, NoGenerator, NoBlock, Blocks
  <2> QED
    BY <2>1, <2>2 DEF Init, WorkerInit, Types
<1>3. Numbers /\ Waiting
  BY <1>1 DEF Init, WorkerInit, Numbers, Waiting, Ordered
<1>4. Between /\ Cancellation
  BY DEF Init, WorkerInit, Between, Cancellation, NoAnswer
<1>5. Speech
  BY DEF Init, Speech, Spoken, SpeaksItsOwnText
<1> QED
  BY <1>2, <1>3, <1>4, <1>5 DEF PiperInv

LEMMA SpeechStays ==
  ASSUME Speech, UNCHANGED <<utterance, held, spoken>>, stage' # "idle" => stage # "idle"
  PROVE  Speech'
BY DEF Speech, SpeaksItsOwnText, Spoken, Last

(* What is asked for and what waits has a number; the fillers have none.   *)
LEMMA Fillers ==
  ASSUME Types
  PROVE  /\ NoRequest.id = 0 /\ Shutdown.id = 0 /\ NoAnswer.kind = "none"
         /\ counter \in Nat /\ working.id \in Nat
         /\ working # NoRequest => working \in Requests /\ working.id # 0
         /\ \A q \in Unhandled : q.id \in Nat
         /\ \A m \in Members(results) : m \in Messages /\ m.id \in Nat
<1>1. \A q \in Requests \cup {NoRequest, Shutdown} : q.id \in Nat
  BY DEF Requests, NoRequest, Shutdown
<1>2. Members(reqQ) \subseteq Requests \cup {Shutdown}
  BY ElementOfSeq DEF Members, Types
<1>3. Members(results) \subseteq Messages /\ \A m \in Messages : m.id \in Nat
  <2>1. \A i \in 1..Len(results) : results[i] \in Messages
    BY ElementOfSeq DEF Types
  <2>2. \A m \in Messages : m.id \in Nat
    BY DEF Messages
  <2> QED
    BY <2>1, <2>2 DEF Members
<1>4. \A q \in Requests : q.id # 0
  BY DEF Requests
<1> QED
  BY <1>1, <1>2, <1>3, <1>4 DEF Types, NoRequest, Shutdown, NoAnswer, Unhandled

---------------------------------------------------------------------------
(* The worker. *)

(* A step that takes requests and results away, or ends a wait.            *)
LEMMA WorkerInv ==
  ASSUME PiperInv, Types', UNCHANGED <<counter, generator, client>>,
         Ordered(reqQ'), Members(reqQ') \subseteq Members(reqQ),
         working' \in Unhandled \cup {NoRequest},
         \A q \in Members(reqQ') : q.id # 0 => working'.id < q.id,
         \A m \in Members(results') : m \in Members(results) \/ m.id = 0,
         closing' = "open" => closing = "open",
         cancelled' => cancelled /\ working' \in {working, NoRequest},
         \/ UNCHANGED <<pending, answer>>
         \/ /\ pending # {} /\ pending' = {} /\ answer' # NoAnswer
            /\ answer'.kind = "ok" => Right(answer'.value) /\ Settled
            /\ answer'.kind = "cancelled" => closing # "open"
  PROVE  PiperInv'
<1> USE DEF PiperInv
<1>0. /\ NoRequest.id = 0 /\ NoAnswer.kind = "none" /\ counter \in Nat
      /\ \A q \in Unhandled : q.id \in Nat
  BY Fillers
<1>1. Unhandled' \subseteq Unhandled \cup {NoRequest}
  BY DEF Unhandled
<1>2. Numbers'
  <2>1. working'.id <= counter
    BY <1>0 DEF Numbers, Unhandled
  <2>2. \A m \in Members(results') :
          /\ m.id <= counter
          /\ \A q \in Unhandled' : q.id # 0 => m.id < q.id
    BY <1>0, <1>1 DEF Numbers
  <2> QED
    BY <2>1, <2>2 DEF Numbers
<1>3. \A value : Right(value)' <=> Right(value)
  BY DEF Right, Block, client
<1>4. Waiting'
  <2> SUFFICES ASSUME pending' # {} PROVE Waiting'
    BY DEF Waiting
  <2>1. UNCHANGED <<pending, answer>> /\ pending # {} /\ counter # 0
    BY DEF Types
  <2>2. UNCHANGED <<stage, utterance, held, generator, counter>>
    BY DEF client
  <2>3. ASSUME NEW q \in Unhandled'
        PROVE  /\ q.id = counter => q.payload = [op |-> stage, utt |-> utterance]
               /\ stage = "next" => q.id \in {0, counter}
               /\ (stage = "next" /\ q.id = counter) => generator = Block(1)
    BY <1>0, <1>1, <2>1 DEF Waiting
  <2>4. ASSUME NEW m \in Members(results'), m.id = counter, m.kind = "ok" PROVE Right(m.value)
    BY <2>1, <2>4 DEF Waiting
  <2>5. stage \in {"start", "next"} /\ answer = NoAnswer
    BY <2>1 DEF Waiting
  <2>6. Block(1)' = Block(1)
    BY <2>2 DEF Block
  <2> QED
    BY <1>3, <2>1, <2>2, <2>3, <2>4, <2>5, <2>6 DEF Waiting
<1>5. Between'
  <2>1. Settled => Settled'
    BY <1>0, <1>1 DEF Settled
  <2>2. UNCHANGED <<stage, utterance, held, generator>>
    BY DEF client
  <2>3. Block(1)' = Block(1)
    BY <2>2 DEF Block
  <2>4. pending # {} => stage \in {"start", "next"}
    BY DEF Waiting
  <2>5. answer'.kind = "ok" => Right(answer'.value) /\ Settled
    BY DEF Between
  <2>6. answer' # NoAnswer => stage \in {"start", "next"} /\ pending' = {}
    BY <2>4 DEF Between
  <2> QED
    BY <1>3, <2>1, <2>2, <2>3, <2>5, <2>6 DEF Between
<1>6. Cancellation'
  <2> SUFFICES ASSUME closing' = "open" PROVE Cancellation'
    BY DEF Cancellation
  <2>1. failed' = failed /\ failed # "cancelled" /\ answer'.kind # "cancelled"
    BY DEF client, Cancellation
  <2>2. ASSUME pending' # {}
        PROVE  /\ cancelled' => working'.id # counter
               /\ \A m \in Members(results') : m.kind = "cancelled" => m.id # counter
    <3>1. pending # {} /\ counter # 0
      BY <2>2 DEF Types
    <3> QED
      BY <1>0, <3>1 DEF Cancellation
  <2> QED
    BY <2>1, <2>2 DEF Cancellation
<1>7. Speech'
  BY SpeechStays DEF client
<1> QED
  BY <1>2, <1>4, <1>5, <1>6, <1>7

(* The messages that nobody's request is answered with. *)
LEMMA Notes ==
  ASSUME NEW kind \in {"ready", "fatal", "closed", "died", "refused"}
  PROVE  /\ Message(kind, 0, 0) \in Messages /\ Message(kind, 0, 0).id = 0
         /\ Message(kind, 0, 0).kind = kind /\ Message(kind, 0, 0) # NoAnswer
<1>1. Message(kind, 0, 0) \in Messages /\ Message(kind, 0, 0).id = 0
      /\ Message(kind, 0, 0).kind = kind
  BY DEF Message, Messages
<1> QED
  BY <1>1 DEF NoAnswer

LEMMA SpawnInv == ASSUME PiperInv, Spawn, UNCHANGED <<generator, client>> PROVE PiperInv'
<1> USE DEF PiperInv
<1>1. Types'
  BY DEF Spawn, Types, client
<1> QED
  BY <1>1, WorkerInv DEF Spawn, Numbers, Unhandled

LEMMA LoadInv == ASSUME PiperInv, Load, UNCHANGED <<generator, client>> PROVE PiperInv'
<1> USE DEF PiperInv
<1>1. /\ child = "loading" /\ child' \in {"idle", "exited"}
      /\ UNCHANGED <<working, reqQ, cancelled, bridge, parent>>
  BY DEF Load
<1>2. PICK m \in Messages : m.id = 0 /\ results' = Append(results, m)
  BY Notes DEF Load
<1>3. results' \in Seq(Messages) /\ Members(results') = Members(results) \cup {m}
  BY <1>2, AppendMembers DEF Types
<1>4. Types'
  BY <1>1, <1>3 DEF Types, client, parent
<1> QED
  BY <1>1, <1>2, <1>3, <1>4, WorkerInv DEF Numbers, Unhandled, parent

LEMMA PickupInv == ASSUME PiperInv, Pickup, UNCHANGED <<generator, client>> PROVE PiperInv'
<1> USE DEF PiperInv
<1> DEFINE q == Head(reqQ)
<1>0. /\ child = "idle" /\ reqQ # <<>> /\ reqQ' = Tail(reqQ) /\ working = NoRequest
      /\ UNCHANGED <<bridge, parent>>
  BY DEF Pickup, Types
<1>1. /\ q \in Requests \cup {Shutdown} /\ q \in Members(reqQ)
      /\ reqQ' \in Seq(Requests \cup {Shutdown}) /\ Len(reqQ') <= Len(reqQ)
      /\ Members(reqQ) = Members(reqQ') \cup {q}
      /\ Ordered(reqQ')
      /\ \A f \in Members(reqQ') : q.id # 0 /\ (f.id = 0 \/ q.id < f.id)
  BY <1>0, TailMembers DEF Types, Numbers
<1>2. Len(reqQ') <= RequestMax
  <2>1. Len(reqQ') \in Nat /\ Len(reqQ) \in Nat
    BY <1>1, LenProperties DEF Types
  <2> QED
    BY <1>1, <2>1, Bounds DEF Types
<1>3. CASE q = Shutdown
  <2>1. /\ child' = "exited" /\ UNCHANGED <<working, cancelled>>
        /\ results' = Append(results, Message("closed", 0, 0))
    BY <1>3 DEF Pickup
  <2>2. results' \in Seq(Messages) /\ Members(results') = Members(results) \cup {Message("closed", 0, 0)}
    BY <2>1, Notes, AppendMembers DEF Types
  <2>3. Types'
    BY <1>0, <1>1, <1>2, <2>1, <2>2 DEF Types, client, parent
  <2>4. \A m \in Members(results') : m \in Members(results) \/ m.id = 0
    BY <2>2, Notes
  <2> QED
    BY <1>0, <1>1, <2>1, <2>3, <2>4, WorkerInv DEF Numbers, Unhandled, parent
<1>4. CASE q # Shutdown
  <2>1. /\ child' = "busy" /\ working' = q /\ cancelled' = FALSE /\ results' = results
    BY <1>4 DEF Pickup, EventAtPickup
  <2>2. q \in Requests /\ q # NoRequest
    BY <1>1, <1>4 DEF Shutdown, NoRequest
  <2>3. Types'
    BY <1>0, <1>1, <1>2, <2>1, <2>2 DEF Types, client, parent
  <2> QED
    BY <1>0, <1>1, <2>1, <2>3, WorkerInv DEF Unhandled, parent
<1> QED
  BY <1>3, <1>4

LEMMA CrashInv == ASSUME PiperInv, Crash, UNCHANGED <<generator, client>> PROVE PiperInv'
<1> USE DEF PiperInv
<1>1. /\ child' = "exited" /\ working' = NoRequest /\ UNCHANGED <<channels, parent>>
  BY DEF Crash
<1>2. Types'
  BY <1>1 DEF Types, client, channels, parent
<1>3. \A q \in Members(reqQ) : q.id # 0 => NoRequest.id < q.id
  BY Fillers DEF Unhandled
<1> QED
  BY <1>1, <1>2, <1>3, WorkerInv DEF Numbers, channels, parent

LEMMA JoinEndsInv == ASSUME PiperInv, JoinEnds, UNCHANGED <<generator, client>> PROVE PiperInv'
<1> USE DEF PiperInv
<1>1. /\ closing' = "bridge" /\ working' = NoRequest
      /\ child' = IF child \in {"loading", "idle", "busy"} THEN "exited" ELSE child
      /\ UNCHANGED <<channels, ready, counter, pending, answer, orphaned>>
  BY DEF JoinEnds, AfterJoin, Alive
<1>2. Types'
  BY <1>1 DEF Types, client, channels
<1>3. \A q \in Members(reqQ) : q.id # 0 => NoRequest.id < q.id
  BY Fillers DEF Unhandled
<1> QED
  BY <1>1, <1>2, <1>3, WorkerInv DEF Numbers, channels

(* A fatal message, and the end of aclose(), end a wait with an answer     *)
(* that makes the synthesis raise.                                         *)
LEMMA NoticeDeathInv == ASSUME PiperInv, NoticeDeath, UNCHANGED <<generator, client>> PROVE PiperInv'
<1> USE DEF PiperInv
<1>1. /\ bridge' = "returned" /\ FailEverything
      /\ UNCHANGED <<process, reqQ, cancelled, results, closing, counter>>
  BY DEF NoticeDeath
<1>2. /\ pending' = {} /\ ready' \in {ready, "failed"}
      /\ answer' = IF pending # {} THEN Message("died", 0, 0) ELSE answer
  BY <1>1 DEF FailEverything
<1>3. Types'
  BY <1>1, <1>2, Notes DEF Types, client, process
<1>4. \/ UNCHANGED <<pending, answer>>
      \/ /\ pending # {} /\ pending' = {} /\ answer' # NoAnswer
         /\ answer'.kind = "died"
  BY <1>2, Notes
<1> QED
  BY <1>1, <1>3, <1>4, WorkerInv DEF Numbers, Unhandled, process

LEMMA EndCloseInv == ASSUME PiperInv, EndClose, UNCHANGED <<generator, client>> PROVE PiperInv'
<1> USE DEF PiperInv
<1>1. /\ closing' = "closed" /\ bridge' = "returned" /\ ready' \in {ready, "failed"}
      /\ pending' = {}
      /\ answer' = IF pending # {} THEN Message("closed", 0, 0) ELSE answer
      /\ UNCHANGED <<process, reqQ, cancelled, results, counter, orphaned>>
  BY DEF EndClose
<1>3. Types'
  BY <1>1, Notes DEF Types, client, process
<1>4. \/ UNCHANGED <<pending, answer>>
      \/ /\ pending # {} /\ pending' = {} /\ answer' # NoAnswer
         /\ answer'.kind = "closed"
  BY <1>1, Notes
<1> QED
  BY <1>1, <1>3, <1>4, WorkerInv DEF Numbers, Unhandled, process

(* A result that resolves the wait is the answer to the last request, and  *)
(* nothing is left to handle then.                                         *)
LEMMA DeliverInv == ASSUME PiperInv, Deliver, UNCHANGED <<generator, client>> PROVE PiperInv'
<1> USE DEF PiperInv
<1> DEFINE m == Head(results)
<1>0. /\ results # <<>> /\ results' = Tail(results)
      /\ UNCHANGED <<process, reqQ, cancelled, closing, counter>>
  BY DEF Deliver
<1>1. /\ m \in Messages /\ m \in Members(results) /\ results' \in Seq(Messages)
      /\ Members(results') \subseteq Members(results)
  BY <1>0, TailMembers DEF Types
<1>2. /\ ready' \in {"none", "waiting", "ok", "failed"}
      /\ \/ UNCHANGED <<pending, answer>>
         \/ /\ m.kind \in Results /\ m.id \in pending /\ pending' = {} /\ answer' = m
         \/ /\ pending # {} /\ pending' = {} /\ answer' = Message("died", 0, 0)
  BY DEF Deliver, FailEverything, Resolves, Results, Types
<1> HIDE DEF m
<1>3. CASE UNCHANGED <<pending, answer>>
  <2>1. Types'
    BY <1>0, <1>1, <1>2, <1>3 DEF Types, client, process
  <2> QED
    BY <1>0, <1>1, <1>3, <2>1, WorkerInv DEF Numbers, Unhandled, process
<1>4. CASE m.kind \in Results /\ m.id \in pending /\ pending' = {} /\ answer' = m
  <2>1. Types'
    BY <1>0, <1>1, <1>2, <1>4 DEF Types, client, process
  <2>2. m.id = counter /\ counter # 0 /\ pending # {} /\ m # NoAnswer
    <3>1. pending \subseteq {counter} /\ (pending # {} => counter # 0)
      BY DEF Types
    <3>2. m.kind # "none" /\ NoAnswer.kind = "none"
      BY <1>4 DEF Results, NoAnswer
    <3> QED
      BY <1>4, <3>1, <3>2
  <2>3. m.kind = "ok" => Right(m.value)
    BY <1>1, <2>2 DEF Waiting
  <2>4. Settled
    <3>1. \A q \in Unhandled : q.id \in Nat /\ q.id <= counter /\ counter \in Nat
      BY Fillers DEF Numbers, Unhandled
    <3>2. \A q \in Unhandled : q.id # 0 => counter < q.id
      BY <1>1, <2>2 DEF Numbers
    <3> QED
      BY <3>1, <3>2 DEF Settled
  <2>5. m.kind = "cancelled" => closing # "open"
    BY <1>1, <2>2 DEF Cancellation
  <2> QED
    BY <1>0, <1>1, <1>4, <2>1, <2>2, <2>3, <2>4, <2>5, WorkerInv DEF Numbers, Unhandled, process
<1>5. CASE pending # {} /\ pending' = {} /\ answer' = Message("died", 0, 0)
  <2>1. Types'
    BY <1>0, <1>1, <1>2, <1>5, Notes DEF Types, client, process
  <2>2. answer' # NoAnswer /\ answer'.kind = "died"
    BY <1>5, Notes
  <2> QED
    BY <1>0, <1>1, <1>5, <2>1, <2>2, WorkerInv DEF Numbers, Unhandled, process
<1> QED
  BY <1>2, <1>3, <1>4, <1>5

(* aclose() begins: the sentinel joins the queue, and the session is over. *)
LEMMA BeginCloseInv ==
  ASSUME PiperInv, BeginClose,
         UNCHANGED <<ready, process, results, bridge, counter, pending, answer, orphaned,
                     generator, client>>
  PROVE  PiperInv'
<1> USE DEF PiperInv
<1>1. /\ closing = "open" /\ closing' \in {"joining", "bridge"}
      /\ reqQ' = reqQ \/ (reqQ' = Append(reqQ, Shutdown) /\ Len(reqQ) < RequestMax)
      /\ cancelled' \in BOOLEAN
  BY DEF BeginClose, WithShutdown, Types
<1>2. /\ Shutdown \in Requests \cup {Shutdown} /\ Shutdown.id = 0
      /\ \A q \in Members(reqQ) : q.id # 0
  BY <1>1, Fillers DEF Numbers
<1>3. /\ reqQ' \in Seq(Requests \cup {Shutdown}) /\ Len(reqQ') <= RequestMax
      /\ Members(reqQ') \subseteq Members(reqQ) \cup {Shutdown}
      /\ Ordered(reqQ')
  <2>1. CASE reqQ' = reqQ
    BY <2>1 DEF Types, Numbers
  <2>2. CASE reqQ' = Append(reqQ, Shutdown) /\ Len(reqQ) < RequestMax
    <3>1. /\ reqQ' \in Seq(Requests \cup {Shutdown}) /\ Len(reqQ') = Len(reqQ) + 1
          /\ Members(reqQ') = Members(reqQ) \cup {Shutdown} /\ Ordered(reqQ')
          /\ Len(reqQ) \in Nat
      BY <1>2, <2>2, AppendMembers DEF Types, Numbers
    <3> QED
      BY <2>2, <3>1, Bounds
  <2> QED
    BY <1>1, <2>1, <2>2
<1>4. Unhandled' \subseteq Unhandled \cup {Shutdown}
  BY <1>3 DEF Unhandled, process
<1>5. Types'
  BY <1>1, <1>3 DEF Types, process, client
<1>6. Numbers'
  BY <1>1, <1>2, <1>3, <1>4, Fillers DEF Numbers, process
<1>7. Waiting'
  <2>1. UNCHANGED <<stage, utterance, held, generator, counter, pending, answer, results>>
    BY DEF client
  <2>2. Block(1)' = Block(1) /\ \A value : Right(value)' <=> Right(value)
    BY <2>1 DEF Block, Right
  <2>3. pending # {} => Shutdown.id # counter
    BY <1>2 DEF Types
  <2> QED
    BY <1>2, <1>4, <2>1, <2>2, <2>3 DEF Waiting
<1>8. Between'
  <2>1. UNCHANGED <<stage, utterance, held, generator, counter, pending, answer, results>>
    BY DEF client
  <2>2. Block(1)' = Block(1) /\ \A value : Right(value)' <=> Right(value)
    BY <2>1 DEF Block, Right
  <2>3. Settled => Settled'
    BY <1>2, <1>4 DEF Settled
  <2> QED
    BY <2>1, <2>2, <2>3 DEF Between
<1>9. Cancellation'
  BY <1>1 DEF Cancellation
<1>10. Speech'
  BY SpeechStays DEF client
<1> QED
  BY <1>5, <1>6, <1>7, <1>8, <1>9, <1>10

---------------------------------------------------------------------------
(* The handler. *)

LEMMA HandledInv ==
  ASSUME PiperInv, NEW kind \in Results, NEW value \in Blocks \cup {0}, Return(kind, value),
         UNCHANGED client, generator' \in Blocks,
         (kind = "ok" /\ pending # {} /\ working.id = counter) =>
            IF stage = "start" THEN generator' = [utt |-> utterance, block |-> 1]
            ELSE value = End \/ (value = Block(1) /\ generator' = Block(2))
  PROVE  PiperInv'
<1> USE DEF PiperInv
<1> DEFINE m == Message(kind, working.id, value)
<1>0. /\ child = "busy" /\ child' = "idle" /\ working' = NoRequest
      /\ kind = "cancelled" => cancelled
      /\ results' = Append(results, m) /\ UNCHANGED <<reqQ, cancelled, bridge, parent>>
      /\ UNCHANGED <<stage, utterance, held, counter, pending, answer, closing>>
  BY DEF Return, client, parent
<1>1. /\ working \in Requests /\ working.id # 0 /\ working.id \in Nat
      /\ \A q \in Unhandled : q.id \in Nat
      /\ \A x \in Members(results) : x.id \in Nat
      /\ NoRequest.id = 0 /\ counter \in Nat /\ working.id <= counter
  BY <1>0, Fillers DEF Types, Numbers
<1>2. m \in Messages /\ m.id = working.id /\ m.kind = kind /\ m.value = value
  BY <1>1 DEF Message, Messages
<1> HIDE DEF m
<1>3. results' \in Seq(Messages) /\ Members(results') = Members(results) \cup {m}
  BY <1>0, <1>2, AppendMembers DEF Types
<1>4. Unhandled' \subseteq Members(reqQ) \cup {NoRequest} /\ Members(reqQ) \subseteq Unhandled
      /\ \A q \in Members(reqQ) : q.id # 0 => working.id < q.id
  BY <1>0 DEF Unhandled, Numbers
<1>5. Types'
  BY <1>0, <1>3 DEF Types, client, parent
<1>6. Numbers'
  <2>1. \A q \in Members(reqQ) : q.id <= counter /\ (q.id # 0 => 0 < q.id)
    BY <1>1, <1>4 DEF Numbers
  <2>2. \A x \in Members(results') :
          /\ x.id <= counter
          /\ \A q \in Unhandled' : q.id # 0 => x.id < q.id
    BY <1>1, <1>2, <1>3, <1>4 DEF Numbers
  <2> QED
    BY <1>0, <1>1, <2>1, <2>2 DEF Numbers
<1>7. Waiting'
  <2> SUFFICES ASSUME pending # {} PROVE Waiting'
    BY <1>0 DEF Waiting
  <2>1. ASSUME NEW q \in Unhandled'
        PROVE  /\ q.id = counter => q.payload = [op |-> stage, utt |-> utterance]
               /\ stage = "next" => q.id \in {0, counter}
               /\ ~(stage = "next" /\ q.id = counter)
    <3>1. CASE q = NoRequest
      BY <3>1, <1>1 DEF Types
    <3>2. CASE q \in Members(reqQ)
      <4>1. working \in Unhandled /\ q \in Unhandled
        BY <3>2 DEF Unhandled
      <4>2. stage = "next" => working.id = counter
        BY <1>1, <4>1 DEF Waiting
      <4>3. counter # 0 /\ (q.id # 0 => working.id < q.id) /\ q.id \in Nat
        BY <1>1, <1>4, <3>2, <4>1 DEF Types
      <4> QED
        BY <1>1, <4>1, <4>2, <4>3 DEF Waiting
    <3> QED
      BY <1>4, <3>1, <3>2
  <2>2. ASSUME NEW x \in Members(results'), x.id = counter, x.kind = "ok" PROVE Right(x.value)'
    <3>1. x \notin Members(results)
      <4>1. x \in Members(results) => x.id < working.id
        BY <1>1 DEF Numbers, Unhandled
      <4> QED
        BY <1>1, <2>2, <4>1
    <3>2. x = m
      BY <1>3, <2>2, <3>1
    <3> QED
      BY <1>0, <1>2, <2>2, <3>2 DEF Right, Block
  <2> QED
    BY <1>0, <2>1, <2>2 DEF Waiting
<1>8. Between'
  <2>1. ~Settled
    BY <1>1 DEF Settled, Unhandled
  <2> QED
    BY <1>0, <2>1 DEF Between
<1>9. Cancellation'
  <2> SUFFICES ASSUME closing = "open" PROVE Cancellation'
    BY <1>0 DEF Cancellation
  <2>1. ASSUME pending # {}, NEW x \in Members(results'), x.kind = "cancelled" PROVE x.id # counter
    BY <1>0, <1>2, <1>3, <2>1 DEF Cancellation
  <2>2. pending # {} => NoRequest.id # counter
    BY <1>1 DEF Types
  <2> QED
    BY <1>0, <2>1, <2>2 DEF Cancellation, client
<1>10. Speech'
  BY SpeechStays DEF client
<1> QED
  BY <1>5, <1>6, <1>7, <1>8, <1>9, <1>10

LEMMA HandlerRaisesInv == ASSUME PiperInv, HandlerRaises PROVE PiperInv'
<1>1. PICK kind \in {"cancelled", "error"} : Return(kind, 0)
  BY DEF HandlerRaises
<1> QED
  BY <1>1, HandledInv DEF HandlerRaises, Results, PiperInv, Types

LEMMA HandleStartInv == ASSUME PiperInv, HandleStart PROVE PiperInv'
<1> USE DEF PiperInv
<1>1. /\ working \in Requests /\ working.payload.op = "start" /\ working.payload \in Payloads
      /\ Return("ok", Rate) /\ Rate \in Blocks
      /\ generator' = [utt |-> working.payload.utt, block |-> 1] /\ generator' \in Blocks
  BY DEF HandleStart, Types, Requests, Payloads, Blocks, Rate, NoGenerator
<1>2. (pending # {} /\ working.id = counter) =>
         stage = "start" /\ generator' = [utt |-> utterance, block |-> 1]
  <2> SUFFICES ASSUME pending # {}, working.id = counter
               PROVE  stage = "start" /\ generator' = [utt |-> utterance, block |-> 1]
    OBVIOUS
  <2>1. working.payload = [op |-> stage, utt |-> utterance]
    BY DEF Waiting, Unhandled
  <2> QED
    BY <1>1, <2>1
<1> QED
  BY <1>1, <1>2, HandledInv DEF HandleStart, Results

LEMMA HandleNextInv == ASSUME PiperInv, HandleNext PROVE PiperInv'
<1> USE DEF PiperInv
<1>0. /\ working \in Requests /\ working.payload.op = "next" /\ UNCHANGED client
      /\ held \in Blocks /\ generator \in Blocks /\ utterance \in Nat
  BY Bounds DEF HandleNext, Types
<1>1. ASSUME pending # {}, working.id = counter
      PROVE  stage # "start" /\ generator = Block(1)
  <2>1. working.payload = [op |-> stage, utt |-> utterance] /\ stage \in {"start", "next"}
    BY <1>1 DEF Waiting, Unhandled
  <2>2. stage = "next"
    BY <1>0, <2>1
  <2> QED
    BY <1>1, <2>2 DEF Waiting, Unhandled
<1>2. CASE Return("ok", generator) /\ generator' = [generator EXCEPT !.block = @ + 1]
  <2>1. generator' \in Blocks
    BY <1>0, <1>2 DEF Blocks
  <2>2. generator = Block(1) => generator' = Block(2)
    BY <1>0, <1>2 DEF Blocks, Block
  <2> QED
    BY <1>0, <1>1, <1>2, <2>1, <2>2, HandledInv DEF Results
<1>3. CASE Return("ok", End) /\ generator' = NoGenerator
  <2>1. End \in Blocks /\ NoGenerator \in Blocks
    BY DEF End, NoGenerator, Blocks
  <2> QED
    BY <1>0, <1>1, <1>3, <2>1, HandledInv DEF Results
<1> QED
  BY <1>2, <1>3 DEF HandleNext

---------------------------------------------------------------------------
(* The adapter. *)

(* The next request: start for a new utterance, next for the same one.     *)
LEMMA RequestedInv ==
  ASSUME PiperInv, NEW op \in {"start", "next"}, NEW u \in 1..MaxUtterances,
         Request([op |-> op, utt |-> u]), stage' = op, utterance' = u, held' \in Blocks,
         UNCHANGED <<generator, spoken, failed>>,
         op = "start" => held' = NoBlock /\ utterance < u,
         op = "next" => u = utterance /\ held' = held /\ Settled /\ generator = Block(1)
                        /\ stage # "idle"
  PROVE  PiperInv'
<1> USE DEF PiperInv
<1> DEFINE new == [id |-> counter + 1, payload |-> [op |-> op, utt |-> u]]
<1>0. /\ ready = "ok" /\ pending = {}
      /\ UNCHANGED <<ready, closing, orphaned, process, cancelled, results, bridge>>
      /\ \/ /\ answer' = Message("refused", 0, 0) /\ UNCHANGED <<counter, reqQ, pending>>
         \/ /\ closing = "open" /\ ~(Len(reqQ) >= RequestMax) /\ counter' = counter + 1
            /\ reqQ' = Append(reqQ, new)
            /\ pending' = {counter + 1} /\ answer' = NoAnswer
  BY DEF Request
<1>1. /\ counter \in Nat /\ working.id \in Nat /\ NoRequest.id = 0 /\ working.id <= counter
      /\ \A q \in Unhandled : q.id \in Nat
      /\ \A m \in Members(results) : m.id \in Nat /\ m.id <= counter
      /\ \A q \in Members(reqQ) : q.id <= counter
      /\ NoAnswer.kind = "none"
  BY Fillers DEF Numbers
<1>2. u \in Nat /\ u # 0 /\ u \in 0..MaxUtterances /\ utterance \in Nat
  BY Bounds DEF Types
<1>3. new \in Requests /\ new.id = counter + 1 /\ new.payload = [op |-> op, utt |-> u]
  BY <1>1, <1>2 DEF Requests, Payloads
<1> HIDE DEF new
<1>4. Speech'
  <2>1. CASE op = "next"
    BY <2>1, SpeechStays
  <2>2. CASE op = "start"
    <3>1. \A i \in 1..Len(spoken) : spoken[i].utt <= utterance /\ spoken[i].utt \in Nat
      <4>1. \A i \in 1..Len(spoken) : spoken[i] \in Chunks
        BY ElementOfSeq DEF Types
      <4> QED
        BY <4>1 DEF Speech, Chunks
    <3>2. \A i \in 1..Len(spoken) : spoken[i].utt <= u /\ spoken[i].utt # u
      BY <1>2, <2>2, <3>1
    <3>3. ~Spoken'
      <4>1. spoken # <<>> => Len(spoken) \in 1..Len(spoken)
        BY LenProperties, EmptySeq DEF Types
      <4> QED
        BY <3>2, <4>1 DEF Spoken, Last
    <3> QED
      BY <2>2, <3>2, <3>3 DEF Speech, SpeaksItsOwnText
  <2> QED
    BY <2>1, <2>2
<1>5. CASE answer' = Message("refused", 0, 0) /\ UNCHANGED <<counter, reqQ, pending>>
  <2>1. answer' \in Messages /\ answer' # NoAnswer /\ answer'.kind = "refused"
    BY <1>5, Notes
  <2>2. Types'
    BY <1>0, <1>2, <1>5, <2>1 DEF Types, process
  <2>3. Numbers'
    BY <1>0, <1>5 DEF Numbers, Unhandled, process
  <2>4. Waiting' /\ Between' /\ Cancellation'
    BY <1>0, <1>5, <2>1 DEF Waiting, Between, Cancellation
  <2> QED
    BY <1>4, <2>2, <2>3, <2>4
<1>6. CASE /\ closing = "open" /\ ~(Len(reqQ) >= RequestMax) /\ counter' = counter + 1
           /\ reqQ' = Append(reqQ, new) /\ pending' = {counter + 1} /\ answer' = NoAnswer
  <2>1. /\ reqQ' \in Seq(Requests \cup {Shutdown}) /\ Len(reqQ) \in Nat
        /\ Len(reqQ') = Len(reqQ) + 1 /\ Members(reqQ') = Members(reqQ) \cup {new}
        /\ Ordered(reqQ')
    <3>1. \A q \in Members(reqQ) : q.id # 0 /\ q.id < new.id
      BY <1>1, <1>3, <1>6 DEF Numbers, Unhandled
    <3> QED
      BY <1>3, <1>6, <3>1, AppendMembers DEF Types, Numbers
  <2>2. Len(reqQ') <= RequestMax
    BY <1>6, <2>1, Bounds
  <2>3. Types'
    <3>1. /\ ready' \in {"none", "waiting", "ok", "failed"}
          /\ closing' \in {"open", "joining", "bridge", "closed"}
          /\ child' \in {"none", "loading", "idle", "busy", "exited"}
          /\ working' \in Requests \cup {NoRequest}
          /\ working' # NoRequest <=> child' = "busy"
          /\ results' \in Seq(Messages) /\ cancelled' \in BOOLEAN
          /\ generator' \in Blocks /\ spoken' \in Seq(Chunks)
      BY <1>0 DEF Types, process
    <3>2. counter' \in Nat /\ counter' # 0 /\ pending' = {counter'}
      BY <1>1, <1>6
    <3> QED
      BY <1>2, <1>6, <2>1, <2>2, <3>1, <3>2 DEF Types
  <2>4. Unhandled' = Unhandled \cup {new} /\ \A q \in Unhandled : q.id <= counter
    BY <1>0, <1>1, <2>1 DEF Unhandled, process
  <2>5. Numbers'
    <3>1. \A q \in Members(reqQ') : q.id <= counter' /\ q.id # 0 /\ working.id < q.id
      BY <1>1, <1>3, <1>6, <2>1 DEF Numbers, Unhandled
    <3>2. working.id <= counter'
      BY <1>1, <1>6
    <3>3. \A m \in Members(results) :
            /\ m.id <= counter'
            /\ \A q \in Unhandled' : q.id # 0 => m.id < q.id
      BY <1>1, <1>3, <1>6, <2>4 DEF Numbers
    <3> QED
      BY <1>0, <2>1, <3>1, <3>2, <3>3 DEF Numbers, process
  <2>6. Waiting'
    <3>1. \A q \in Unhandled : q.id # counter'
      BY <1>1, <1>6, <2>4
    <3>2. \A m \in Members(results) : m.id # counter'
      BY <1>1, <1>6
    <3>3. op = "next" => (\A q \in Unhandled : q.id = 0) /\ generator = Block(1) /\ Block(1)' = Block(1)
      BY DEF Settled, Block
    <3> QED
      BY <1>0, <1>3, <1>6, <2>4, <3>1, <3>2, <3>3 DEF Waiting
  <2>7. Between'
    BY <1>0, <1>1, <1>6 DEF Between
  <2>8. Cancellation'
    <3>1. working.id # counter' /\ \A m \in Members(results) : m.id # counter'
      BY <1>1, <1>6
    <3> QED
      BY <1>0, <1>1, <1>6, <3>1 DEF Cancellation, process
  <2> QED
    BY <1>4, <2>3, <2>5, <2>6, <2>7, <2>8
<1> QED
  BY <1>0, <1>5, <1>6

LEMMA SynthesizeInv == ASSUME PiperInv, Synthesize PROVE PiperInv'
<1>1. utterance + 1 \in 1..MaxUtterances /\ utterance < utterance + 1 /\ NoBlock \in Blocks
  BY Bounds DEF Synthesize, PiperInv, Types, NoBlock, NoGenerator, Blocks
<1> QED
  BY <1>1, RequestedInv DEF Synthesize

LEMMA StartedInv == ASSUME PiperInv, Started PROVE PiperInv'
<1> USE DEF PiperInv
<1>1. /\ stage = "start" /\ answer.kind = "ok" /\ utterance \in 1..MaxUtterances
      /\ held \in Blocks /\ held = NoBlock
  BY Bounds DEF Started, Types, Between
<1>2. Settled /\ generator = Block(1)
  <2>1. Settled /\ generator = [utt |-> utterance, block |-> 1]
    BY <1>1 DEF Between, Right
  <2>2. held.block = 0
    BY <1>1 DEF NoBlock, NoGenerator
  <2> QED
    BY <2>1, <2>2 DEF Block
<1> QED
  BY <1>1, <1>2, RequestedInv DEF Started, NextBlock

LEMMA ContinueInv == ASSUME PiperInv, Continue PROVE PiperInv'
<1> USE DEF PiperInv
<1>1. /\ stage = "yield" /\ utterance \in 1..MaxUtterances /\ held \in Blocks
      /\ Settled /\ generator = Block(1)
  BY Bounds DEF Continue, Types, Between
<1> QED
  BY <1>1, RequestedInv DEF Continue, NextBlock

(* A wait or a synthesis ends, and nothing is spoken. *)
LEMMA BackToIdle ==
  ASSUME PiperInv, stage' = "idle", pending' = {}, answer' = NoAnswer, cancelled' \in BOOLEAN,
         failed' = "cancelled" => failed = "cancelled" \/ closing # "open",
         UNCHANGED <<ready, closing, counter, process, reqQ, results, generator, utterance,
                     held, spoken>>
  PROVE  PiperInv'
<1> USE DEF PiperInv
<1>1. Types'
  BY DEF Types, process
<1>2. Numbers'
  BY DEF Numbers, Unhandled, process
<1>3. Waiting' /\ Between' /\ Cancellation'
  BY Fillers DEF Waiting, Between, Cancellation
<1>4. Speech'
  BY SpeechStays
<1> QED
  BY <1>1, <1>2, <1>3, <1>4

LEMMA RaisesInv == ASSUME PiperInv, Raises PROVE PiperInv'
<1> USE DEF PiperInv
<1>1. answer # NoAnswer /\ pending = {} /\ (answer.kind = "cancelled" => closing # "open")
  BY DEF Raises, NoAnswer, Between, Cancellation
<1> QED
  BY <1>1, BackToIdle DEF Raises, process, channels, Types

LEMMA InterruptInv == ASSUME PiperInv, Interrupt PROVE PiperInv'
<1> USE DEF PiperInv
<1>1. CASE Abandon
  BY <1>1, BackToIdle DEF Interrupt, Abandon
<1>2. CASE stage = "yield" /\ UNCHANGED workerVars
  <2>1. pending = {} /\ answer = NoAnswer /\ cancelled \in BOOLEAN
    BY <1>2 DEF Waiting, Between, Types
  <2> QED
    BY <1>2, <2>1, BackToIdle DEF Interrupt, workerVars, parent, channels
<1> QED
  BY <1>1, <1>2 DEF Interrupt

(* The answer to next: the block held back is yielded.                     *)
LEMMA AnsweredInv == ASSUME PiperInv, Answered PROVE PiperInv'
<1> USE DEF PiperInv
<1> DEFINE value == answer.value
           chunk == [utt |-> utterance, of |-> held, final |-> value = End]
           n == Len(spoken)
<1>0. /\ stage = "next" /\ answer.kind = "ok" /\ answer' = NoAnswer
      /\ spoken' = IF held # NoBlock THEN Append(spoken, chunk) ELSE spoken
      /\ stage' = IF value = End THEN "idle" ELSE "yield"
      /\ held' = IF value = End THEN NoBlock ELSE value
      /\ UNCHANGED <<ready, closing, counter, pending, orphaned, process, channels,
                     generator, utterance, failed>>
  BY DEF Answered, Chunk, FinalOf
<1>1. /\ answer \in Messages /\ answer # NoAnswer /\ pending = {} /\ Settled
      /\ value = End \/ (value = Block(1) /\ generator = Block(2))
      /\ held \in Blocks /\ held.block \in Nat /\ utterance \in Nat /\ utterance # 0
      /\ spoken \in Seq(Chunks) /\ NoAnswer.kind = "none"
  BY <1>0, Bounds DEF Types, Between, Right, NoAnswer, Blocks
<1>2. /\ NoBlock \in Blocks /\ Block(1) \in Blocks /\ Block(1).utt = utterance
      /\ Block(1).block = held.block + 1 /\ Block(1) # NoBlock /\ Block(1) # End
      /\ chunk \in Chunks
  BY <1>1 DEF NoBlock, NoGenerator, End, Block, Blocks, Chunks
<1>3. /\ chunk.utt = utterance /\ chunk.of = held /\ (chunk.final <=> value = End)
  OBVIOUS
<1>4. held' \in Blocks /\ (value # End => value = Block(1))
  BY <1>0, <1>1, <1>2
<1> HIDE DEF chunk, n
<1>5. spoken' \in Seq(Chunks)
  BY <1>0, <1>1, <1>2, AppendProperties
<1>6. Types'
  BY <1>0, <1>1, <1>4, <1>5 DEF Types, process, channels
<1>7. Numbers'
  BY <1>0 DEF Numbers, Unhandled, process, channels
<1>8. Waiting' /\ Cancellation'
  BY <1>0, <1>1 DEF Waiting, Cancellation
<1>9. Between'
  <2>1. Settled'
    BY <1>0, <1>1 DEF Settled, Unhandled, process, channels
  <2>2. stage' = "yield" => generator' = Block(1)' /\ held' # NoBlock
    <3> SUFFICES ASSUME value # End PROVE generator' = Block(1)' /\ held' # NoBlock
      BY <1>0
    <3>1. held' = Block(1) /\ generator' = Block(2)
      BY <1>0, <1>1
    <3>2. held'.block = held.block + 1
      BY <1>2, <3>1
    <3>3. Block(1)' = [utt |-> utterance, block |-> (held.block + 1) + 1]
      BY <1>0, <3>2 DEF Block
    <3>4. Block(2) = [utt |-> utterance, block |-> (held.block + 1) + 1]
      BY <1>1 DEF Block
    <3> QED
      BY <1>2, <3>1, <3>3, <3>4
  <2> QED
    BY <1>0, <1>1, <2>1, <2>2 DEF Between
<1>10. Speech'
  <2>1. /\ SpeaksItsOwnText /\ n \in Nat
        /\ \A i \in 1..n : spoken[i] \in Chunks /\ spoken[i].utt \in Nat /\ spoken[i].utt <= utterance
        /\ \A i, j \in 1..n : j = i + 1 =>
             spoken[i].utt < spoken[j].utt \/ (spoken[i].utt = spoken[j].utt /\ ~spoken[i].final)
        /\ Spoken => ~Last.final
        /\ held # NoBlock => held = [utt |-> utterance,
                                     block |-> IF Spoken THEN Last.of.block + 1 ELSE 1]
        /\ held = NoBlock => ~Spoken
        /\ DOMAIN spoken = 1..n /\ (spoken # <<>> <=> n # 0)
    <3>1. n \in Nat /\ \A i \in 1..n : spoken[i] \in Chunks
      BY <1>1, ElementOfSeq, LenProperties DEF n
    <3>2. \A i \in 1..n : spoken[i].utt \in Nat
      BY <3>1 DEF Chunks
    <3>3. DOMAIN spoken = 1..n /\ (spoken # <<>> <=> n # 0)
      BY <1>1, LenProperties, EmptySeq DEF n
    <3> QED
      BY <1>0, <3>1, <3>2, <3>3 DEF Speech, n
  <2>2. CASE held = NoBlock
    <3>1. spoken' = spoken /\ ~Spoken /\ utterance' = utterance
      BY <1>0, <2>1, <2>2
    <3>2. ~Spoken'
      BY <3>1 DEF Spoken, Last
    <3>3. held' # NoBlock => held' = [utt |-> utterance, block |-> 1]
      <4>1. held.block = 0
        BY <2>2 DEF NoBlock, NoGenerator
      <4> QED
        BY <1>0, <1>4, <4>1 DEF Block
    <3> QED
      BY <2>1, <3>1, <3>2, <3>3 DEF Speech, SpeaksItsOwnText, n
  <2>3. CASE held # NoBlock
    <3>1. /\ spoken' = Append(spoken, chunk) /\ Len(spoken') = n + 1 /\ spoken' # <<>>
          /\ \A i \in 1..n : spoken'[i] = spoken[i]
          /\ spoken'[n + 1] = chunk
          /\ DOMAIN spoken' = 1..(n + 1)
      <4>1. /\ spoken' = Append(spoken, chunk) /\ Len(spoken') = n + 1
            /\ \A i \in 1..n : spoken'[i] = spoken[i]
            /\ spoken'[n + 1] = chunk
        BY <1>0, <1>1, <1>2, <2>3, AppendProperties DEF n
      <4>2. DOMAIN spoken' = 1..(n + 1) /\ spoken' # <<>>
        BY <1>5, <2>1, <4>1, LenProperties, EmptySeq
      <4> QED
        BY <4>1, <4>2
    <3>2. \A i \in 1..(n + 1) : i \in 1..n \/ i = n + 1
      BY <2>1
    <3>3. n # 0 => n \in 1..n /\ Last = spoken[n]
      BY <2>1 DEF Last, n
    <3>4. Spoken <=> (n # 0 /\ spoken[n].utt = utterance)
      BY <2>1, <3>3 DEF Spoken
    <3>5. /\ Spoken' /\ Last' = chunk /\ utterance' = utterance
      BY <1>0, <1>3, <3>1 DEF Spoken, Last
    <3>6. SpeaksItsOwnText'
      <4> SUFFICES ASSUME NEW i \in 1..(n + 1)
                   PROVE  /\ spoken'[i].of.utt = spoken'[i].utt
                          /\ spoken'[i].of.block =
                               IF i > 1 /\ spoken'[i - 1].utt = spoken'[i].utt
                                 THEN spoken'[i - 1].of.block + 1 ELSE 1
        BY <3>1 DEF SpeaksItsOwnText
      <4>1. CASE i \in 1..n
        <5>1. i > 1 => i - 1 \in 1..n
          BY <2>1, <4>1
        <5> QED
          BY <2>1, <3>1, <4>1, <5>1, ZenonT(40) DEF SpeaksItsOwnText
      <4>2. CASE i = n + 1
        <5>1. i - 1 = n /\ (i > 1 <=> n # 0)
          BY <2>1, <4>2
        <5>2. held.utt = utterance /\ held.block = IF Spoken THEN Last.of.block + 1 ELSE 1
          BY <2>1, <2>3
        <5> QED
          BY <1>3, <3>1, <3>3, <3>4, <4>2, <5>1, <5>2
      <4> QED
        BY <3>2, <4>1, <4>2
    <3>7. \A i \in 1..(n + 1) : spoken'[i].utt <= utterance
      BY <1>1, <1>3, <2>1, <3>1, <3>2
    <3>8. ASSUME NEW i \in 1..(n + 1), NEW j \in 1..(n + 1), j = i + 1
          PROVE  spoken'[i].utt < spoken'[j].utt \/ (spoken'[i].utt = spoken'[j].utt /\ ~spoken'[i].final)
      <4>1. i \in 1..n
        BY <2>1, <3>8
      <4>2. CASE j \in 1..n
        BY <2>1, <3>1, <3>8, <4>1, <4>2
      <4>3. CASE j = n + 1
        <5>1. i = n /\ n # 0
          BY <2>1, <3>8, <4>1, <4>3
        <5>2. spoken[n].utt <= utterance /\ spoken[n].utt \in Nat
              /\ (spoken[n].utt = utterance => ~spoken[n].final)
          BY <2>1, <3>3, <3>4, <5>1
        <5>3. spoken[n].utt < utterance \/ spoken[n].utt = utterance
          BY <1>1, <5>2
        <5> QED
          BY <1>3, <3>1, <4>1, <4>3, <5>1, <5>2, <5>3
      <4> QED
        BY <3>2, <4>2, <4>3
    <3>9. held' # NoBlock => held' = [utt |-> utterance, block |-> held.block + 1]
      BY <1>0, <1>4 DEF Block
    <3>10. held' = NoBlock => stage' = "idle" /\ chunk.final
      BY <1>0, <1>2, <1>3, <1>4
    <3>11. stage' # "idle" => ~chunk.final
      BY <1>0, <1>3
    <3> QED
      BY <1>3, <3>1, <3>5, <3>6, <3>7, <3>8, <3>9, <3>10, <3>11 DEF Speech
  <2> QED
    BY <2>2, <2>3
<1> QED
  BY <1>6, <1>7, <1>8, <1>9, <1>10

---------------------------------------------------------------------------
LEMMA PiperStep == ASSUME PiperInv, [Next]_vars PROVE PiperInv'
<1>1. CASE WorkerStep /\ UNCHANGED <<generator, client>>
  <2>1. CASE StartFails
    BY <1>1, <2>1, BeginCloseInv DEF StartFails
  <2> QED
    BY <1>1, <2>1, SpawnInv, LoadInv, PickupInv, CrashInv, DeliverInv, NoticeDeathInv,
       JoinEndsInv, EndCloseInv DEF WorkerStep
<1>2. CASE Close
  BY <1>2, BeginCloseInv DEF Close
<1>3. CASE UNCHANGED vars
  <2>1. Types'
    BY <1>3 DEF vars, PiperInv, Types, workerVars, client, parent, process, channels
  <2> QED
    BY <1>3, <2>1, WorkerInv DEF vars, PiperInv, Numbers, Unhandled, workerVars, parent,
                                 process, channels
<1> QED
  BY <1>1, <1>2, <1>3, HandlerRaisesInv, HandleStartInv, HandleNextInv, SynthesizeInv,
     StartedInv, AnsweredInv, ContinueInv, RaisesInv, InterruptInv DEF Next

(* ModelWorker (model_worker.py) and PiperTTS (piper.py): numbers, queue,  *)
(* generator and lookahead agree in every state.                           *)
THEOREM SpecPiperInv == Spec => []PiperInv
<1> QED
  BY PiperInitInv, PiperStep, PTL DEF Spec

(* The invariant of the run follows. *)
LEMMA PiperInvOwn == ASSUME PiperInv PROVE AnswersAreOwn
<1> USE DEF PiperInv
<1>1. TypeOK
  <2>1. pending \subseteq 1..counter
    BY DEF Types
  <2> QED
    BY <2>1 DEF Types, TypeOK, WorkerTypeOK
<1>2. SpeaksItsOwnText
  BY DEF Speech
<1>3. FinalChunkEndsIt
  <2> DEFINE n == Len(spoken)
  <2>1. /\ n \in Nat /\ DOMAIN spoken = 1..n /\ utterance \in Nat
        /\ \A i \in 1..n : spoken[i].utt \in Nat /\ spoken[i].utt <= utterance
    <3>1. \A i \in 1..n : spoken[i] \in Chunks
      BY ElementOfSeq DEF Types
    <3>2. n \in Nat /\ DOMAIN spoken = 1..n /\ utterance \in Nat
      BY LenProperties, Bounds DEF Types
    <3> QED
      BY <3>1, <3>2 DEF Chunks, Speech
  <2> SUFFICES ASSUME NEW i \in 1..n
               PROVE  LET last == i = n \/ spoken[i + 1].utt # spoken[i].utt
                      IN  /\ spoken[i].final => last
                          /\ (last /\ ~spoken[i].final) =>
                               (utterance > spoken[i].utt \/ held # NoBlock \/ closing # "open")
    BY <2>1 DEF FinalChunkEndsIt
  <2>2. CASE i = n
    <3>1. spoken # <<>> /\ Last = spoken[i]
      BY <2>1, <2>2, EmptySeq DEF Last
    <3>2. CASE spoken[i].utt = utterance
      BY <2>2, <3>1, <3>2 DEF Speech, Spoken
    <3>3. CASE spoken[i].utt # utterance
      BY <2>1, <2>2, <3>3
    <3> QED
      BY <3>2, <3>3
  <2>3. CASE i # n
    <3>1. i + 1 \in 1..n
      BY <2>1, <2>3
    <3>2. spoken[i].utt < spoken[i + 1].utt \/ (spoken[i].utt = spoken[i + 1].utt /\ ~spoken[i].final)
      BY <3>1 DEF Speech
    <3> QED
      BY <2>1, <2>3, <3>1, <3>2
  <2> QED
    BY <2>2, <2>3
<1>4. OnlyOwnCancellation
  BY DEF OnlyOwnCancellation, Cancellation
<1> QED
  BY <1>1, <1>2, <1>3, <1>4 DEF AnswersAreOwn

(* _dispatch(), _synthesize(): what is spoken for an utterance are blocks  *)
(* of its own text in order, only its last chunk is final, and only the    *)
(* end of the session cancels a request somebody waits for.                *)
THEOREM PiperAnswersAreOwn == Spec => []AnswersAreOwn
<1> QED
  BY SpecPiperInv, PiperInvOwn, PTL
=============================================================================
