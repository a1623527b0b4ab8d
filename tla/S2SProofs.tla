----------------------------- MODULE S2SProofs -----------------------------
(***************************************************************************)
(* What the runs of S2S check on a small instance, for every number of     *)
(* responses, audio events, onsets and queue slots, and for both sinks:    *)
(* CutIsClean and OthersUnharmed (invariants), IgnoredOnsetsAreIdle.       *)
(*                                                                         *)
(* The inductive invariant S2SInv has one part for each of the places      *)
(* where a response is remembered: the queue (QueueShape: the provider's   *)
(* order, as far as it decides what can still follow an event), the        *)
(* registry of responses (Announced, OpenOnes), the ledger of the sink     *)
(* (Generations, Calls, HandlesOwned), the receipts (Numbered, Accounted), *)
(* what a barge-in has done (CutIsOver), and the count that says that each *)
(* audio event of an uncut response is in exactly one of the queue, a      *)
(* blocked schedule(), the sink, or what was heard (AllIsThere).           *)
(***************************************************************************)
EXTENDS S2S, SequenceTheorems, FunctionTheorems, FiniteSetTheorems,
        WellFoundedInduction, TLAPS

Ends   == {"completed", "cancelled", "failed"}
Kinds  == {"speech", "started", "audio", "end", "error"} \cup Ends
Events == [kind : Kinds, resp : 0..MaxResponses]

Types ==
  /\ genSeq \in Nat /\ accepted \in Nat
  /\ outstanding \subseteq Handle(Responses) /\ IsFiniteSet(outstanding)
  /\ Cardinality(outstanding) <= Capacity
  /\ calls \subseteq Call(Responses)
  /\ active \in 0..MaxResponses /\ made \in 0..(MaxResponses + 1)
  /\ audio \in [Responses -> Nat] /\ cancels \subseteq Responses /\ faulted \in BOOLEAN
  /\ events \in Seq(Events) /\ Len(events) <= QueueSize + 1
  /\ pc \in {"get", "audio", "wait", "drain", "cut", "cutDrain"} \cup Over
  /\ target \in 0..MaxResponses /\ current \in 0..MaxResponses
  /\ responses \in [DOMAIN responses -> 1..genSeq] /\ DOMAIN responses \subseteq Responses
  /\ abandoned \subseteq Responses
  /\ handles \in [Responses -> SUBSET Nat] /\ absorbed \in [Responses -> Nat]
  /\ heard \in [Responses -> SUBSET Nat] /\ \A r \in Responses : IsFiniteSet(heard[r])
  /\ sent \in Seq([resp : Responses, heard : Nat])

---------------------------------------------------------------------------
(* The event queue. *)

Members(es) == {es[i] : i \in 1..Len(es)}

(* The order in which the provider sends two events. *)
Precedes(e, f) ==
  \/ e.resp < f.resp
  \/ /\ e.resp = f.resp
     /\ \/ e.kind = "speech" /\ f.kind # "speech"
        \/ e.kind \in {"started", "audio"} /\ f.kind \notin {"speech", "started"}

Ordered(es) ==
  \A i, j \in 1..Len(es) : i < j =>
    es[i].resp # 0 /\ (es[j].resp = 0 \/ Precedes(es[i], es[j]))

Queued(es, r) == {i \in 1..Len(es) : es[i] = Event("audio", r)}

QueueShape ==
  /\ Ordered(events)
  /\ \A e \in Members(events) :
       /\ e.resp = 0 <=> e.kind \in {"end", "error"}
       /\ e.resp <= made
       /\ e.resp = 0 => Ended
       /\ e.resp = active => e.kind \notin Ends
  /\ active # 0 => active = made
  /\ Ended => active = 0

QueueOver ==
  /\ pc \in {"drain", "cutDrain", "done"} => events = <<>> /\ Ended
  /\ pc = "done" => outstanding = {}

(* What the head of a queue says about the rest. *)
LEMMA TailOf ==
  ASSUME NEW es \in Seq(Events), es # <<>>
  PROVE  /\ Head(es) \in Events /\ Head(es) \in Members(es)
         /\ Tail(es) \in Seq(Events) /\ Len(Tail(es)) <= Len(es)
         /\ Members(es) = Members(Tail(es)) \cup {Head(es)}
         /\ Ordered(es) =>
              /\ Ordered(Tail(es))
              /\ \A f \in Members(Tail(es)) :
                   Head(es).resp # 0 /\ (f.resp = 0 \/ Precedes(Head(es), f))
<1> DEFINE t == Tail(es)
<1>1. /\ Head(es) \in Events /\ t \in Seq(Events) /\ Len(t) = Len(es) - 1
      /\ \A i \in 1..Len(t) : t[i] = es[i + 1]
      /\ Len(es) \in Nat /\ Len(es) # 0 /\ Head(es) = es[1]
  BY HeadTailProperties, LenProperties, EmptySeq
<1> HIDE DEF t
<1>2. \A i \in 1..Len(t) : i + 1 \in 1..Len(es) /\ 1 < i + 1
  BY <1>1
<1>3. \A i \in 1..Len(es) : i # 1 => i - 1 \in 1..Len(t) /\ t[i - 1] = es[i]
  BY <1>1
<1>4. Members(es) = Members(t) \cup {Head(es)}
  BY <1>1, <1>2, <1>3, SMTT(30) DEF Members
<1>5. ASSUME Ordered(es) PROVE Ordered(t)
  <2> SUFFICES ASSUME NEW i \in 1..Len(t), NEW j \in 1..Len(t), i < j
               PROVE  t[i].resp # 0 /\ (t[j].resp = 0 \/ Precedes(t[i], t[j]))
    BY DEF Ordered
  <2>1. i + 1 \in 1..Len(es) /\ j + 1 \in 1..Len(es) /\ i + 1 < j + 1
    BY <1>2
  <2> QED
    BY <2>1, <1>1, <1>5 DEF Ordered
<1>6. ASSUME Ordered(es), NEW f \in Members(t)
      PROVE  Head(es).resp # 0 /\ (f.resp = 0 \/ Precedes(Head(es), f))
  <2>1. PICK i \in 1..Len(t) : f = t[i]
    BY DEF Members
  <2>2. 1 \in 1..Len(es) /\ i + 1 \in 1..Len(es) /\ 1 < i + 1 /\ es[i + 1] = f
    BY <2>1, <1>1, <1>2
  <2> QED
    BY <2>2, <1>1, <1>6 DEF Ordered
<1> QED
  BY <1>1, <1>4, <1>5, <1>6 DEF t

(* The audio of r in the rest of a queue. *)
LEMMA TailQueued ==
  ASSUME NEW es \in Seq(Events), es # <<>>, NEW r
  PROVE  /\ IsFiniteSet(Queued(es, r)) /\ IsFiniteSet(Queued(Tail(es), r))
         /\ Cardinality(Queued(es, r)) =
              Cardinality(Queued(Tail(es), r)) + IF Head(es) = Event("audio", r) THEN 1 ELSE 0
<1> DEFINE t == Tail(es)
           rest == Queued(es, r) \ {1}
           f == [i \in Queued(t, r) |-> i + 1]
<1>1. /\ t \in Seq(Events) /\ Len(t) = Len(es) - 1
      /\ \A i \in 1..Len(t) : t[i] = es[i + 1]
      /\ Len(es) \in Nat /\ Len(es) # 0 /\ Head(es) = es[1]
  BY HeadTailProperties, LenProperties, EmptySeq
<1>f. IsFiniteSet(Queued(es, r)) /\ IsFiniteSet(Queued(t, r))
  <2>1. IsFiniteSet(1..Len(es)) /\ IsFiniteSet(1..Len(t))
    BY <1>1, FS_Interval
  <2> QED
    BY <2>1, FS_Subset DEF Queued
<1> HIDE DEF t
<1>2. f \in Bijection(Queued(t, r), rest)
  <2>1. f \in [Queued(t, r) -> rest]
    BY <1>1 DEF Queued
  <2>2. \A i, j \in Queued(t, r) : f[i] = f[j] => i = j
    BY DEF Queued
  <2>3. ASSUME NEW y \in rest PROVE \E i \in Queued(t, r) : f[i] = y
    <3>1. y - 1 \in Queued(t, r) /\ (y - 1) + 1 = y
      BY <1>1 DEF Queued
    <3> QED
      BY <3>1
  <2> HIDE DEF f, rest
  <2> QED
    BY <2>1, <2>2, <2>3 DEF Bijection, Injection, Surjection, IsInjective
<1>3. Cardinality(rest) = Cardinality(Queued(t, r))
  BY <1>2, <1>f, FS_Bijection DEF ExistsBijection
<1>4. Cardinality(rest) = IF 1 \in Queued(es, r) THEN Cardinality(Queued(es, r)) - 1
                          ELSE Cardinality(Queued(es, r))
  BY <1>f, FS_RemoveElement
<1>5. 1 \in Queued(es, r) <=> Head(es) = Event("audio", r)
  BY <1>1 DEF Queued
<1>6. Cardinality(Queued(es, r)) \in Nat
  BY <1>f, FS_CardinalityType
<1> QED
  BY <1>3, <1>4, <1>5, <1>6, <1>f DEF t

(* One event more at the end of a queue. *)
LEMMA OneMore ==
  ASSUME NEW es \in Seq(Events), NEW e \in Events
  PROVE  /\ es \o <<e>> \in Seq(Events)
         /\ Members(es \o <<e>>) = Members(es) \cup {e}
         /\ Ordered(es)
            /\ (\A f \in Members(es) : f.resp # 0 /\ (e.resp = 0 \/ Precedes(f, e)))
              => Ordered(es \o <<e>>)
         /\ \A r : /\ IsFiniteSet(Queued(es, r))
                   /\ Cardinality(Queued(es \o <<e>>, r)) =
                        Cardinality(Queued(es, r)) + IF e = Event("audio", r) THEN 1 ELSE 0
<1> DEFINE fs == es \o <<e>>
<1>1. /\ fs \in Seq(Events) /\ Len(es) \in Nat /\ Len(fs) = Len(es) + 1
      /\ \A i \in 1..(Len(es) + 1) : fs[i] = IF i <= Len(es) THEN es[i] ELSE e
  <2>1. <<e>> \in Seq(Events) /\ Len(<<e>>) = 1 /\ <<e>>[1] = e
    OBVIOUS
  <2>2. Len(es) \in Nat
    BY LenProperties
  <2>3. \A i \in 1..(Len(es) + 1) : ~(i <= Len(es)) => i - Len(es) = 1
    BY <2>2
  <2> QED
    BY <2>1, <2>2, <2>3, ConcatProperties
<1> HIDE DEF fs
<1>2. /\ \A i \in 1..Len(es) : i \in 1..Len(fs) /\ fs[i] = es[i]
      /\ Len(es) + 1 \in 1..Len(fs) /\ fs[Len(es) + 1] = e
      /\ \A i \in 1..Len(fs) : i \in 1..Len(es) \/ i = Len(es) + 1
  BY <1>1
<1>3. Members(fs) = Members(es) \cup {e}
  BY <1>2 DEF Members
<1>4. ASSUME Ordered(es),
             \A f \in Members(es) : f.resp # 0 /\ (e.resp = 0 \/ Precedes(f, e))
      PROVE  Ordered(fs)
  <2> SUFFICES ASSUME NEW i \in 1..Len(fs), NEW j \in 1..Len(fs), i < j
               PROVE  fs[i].resp # 0 /\ (fs[j].resp = 0 \/ Precedes(fs[i], fs[j]))
    BY DEF Ordered
  <2>1. i \in 1..Len(es)
    BY <1>1
  <2>2. CASE j \in 1..Len(es)
    BY <2>1, <2>2, <1>2, <1>4 DEF Ordered
  <2>3. CASE j = Len(es) + 1
    BY <2>1, <2>3, <1>2, <1>4 DEF Members
  <2> QED
    BY <2>2, <2>3, <1>2
<1>5. ASSUME NEW r
      PROVE  /\ IsFiniteSet(Queued(es, r))
             /\ Cardinality(Queued(fs, r)) =
                  Cardinality(Queued(es, r)) + IF e = Event("audio", r) THEN 1 ELSE 0
  <2>1. IsFiniteSet(Queued(es, r))
    <3>1. IsFiniteSet(1..Len(es))
      BY <1>1, FS_Interval
    <3> QED
      BY <3>1, FS_Subset DEF Queued
  <2>2. CASE e = Event("audio", r)
    <3>1. Queued(fs, r) = Queued(es, r) \cup {Len(es) + 1} /\ Len(es) + 1 \notin Queued(es, r)
      BY <1>1, <1>2, <2>2 DEF Queued
    <3> QED
      BY <3>1, <2>1, <2>2, FS_AddElement
  <2>3. CASE e # Event("audio", r)
    <3>1. Queued(fs, r) = Queued(es, r)
      BY <1>1, <1>2, <2>3 DEF Queued
    <3>2. Cardinality(Queued(es, r)) \in Nat
      BY <2>1, FS_CardinalityType
    <3> QED
      BY <3>1, <3>2, <2>1, <2>3
  <2> QED
    BY <2>2, <2>3
<1> QED
  BY <1>1, <1>3, <1>4, <1>5 DEF fs

---------------------------------------------------------------------------
(* The invariant. *)

(* The provider still works on r, or an event of r is queued. *)
Open(r) == active = r \/ \E e \in Members(events) : e.resp = r

(* The events of a response follow its start, and what they say is so. *)
Announced ==
  /\ \A r \in Responses : Event("started", r) \in Members(events) =>
       /\ ~Known(r) /\ r \notin Cut
       /\ Event("speech", r) \in Members(events) \/ r \in utterances
  /\ \A r \in Responses : Open(r) => Known(r) \/ Event("started", r) \in Members(events)
  /\ \A r \in Responses : Known(r) =>
       r <= made /\ \A e \in Members(events) : e.resp # 0 => r <= e.resp
  /\ \A e \in Members(events) :
       /\ e.kind = "cancelled" => e.resp \in cancels
       /\ e.kind \in {"failed", "error"} => faulted
  /\ \A r \in Cut : r <= made

(* Of the responses that are not over, one that is cut is abandoned, and   *)
(* any other one that is known is the current one.                         *)
OpenOnes ==
  \A r \in Responses : Open(r) =>
    /\ r \in Cut => r \in abandoned
    /\ Known(r) /\ r \notin Cut => current = r

Numbered ==
  /\ \A h \in outstanding : h.order < accepted
  /\ \A h1, h2 \in outstanding : h1.order = h2.order => h1 = h2
  /\ \A r \in Responses : \A o \in handles[r] \cup heard[r] : o < accepted

Generations ==
  /\ \A r, x \in DOMAIN responses : responses[r] = responses[x] => r = x
  /\ invalidated \subseteq 1..genSeq
  /\ \A r \in DOMAIN responses : responses[r] \in invalidated <=> r \in Cut

CutIsOver ==
  /\ cancels = {sent[i].resp : i \in DOMAIN sent}
  /\ abandoned \subseteq Cut
  /\ \A r \in Cut : handles[r] = {} /\ (Known(r) => r \in abandoned)
  /\ target # 0 => pc \in {"cut", "cutDrain", "failed"} /\ target \notin cancels
  /\ OneCancelEach
  /\ current # 0 => Known(current) /\ current \notin Cut

Calls ==
  /\ pc = "audio" => calls # {}
  /\ \A c1, c2 \in calls : c1 = c2
  /\ \A c \in calls :
       \/ pc = "audio" /\ current # 0 /\ c.unit = current /\ c.gen = responses[current]
       \/ pc \in {"cut", "wait", "failed"} /\ c.gen \in invalidated /\ c.unit \in Cut

HandlesOwned ==
  \A h \in outstanding :
    /\ Known(h.unit) /\ h.unit \notin Cut
    /\ h.gen = responses[h.unit]
    /\ h.order \in handles[h.unit]
    /\ h.sounding <=> h.order \in heard[h.unit]

Accounted ==
  /\ \A r \in Responses : absorbed[r] = Cardinality(heard[r] \ handles[r])
  /\ CursorIsHeard

Blocked(r) == {c \in calls : c.unit = r}
Unheard(r) == {h \in outstanding : h.unit = r /\ ~h.sounding}

AllIsThere ==
  \A r \in Responses \ Cut :
    audio[r] = Cardinality(Queued(events, r)) + Cardinality(Blocked(r))
                 + Cardinality(Unheard(r)) + Cardinality(heard[r])

Ledger == Numbered /\ Generations /\ CutIsOver /\ Calls /\ HandlesOwned /\ Accounted

S2SInv ==
  /\ Types /\ QueueShape /\ QueueOver /\ Announced /\ OpenOnes /\ Ledger /\ AllIsThere
  /\ FailsForCause

LEMMA Bounds == MaxResponses \in Nat /\ Capacity \in Nat \ {0} /\ QueueSize \in Nat \ {0}
BY S2SAssumption, CapacityAssumption

LEMMA MembersAreEvents ==
  ASSUME NEW es \in Seq(Events)
  PROVE  \A e \in Members(es) : e \in Events /\ e.resp \in 0..MaxResponses /\ e.resp \in Nat
<1>1. \A e \in Members(es) : e \in Events
  BY ElementOfSeq DEF Members
<1>2. \A e \in Events : e.resp \in 0..MaxResponses
  BY DEF Events
<1> QED
  BY <1>1, <1>2, Bounds

LEMMA CutAreResponses ==
  ASSUME Types PROVE Cut \subseteq Responses /\ Cut \subseteq Nat /\ Responses \subseteq Nat
<1>1. \A i \in DOMAIN sent : sent[i] \in [resp : Responses, heard : Nat]
  BY LenProperties, ElementOfSeq DEF Types
<1>2. Responses \subseteq Nat /\ (target # 0 => target \in Responses)
  BY Bounds DEF Types, Responses
<1> QED
  BY <1>1, <1>2 DEF Cut

LEMMA CountsAreNumbers ==
  ASSUME Types, Calls, NEW r \in Responses
  PROVE  /\ IsFiniteSet(Queued(events, r)) /\ Cardinality(Queued(events, r)) \in Nat
         /\ IsFiniteSet(Blocked(r)) /\ Cardinality(Blocked(r)) \in Nat
         /\ IsFiniteSet(Unheard(r)) /\ Cardinality(Unheard(r)) \in Nat
         /\ Cardinality(heard[r]) \in Nat
         /\ IsFiniteSet(calls) /\ Cardinality(calls) <= 1
<1>1. IsFiniteSet(Queued(events, r))
  <2>1. Len(events) \in Nat
    BY LenProperties DEF Types
  <2>2. IsFiniteSet(1..Len(events))
    BY <2>1, FS_Interval
  <2> QED
    BY <2>2, FS_Subset DEF Queued
<1>2. IsFiniteSet(calls) /\ Cardinality(calls) <= 1
  <2>1. CASE calls = {}
    BY <2>1, FS_EmptySet
  <2>2. CASE calls # {}
    <3>1. PICK c \in calls : TRUE
      BY <2>2
    <3>2. calls = {c}
      BY <3>1 DEF Calls
    <3>3. IsFiniteSet({c}) /\ Cardinality({c}) = 1
      BY FS_Singleton
    <3> QED
      BY <3>2, <3>3
  <2> QED
    BY <2>1, <2>2
<1>3. IsFiniteSet(Blocked(r))
  BY <1>2, FS_Subset DEF Blocked
<1>4. IsFiniteSet(Unheard(r))
  BY FS_Subset DEF Unheard, Types
<1> QED
  BY <1>1, <1>2, <1>3, <1>4, FS_CardinalityType DEF Types

LEMMA S2SInitInv == Init => S2SInv
<1> SUFFICES ASSUME Init PROVE S2SInv
  OBVIOUS
<1>1. Members(events) = {} /\ Cut = {} /\ DOMAIN responses = {}
  BY DEF Init, Members, Cut
<1>2. Types
  <2>1. /\ outstanding \subseteq Handle(Responses) /\ IsFiniteSet(outstanding)
        /\ Cardinality(outstanding) <= Capacity /\ calls \subseteq Call(Responses)
    BY Bounds, FS_EmptySet DEF Init, LedgerInit
  <2>2. events \in Seq(Events) /\ Len(events) <= QueueSize + 1
        /\ sent \in Seq([resp : Responses, heard : Nat])
    BY Bounds DEF Init
  <2>3. responses \in [DOMAIN responses -> 1..genSeq] /\ DOMAIN responses \subseteq Responses
    BY <1>1 DEF Init
  <2>4. /\ handles \in [Responses -> SUBSET Nat] /\ absorbed \in [Responses -> Nat]
        /\ heard \in [Responses -> SUBSET Nat] /\ \A r \in Responses : IsFiniteSet(heard[r])
        /\ audio \in [Responses -> Nat]
    BY FS_EmptySet DEF Init
  <2>5. /\ active \in 0..MaxResponses /\ made \in 0..(MaxResponses + 1)
        /\ target \in 0..MaxResponses /\ current \in 0..MaxResponses
    BY Bounds DEF Init
  <2>6. /\ genSeq \in Nat /\ accepted \in Nat /\ cancels \subseteq Responses
        /\ faulted \in BOOLEAN /\ abandoned \subseteq Responses
        /\ pc \in {"get", "audio", "wait", "drain", "cut", "cutDrain"} \cup Over
    BY DEF Init, LedgerInit
  <2> QED
    BY <2>1, <2>2, <2>3, <2>4, <2>5, <2>6 DEF Types
<1>3. QueueShape /\ QueueOver
  BY <1>1, Bounds DEF Init, QueueShape, QueueOver, Ordered, Ended
<1>4. Announced /\ OpenOnes
  BY <1>1 DEF Init, Announced, OpenOnes, Open, Known, Responses
<1>5. Numbered /\ Generations /\ CutIsOver /\ Calls /\ HandlesOwned
  BY <1>1 DEF Init, LedgerInit, Numbered, Generations, CutIsOver, Calls, HandlesOwned,
              OneCancelEach, Known
<1>6. Accounted
  BY FS_EmptySet DEF Init, Accounted, CursorIsHeard
<1>7. AllIsThere
  <2>1. \A r \in Responses : Queued(events, r) = {} /\ Blocked(r) = {} /\ Unheard(r) = {}
    BY DEF Init, LedgerInit, Queued, Blocked, Unheard
  <2>2. \A r \in Responses : heard[r] = {} /\ audio[r] = 0
    BY DEF Init
  <2>3. Cardinality({}) = 0
    BY FS_EmptySet
  <2> QED
    BY <2>1, <2>2, <2>3 DEF AllIsThere
<1> QED
  BY <1>2, <1>3, <1>4, <1>5, <1>6, <1>7 DEF S2SInv, Ledger, Init, FailsForCause, Refuses

---------------------------------------------------------------------------
(* The provider. *)

(* A step that leaves the scheduler and the sink alone. *)
LEMMA LedgerStays ==
  ASSUME Ledger,
         UNCHANGED <<ledgerVars, cancels, pc, target, responses, abandoned, current,
                     receipts, sent>>
  PROVE  Ledger'
<1> USE DEF ledgerVars, receipts
<1>1. Cut' = Cut /\ \A r : Known(r)' <=> Known(r)
  BY DEF Cut, Known
<1>2. Numbered' /\ Generations' /\ Calls' /\ HandlesOwned' /\ Accounted'
  BY <1>1 DEF Ledger, Numbered, Generations, Calls, HandlesOwned, Accounted, CursorIsHeard, Known
<1>3. CutIsOver'
  BY <1>1 DEF Ledger, CutIsOver, OneCancelEach, Known
<1> QED
  BY <1>2, <1>3 DEF Ledger

(* Events of the response the provider is at, and of the streams' end. *)
LEMMA EmitInv ==
  ASSUME S2SInv, NEW e \in Events, events' = events \o <<e>>, Len(events') <= QueueSize + 1,
         pc \notin Over, active' \in 0..MaxResponses, made' \in 0..(MaxResponses + 1),
         made <= made', ~Ended,
         audio' \in [Responses -> Nat], faulted' \in BOOLEAN, faulted => faulted',
         e.resp = 0 <=> e.kind \in {"end", "error"},
         e.resp # 0 => /\ active = e.resp /\ made' = made /\ e.kind \in {"audio"} \cup Ends
                       /\ active' = IF e.kind \in Ends THEN 0 ELSE active,
         e.resp = 0 => active' = 0 /\ made' = MaxResponses + 1,
         e.kind = "cancelled" => e.resp \in cancels,
         e.kind \in {"failed", "error"} => faulted',
         \A r \in Responses : audio'[r] = audio[r] + IF e = Event("audio", r) THEN 1 ELSE 0,
         UNCHANGED <<ledgerVars, cancels, interrupt, onsets, pc, target, ownership,
                     receipts, sent>>
  PROVE  S2SInv'
<1> USE DEF S2SInv
<1>1. /\ events' \in Seq(Events) /\ Members(events') = Members(events) \cup {e}
      /\ \A r : IsFiniteSet(Queued(events, r))
      /\ \A r : Cardinality(Queued(events', r)) =
                  Cardinality(Queued(events, r)) + IF e = Event("audio", r) THEN 1 ELSE 0
  BY OneMore DEF Types
<1>2. \A f \in Members(events) : f.resp # 0 /\ (e.resp = 0 \/ Precedes(f, e))
  <2> SUFFICES ASSUME NEW f \in Members(events)
               PROVE  f.resp # 0 /\ (e.resp = 0 \/ Precedes(f, e))
    OBVIOUS
  <2>1. f \in Events
    BY MembersAreEvents DEF Types
  <2> QED
    BY <2>1 DEF QueueShape, Precedes, Events, Kinds, Ends
<1>3. Ordered(events')
  BY <1>2, OneMore DEF Types, QueueShape
<1>4. Types'
  BY <1>1 DEF Types, ledgerVars, ownership, receipts
<1>5. QueueShape'
  <2>1. \A f \in Members(events) \cup {e} :
          /\ f.resp = 0 <=> f.kind \in {"end", "error"}
          /\ f.resp <= made'
          /\ f.resp = 0 => made' > MaxResponses
          /\ f.resp = active' => f.kind \notin Ends
    <3>1. \A f \in Members(events) : f.resp \in Nat /\ f.resp <= made
      BY MembersAreEvents DEF Types, QueueShape
    <3>2. e.resp <= made'
      <4>1. /\ e.resp \in 0..MaxResponses /\ active \in 0..MaxResponses /\ MaxResponses \in Nat
            /\ made \in 0..(MaxResponses + 1) /\ made' \in 0..(MaxResponses + 1)
        BY Bounds DEF Types, Events
      <4>2. e.resp # 0 => e.resp = made /\ made' = made
        BY DEF QueueShape
      <4> QED
        BY <4>1, <4>2
    <3>3. e.resp = active' => e.kind \notin Ends
      BY DEF Ends
    <3>4. \A f \in Members(events) : f.resp = active' => f.kind \notin Ends
      BY <1>2 DEF QueueShape
    <3>5. made \in Nat /\ made' \in Nat /\ MaxResponses \in Nat /\ made <= made'
      BY Bounds DEF Types
    <3>6. e.resp = 0 => made' > MaxResponses
      BY <3>5
    <3>7. \A f \in Members(events) : f.resp # 0 /\ f.kind \notin {"end", "error"}
      BY <1>2 DEF QueueShape
    <3>8. \A f \in Members(events) : f.resp <= made'
      BY <3>1, <3>5
    <3>9. \A f \in Members(events) :
            /\ f.resp = 0 <=> f.kind \in {"end", "error"}
            /\ f.resp <= made'
            /\ f.resp = 0 => made' > MaxResponses
            /\ f.resp = active' => f.kind \notin Ends
      BY <3>4, <3>7, <3>8
    <3> QED
      BY <3>2, <3>3, <3>6, <3>9
  <2>2. active' # 0 => active' = made'
    BY DEF QueueShape
  <2>3. made' > MaxResponses => active' = 0
    BY Bounds DEF Ended, Types
  <2> QED
    BY <1>1, <1>3, <2>1, <2>2, <2>3 DEF QueueShape, Ended
<1>6. QueueOver'
  BY DEF QueueOver, Over
<1>7. Cut' = Cut /\ \A r : Known(r)' <=> Known(r)
  BY DEF Cut, Known, ownership
<1>8. \A r \in Responses : Open(r)' => Open(r)
  BY <1>1 DEF Open, Responses
<1>9. Announced'
  <2>1. \A r \in Responses : Event("started", r) \in Members(events') <=> Event("started", r) \in Members(events)
    <3>1. e.kind # "started" /\ \A r : Event("started", r).kind = "started"
      BY DEF Event, Ends
    <3> QED
      BY <1>1, <3>1
  <2>2. \A r \in Responses : Known(r) => r <= made' /\ \A f \in Members(events') : f.resp # 0 => r <= f.resp
    <3> SUFFICES ASSUME NEW r \in Responses, Known(r)
                 PROVE  r <= made' /\ \A f \in Members(events') : f.resp # 0 => r <= f.resp
      OBVIOUS
    <3>1. r \in Nat /\ r <= made /\ \A f \in Members(events) : f.resp # 0 => r <= f.resp
      BY Bounds DEF Announced, Responses
    <3>2. e.resp # 0 => e.resp = made
      BY DEF QueueShape
    <3>3. made \in Nat /\ made' \in Nat
      BY Bounds DEF Types
    <3>4. \A f \in Members(events') : f.resp # 0 => r <= f.resp
      BY <1>1, <3>1, <3>2
    <3> QED
      BY <3>1, <3>3, <3>4
  <2>3. \A r \in Cut : r <= made'
    <3>1. Cut \subseteq Nat
      BY CutAreResponses
    <3>2. made \in Nat /\ made' \in Nat
      BY Bounds DEF Types
    <3> QED
      BY <3>1, <3>2 DEF Announced
  <2> QED
    BY <1>1, <1>7, <1>8, <2>1, <2>2, <2>3 DEF Announced, ownership
<1>10. OpenOnes'
  BY <1>7, <1>8 DEF OpenOnes, ownership
<1>11. Ledger'
  BY LedgerStays DEF ownership
<1>12. AllIsThere'
  <2> SUFFICES ASSUME NEW r \in Responses \ Cut
               PROVE  audio'[r] = Cardinality(Queued(events', r)) + Cardinality(Blocked(r)')
                                    + Cardinality(Unheard(r)') + Cardinality(heard'[r])
    BY <1>7 DEF AllIsThere
  <2>1. Blocked(r)' = Blocked(r) /\ Unheard(r)' = Unheard(r) /\ heard' = heard
    BY DEF Blocked, Unheard, ledgerVars, receipts
  <2>2. audio[r] = Cardinality(Queued(events, r)) + Cardinality(Blocked(r))
                     + Cardinality(Unheard(r)) + Cardinality(heard[r])
    BY DEF AllIsThere
  <2>3. /\ Cardinality(Queued(events, r)) \in Nat /\ Cardinality(Blocked(r)) \in Nat
        /\ Cardinality(Unheard(r)) \in Nat /\ Cardinality(heard[r]) \in Nat
    BY CountsAreNumbers DEF Ledger
  <2> DEFINE one == IF e = Event("audio", r) THEN 1 ELSE 0
  <2>4. /\ audio'[r] = audio[r] + one
        /\ Cardinality(Queued(events', r)) = Cardinality(Queued(events, r)) + one
        /\ one \in Nat
    BY <1>1
  <2> HIDE DEF one
  <2> QED
    BY <2>1, <2>2, <2>3, <2>4
<1>13. FailsForCause'
  BY DEF FailsForCause, Refuses
<1> QED
  BY <1>4, <1>5, <1>6, <1>9, <1>10, <1>11, <1>12, <1>13

LEMMA StartResponseInv ==
  ASSUME S2SInv, StartResponse,
         UNCHANGED <<ledgerVars, interrupt, onsets, pc, target, ownership, receipts, sent>>
  PROVE  S2SInv'
<1> USE DEF S2SInv
<1> DEFINE n == made + 1
           e == Event("speech", n)
           f == Event("started", n)
<1>1. /\ active = 0 /\ n \in Responses /\ n \in 1..MaxResponses /\ made \in Nat /\ n = made + 1
      /\ pc \notin Over /\ Len(events) + 2 <= QueueSize + 1
      /\ events' = events \o <<e, f>> /\ active' = n /\ made' = n
      /\ UNCHANGED <<audio, cancels, refuses, faulted>>
  BY Bounds, SMTT(30) DEF StartResponse, Emit, Types, Responses
<1>2. /\ e \in Events /\ f \in Events /\ e.resp = n /\ f.resp = n /\ n # 0
      /\ e.kind = "speech" /\ f.kind = "started"
  BY <1>1 DEF Event, Events, Kinds
<1> DEFINE half == events \o <<e>>
<1>3. events' = half \o <<f>> /\ half \in Seq(Events) /\ Len(events') = Len(events) + 2
  <2>1. <<e, f>> = <<e>> \o <<f>>
    OBVIOUS
  <2>2. <<e>> \in Seq(Events) /\ <<f>> \in Seq(Events) /\ events \in Seq(Events)
    BY <1>2 DEF Types
  <2>3. half \in Seq(Events)
    BY <1>2, <2>2, OneMore
  <2> QED
    BY <1>1, <2>1, <2>2, <2>3
<1> HIDE DEF e, f, half, n
<1>4. /\ Members(half) = Members(events) \cup {e}
      /\ Members(events') = Members(events) \cup {e, f}
      /\ events' \in Seq(Events)
      /\ \A r : Cardinality(Queued(events', r)) = Cardinality(Queued(events, r))
  <2>1. \A r : e # Event("audio", r) /\ f # Event("audio", r)
    BY <1>2 DEF Event
  <2>2. /\ \A r : Cardinality(Queued(half, r)) = Cardinality(Queued(events, r)) + 0
        /\ Members(half) = Members(events) \cup {e}
    BY <2>1, <1>2, OneMore DEF half, Types
  <2>3. /\ \A r : Cardinality(Queued(events', r)) = Cardinality(Queued(half, r)) + 0
        /\ Members(events') = Members(half) \cup {f} /\ events' \in Seq(Events)
    BY <2>1, <1>2, <1>3, OneMore
  <2>4. \A r : Cardinality(Queued(events, r)) \in Nat
    BY <1>2, OneMore, FS_CardinalityType DEF Types
  <2> QED
    BY <2>2, <2>3, <2>4
<1>5. \A g \in Members(events) : /\ g.resp # 0 /\ g.resp < n /\ g.resp \in Nat
  <2>1. \A g \in Members(events) : g.resp \in Nat /\ g.resp <= made
    BY MembersAreEvents DEF Types, QueueShape
  <2> QED
    BY <2>1, <1>1, Bounds DEF QueueShape, Ended, Responses
<1>6. Ordered(events')
  <2>1. Ordered(half)
    <3>1. \A g \in Members(events) : g.resp # 0 /\ (e.resp = 0 \/ Precedes(g, e))
      BY <1>2, <1>5 DEF Precedes
    <3>2. events \in Seq(Events) /\ Ordered(events)
      BY DEF Types, QueueShape
    <3> QED
      BY <1>2, <3>1, <3>2, OneMore DEF half
  <2> QED
    BY <1>2, <1>3, <1>4, <1>5, <2>1, OneMore DEF Precedes
<1>a. active' \in 0..MaxResponses /\ made' \in 0..(MaxResponses + 1) /\ n <= MaxResponses /\ n # 0
  BY <1>1, Bounds
<1>7. Types'
  <2>1. Len(events') <= QueueSize + 1
    BY <1>1, <1>3
  <2> QED
    BY <1>1, <1>4, <1>a, <2>1 DEF Types, ledgerVars, ownership, receipts
<1>8. QueueShape'
  <2>1. \A g \in Members(events') :
          /\ g.resp = 0 <=> g.kind \in {"end", "error"}
          /\ g.resp <= n /\ g.resp # 0
          /\ g.resp = n => g.kind \notin Ends
    <3>1. \A g \in Members(events) :
            /\ g.kind \notin {"end", "error"} /\ g.resp < n /\ g.resp # 0 /\ g.resp \in Nat
      BY <1>5 DEF QueueShape
    <3>2. n \in Nat
      BY <1>1
    <3>3. \A g \in Members(events) : g.resp <= n /\ g.resp # n
      BY <3>1, <3>2
    <3>4. \A g \in {e, f} : g.resp = n /\ g.kind \notin {"end", "error"} /\ g.kind \notin Ends
      BY <1>2 DEF Ends
    <3> QED
      BY <1>2, <1>4, <3>1, <3>2, <3>3, <3>4
  <2>2. ~(n > MaxResponses)
    BY <1>a, Bounds, <1>1
  <2> QED
    BY <1>1, <1>6, <2>1, <2>2 DEF QueueShape, Ended
<1>9. QueueOver'
  <2>1. ~Ended
    BY <1>1, <1>a, Bounds DEF Ended
  <2> QED
    BY <2>1, <1>1 DEF QueueOver, Over
<1>10. Cut' = Cut /\ \A r : Known(r)' <=> Known(r)
  BY DEF Cut, Known, ownership
<1>11. n \notin Cut /\ ~Known(n) /\ Event("started", n) = f
  <2>1. made \in Nat /\ ~(n <= made)
    BY <1>1
  <2> QED
    BY <2>1, <1>1 DEF Announced, f
<1>12. \A r \in Responses : Open(r)' <=> Open(r) \/ r = n
  <2> SUFFICES ASSUME NEW r \in Responses PROVE Open(r)' <=> Open(r) \/ r = n
    OBVIOUS
  <2>1. r # 0
    BY Bounds DEF Responses
  <2> QED
    BY <1>1, <1>2, <1>4, <2>1 DEF Open
<1>13. \A r \in Responses : Event("started", r) \in Members(events') <=>
                              Event("started", r) \in Members(events) \/ r = n
  <2>1. \A r : Event("started", r) = f <=> r = n
    BY DEF Event, f
  <2>2. \A r : Event("started", r) # e
    BY <1>2 DEF Event
  <2> QED
    BY <2>1, <2>2, <1>4
<1>14. Announced'
  <2>1. \A r \in Responses : Event("started", r) \in Members(events') =>
          /\ ~Known(r) /\ r \notin Cut
          /\ Event("speech", r) \in Members(events') \/ r \in utterances
    BY <1>4, <1>11, <1>13 DEF Announced, e
  <2>2. \A r \in Responses : Known(r) =>
          r <= n /\ \A g \in Members(events') : g.resp # 0 => r <= g.resp
    <3> SUFFICES ASSUME NEW r \in Responses, Known(r)
                 PROVE  r <= n /\ \A g \in Members(events') : g.resp # 0 => r <= g.resp
      OBVIOUS
    <3>1. r <= made /\ r \in Nat
      BY Bounds DEF Announced, Responses
    <3>2. r <= n
      BY <3>1, <1>1
    <3> QED
      BY <3>2, <1>2, <1>4 DEF Announced
  <2>3. \A r \in Cut : r <= n
    <3>1. Cut \subseteq Nat
      BY CutAreResponses
    <3> QED
      BY <3>1, <1>1 DEF Announced
  <2>4. \A g \in Members(events') :
          /\ g.kind = "cancelled" => g.resp \in cancels
          /\ g.kind \in {"failed", "error"} => faulted
    BY <1>2, <1>4 DEF Announced
  <2> QED
    BY <1>1, <1>10, <1>12, <1>13, <2>1, <2>2, <2>3, <2>4 DEF Announced, ownership
<1>15. OpenOnes'
  BY <1>10, <1>11, <1>12 DEF OpenOnes, ownership
<1>16. Ledger'
  BY <1>1, LedgerStays DEF ownership
<1>17. AllIsThere'
  <2>1. \A r \in Responses : Blocked(r)' = Blocked(r) /\ Unheard(r)' = Unheard(r)
    BY DEF Blocked, Unheard, ledgerVars
  <2> QED
    BY <1>1, <1>4, <1>10, <2>1 DEF AllIsThere, receipts
<1>18. FailsForCause'
  BY <1>1 DEF FailsForCause, Over
<1> QED
  BY <1>1, <1>7, <1>8, <1>9, <1>14, <1>15, <1>16, <1>17, <1>18

LEMMA ProviderStepInv == ASSUME S2SInv, ProviderStep PROVE S2SInv'
<1> USE DEF S2SInv
<1>0. UNCHANGED <<ledgerVars, interrupt, onsets, pc, target, ownership, receipts, sent>>
  BY DEF ProviderStep
<1>t. /\ active \in 0..MaxResponses /\ made \in 0..(MaxResponses + 1) /\ MaxResponses \in Nat
      /\ audio \in [Responses -> Nat] /\ faulted \in BOOLEAN /\ events \in Seq(Events)
  BY Bounds DEF Types
<1>1. CASE StartResponse
  BY <1>0, <1>1, StartResponseInv
<1>2. CASE SendAudio
  <2> DEFINE e == Event("audio", active)
  <2>1. /\ active # 0 /\ active \in Responses /\ pc \notin Over /\ Len(events) + 1 <= QueueSize + 1
        /\ events' = events \o <<e>> /\ audio' = [audio EXCEPT ![active] = @ + 1]
        /\ UNCHANGED <<active, made, cancels, refuses, faulted>> /\ ~Ended
    BY <1>2, <1>t DEF SendAudio, Emit, Responses, QueueShape
  <2>2. e \in Events /\ e.kind = "audio" /\ e.resp = active
    BY <1>t DEF Event, Events, Kinds
  <2>3. \A r \in Responses : e = Event("audio", r) <=> r = active
    BY DEF Event
  <2>4. Len(events') <= QueueSize + 1
    BY <1>t, <2>1, <2>2, ConcatProperties
  <2>5. /\ audio' \in [Responses -> Nat]
        /\ \A r \in Responses : audio'[r] = audio[r] + IF e = Event("audio", r) THEN 1 ELSE 0
    BY <1>t, <2>1, <2>3
  <2> HIDE DEF e
  <2> QED
    BY <1>0, <1>t, <2>1, <2>2, <2>4, <2>5, EmitInv DEF Ends
<1>3. ASSUME NEW s \in {"completed", "cancelled", "failed"}, EndResponse(s) PROVE S2SInv'
  <2> DEFINE e == Event(s, active)
  <2>1. /\ active # 0 /\ active \in Responses /\ pc \notin Over /\ Len(events) + 1 <= QueueSize + 1
        /\ events' = events \o <<e>> /\ active' = 0 /\ faulted' = (faulted \/ s = "failed")
        /\ s = "cancelled" => active \in cancels
        /\ UNCHANGED <<made, audio, cancels>> /\ ~Ended
    BY <1>3, <1>t DEF EndResponse, Emit, Responses, QueueShape
  <2>2. e \in Events /\ e.kind = s /\ e.resp = active /\ s \in Ends
    BY <1>t DEF Event, Events, Kinds, Ends
  <2>3. \A r \in Responses : e # Event("audio", r)
    BY DEF Event
  <2>4. Len(events') <= QueueSize + 1
    BY <1>t, <2>1, <2>2, ConcatProperties
  <2>5. \A r \in Responses : audio'[r] = audio[r] + IF e = Event("audio", r) THEN 1 ELSE 0
    BY <1>t, <2>1, <2>3
  <2>6. faulted' \in BOOLEAN /\ (faulted => faulted') /\ (s = "failed" => faulted')
    BY <2>1
  <2> HIDE DEF e
  <2>7. /\ e.kind \notin {"end", "error"} /\ e.resp # 0 /\ made <= made'
        /\ e.kind = "cancelled" => e.resp \in cancels
        /\ e.kind \in {"failed", "error"} => faulted'
    BY <1>t, <2>1, <2>2, <2>6
  <2> QED
    BY <1>0, <1>t, <2>1, <2>2, <2>4, <2>5, <2>6, <2>7, EmitInv, SMTT(30)
<1>4. ASSUME NEW k \in {"end", "error"}, EndStream(k) PROVE S2SInv'
  <2> DEFINE e == Event(k, 0)
  <2>1. /\ pc \notin Over /\ Len(events) + 1 <= QueueSize + 1 /\ ~Ended
        /\ events' = events \o <<e>> /\ active' = 0 /\ made' = MaxResponses + 1
        /\ faulted' = (faulted \/ k = "error")
        /\ UNCHANGED <<audio, cancels>>
    BY <1>4, <1>t DEF EndStream, Emit
  <2>2. e \in Events /\ e.kind = k /\ e.resp = 0
    BY <1>t DEF Event, Events, Kinds
  <2>3. \A r \in Responses : e # Event("audio", r)
    BY DEF Event
  <2>4. Len(events') <= QueueSize + 1
    BY <1>t, <2>1, <2>2, ConcatProperties
  <2>5. \A r \in Responses : audio'[r] = audio[r] + IF e = Event("audio", r) THEN 1 ELSE 0
    BY <1>t, <2>1, <2>3
  <2>6. faulted' \in BOOLEAN /\ (faulted => faulted') /\ (k = "error" => faulted')
    BY <2>1
  <2> HIDE DEF e
  <2>7. /\ active' \in 0..MaxResponses /\ made' \in 0..(MaxResponses + 1) /\ made <= made'
        /\ e.kind # "cancelled" /\ (e.kind \in {"failed", "error"} => faulted')
    BY <1>t, <2>1, <2>2, <2>6
  <2> QED
    BY <1>0, <1>t, <2>1, <2>2, <2>4, <2>5, <2>6, <2>7, EmitInv, SMTT(30)
<1> QED
  BY <1>1, <1>2, <1>3, <1>4 DEF ProviderStep

(* A step that touches the onsets alone. *)
LEMMA S2SStays ==
  ASSUME S2SInv,
         UNCHANGED <<ledgerVars, provider, events, pc, target, ownership, receipts, sent>>
  PROVE  S2SInv'
<1> USE DEF S2SInv, provider
<1>1. Types' /\ QueueShape' /\ QueueOver' /\ FailsForCause'
  BY DEF Types, QueueShape, QueueOver, FailsForCause, Refuses, ledgerVars, ownership, receipts, Ended
<1>2. Cut' = Cut /\ \A r : Known(r)' <=> Known(r)
  BY DEF Cut, Known, ownership
<1>3. \A r : Open(r)' <=> Open(r)
  BY DEF Open
<1>4. Announced' /\ OpenOnes'
  BY <1>2, <1>3 DEF Announced, OpenOnes, ownership
<1>5. Ledger'
  BY LedgerStays DEF ownership
<1>6. \A r \in Responses : Blocked(r)' = Blocked(r) /\ Unheard(r)' = Unheard(r)
  BY DEF Blocked, Unheard, ledgerVars
<1>7. AllIsThere'
  BY <1>2, <1>6 DEF AllIsThere, receipts
<1> QED
  BY <1>1, <1>4, <1>5, <1>7

LEMMA OnsetInv == ASSUME S2SInv, Onset PROVE S2SInv'
BY S2SStays DEF Onset

---------------------------------------------------------------------------
(* The scheduler takes an event. *)

LEMMA Taken ==
  ASSUME S2SInv, pc = "get", events # <<>>, events' = Tail(events),
         UNCHANGED <<provider, target, sent>>, NEW e, e = Head(events)
  PROVE  /\ e \in Events /\ e \in Members(events)
         /\ events' \in Seq(Events) /\ Len(events') <= QueueSize + 1
         /\ Members(events) = Members(events') \cup {e}
         /\ \A f \in Members(events') : e.resp # 0 /\ (f.resp = 0 \/ Precedes(e, f))
         /\ \A r : /\ IsFiniteSet(Queued(events', r))
                   /\ Cardinality(Queued(events', r)) \in Nat
                   /\ Cardinality(Queued(events, r)) =
                        Cardinality(Queued(events', r)) + IF e = Event("audio", r) THEN 1 ELSE 0
         /\ QueueShape' /\ Cut' = Cut /\ calls = {} /\ target = 0
         /\ \A r : Open(r)' => Open(r)
         /\ e.resp # 0 => e.resp \in Responses /\ Open(e.resp)
         /\ e.resp # 0 <=> e.kind \notin {"end", "error"}
<1> USE DEF S2SInv
<1>0. events \in Seq(Events) /\ Len(events) <= QueueSize + 1 /\ Len(events) \in Nat
  BY LenProperties DEF Types
<1>1. /\ e \in Events /\ e \in Members(events)
      /\ events' \in Seq(Events) /\ Len(events') <= Len(events)
      /\ Members(events) = Members(events') \cup {e}
      /\ Ordered(events')
      /\ \A f \in Members(events') : e.resp # 0 /\ (f.resp = 0 \/ Precedes(e, f))
  BY <1>0, TailOf DEF QueueShape
<1>2. Len(events') \in Nat
  BY <1>1, LenProperties
<1>3. Len(events') <= QueueSize + 1
  BY <1>0, <1>1, <1>2, Bounds
<1>4. ASSUME NEW r
      PROVE  /\ IsFiniteSet(Queued(events', r))
             /\ Cardinality(Queued(events', r)) \in Nat
             /\ Cardinality(Queued(events, r)) =
                        Cardinality(Queued(events', r)) + IF e = Event("audio", r) THEN 1 ELSE 0
  BY <1>0, TailQueued, FS_CardinalityType
<1>5. QueueShape'
  BY <1>1 DEF QueueShape, provider, Ended
<1>6. Cut' = Cut /\ calls = {} /\ target = 0
  BY DEF Cut, Ledger, Calls, CutIsOver
<1>7. \A r : Open(r)' => Open(r)
  BY <1>1 DEF Open, provider
<1>8. e.resp # 0 => e.resp \in Responses /\ Open(e.resp)
  <2>1. e.resp \in 0..MaxResponses
    BY <1>1 DEF Events
  <2> QED
    BY <1>1, <2>1, Bounds DEF Open, Responses
<1>9. e.resp # 0 <=> e.kind \notin {"end", "error"}
  BY <1>1 DEF QueueShape
<1> QED
  BY <1>1, <1>3, <1>4, <1>5, <1>6, <1>7, <1>8, <1>9

(* A taken event that neither starts nor carries audio of an uncut one. *)
LEMMA StillThere ==
  ASSUME S2SInv, pc = "get", events # <<>>, events' = Tail(events),
         UNCHANGED <<provider, ledgerVars, target, sent, heard>>,
         \A r \in Responses \ Cut : Head(events) # Event("audio", r)
  PROVE  AllIsThere'
<1>1. \A r \in Responses : Blocked(r)' = Blocked(r) /\ Unheard(r)' = Unheard(r)
  BY DEF Blocked, Unheard, ledgerVars, provider
<1>2. Cut' = Cut /\ \A r : /\ Cardinality(Queued(events', r)) \in Nat
                          /\ Cardinality(Queued(events, r)) = Cardinality(Queued(events', r))
                               + IF Head(events) = Event("audio", r) THEN 1 ELSE 0
  BY Taken
<1>3. \A r \in Responses \ Cut : Cardinality(Queued(events', r)) = Cardinality(Queued(events, r))
  BY <1>2
<1> QED
  BY <1>1, <1>2, <1>3 DEF AllIsThere, S2SInv, provider

LEMMA SpeechInv ==
  ASSUME S2SInv, TakeEvent, Head(events).kind = "speech", OnSpeechStarted(Head(events).resp)
  PROVE  S2SInv'
<1> USE DEF S2SInv
<1> DEFINE e == Head(events)
<1>0. /\ pc = "get" /\ pc' = "get" /\ events # <<>> /\ events' = Tail(events)
      /\ utterances' = utterances \cup {e.resp}
      /\ UNCHANGED <<ledgerVars, provider, target, responses, order, abandoned, current,
                     receipts, sent>>
  BY DEF TakeEvent, OnSpeechStarted, receipts
<1>1. /\ e \in Events /\ e \in Members(events)
      /\ events' \in Seq(Events) /\ Len(events') <= QueueSize + 1
      /\ Members(events) = Members(events') \cup {e}
      /\ QueueShape' /\ Cut' = Cut /\ calls = {}
      /\ \A r : Open(r)' => Open(r)
  BY <1>0, Taken
<1> HIDE DEF e
<1>2. Types'
  BY <1>0, <1>1 DEF Types, ledgerVars, provider, receipts
<1>3. \A r : Known(r)' <=> Known(r)
  BY <1>0 DEF Known
<1>4. e.kind = "speech"
  BY DEF e
<1>5. Announced'
  <2>1. \A r \in Responses : Event("started", r) \in Members(events') =>
          /\ ~Known(r) /\ r \notin Cut
          /\ Event("speech", r) \in Members(events') \/ r \in utterances'
    <3>1. \A r : Event("speech", r) = e => r = e.resp
      BY DEF Event
    <3> QED
      BY <1>0, <1>1, <3>1 DEF Announced
  <2>2. \A r \in Responses : Event("started", r) \in Members(events)
                              => Event("started", r) \in Members(events')
    <3>1. \A r : Event("started", r) # e
      BY <1>4 DEF Event
    <3> QED
      BY <1>1, <3>1
  <2> QED
    BY <1>0, <1>1, <1>3, <2>1, <2>2 DEF Announced, provider
<1>6. OpenOnes'
  BY <1>0, <1>1, <1>3 DEF OpenOnes
<1>7. Ledger'
  BY <1>0, LedgerStays DEF provider
<1>8. AllIsThere'
  <2>1. \A r : e # Event("audio", r)
    BY <1>4 DEF Event
  <2> QED
    BY <1>0, <2>1, StillThere DEF e, receipts
<1> QED
  BY <1>0, <1>1, <1>2, <1>5, <1>6, <1>7, <1>8 DEF QueueOver, FailsForCause, Refuses

(* What was taken is of a response that has been started and is not over. *)
LEMMA HeadIsKnown ==
  ASSUME S2SInv, pc = "get", events # <<>>, events' = Tail(events),
         UNCHANGED <<provider, target, sent>>,
         Head(events).kind \in {"audio"} \cup Ends
  PROVE  LET r == Head(events).resp
         IN  r \in Responses /\ Known(r) /\ (IF r \in Cut THEN r \in abandoned ELSE current = r)
<1> DEFINE e == Head(events)
           r == e.resp
<1>1. /\ Members(events) = Members(events') \cup {e}
      /\ \A f \in Members(events') : f.resp = 0 \/ Precedes(e, f)
      /\ r # 0 => r \in Responses /\ Open(r)
      /\ r # 0 <=> e.kind \notin {"end", "error"}
  BY Taken
<1>2. r # 0 /\ r \in Responses /\ r \in Nat /\ e.kind # "started"
  BY <1>1, Bounds DEF Ends, Responses
<1> HIDE DEF e
<1>3. Event("started", r) \notin Members(events)
  <2>1. /\ Event("started", r) # e /\ Event("started", r).resp = r
        /\ Event("started", r).kind = "started"
    BY <1>2 DEF Event
  <2>2. ~Precedes(e, Event("started", r))
    BY <2>1, <1>2 DEF Precedes, e, Ends
  <2> QED
    BY <1>1, <1>2, <2>1, <2>2
<1>4. Known(r)
  BY <1>1, <1>2, <1>3 DEF S2SInv, Announced
<1>5. IF r \in Cut THEN r \in abandoned ELSE current = r
  BY <1>1, <1>2, <1>4 DEF S2SInv, OpenOnes
<1> QED
  BY <1>2, <1>4, <1>5 DEF e

LEMMA StartedInv ==
  ASSUME S2SInv, TakeEvent, Head(events).kind = "started", OnResponseStarted(Head(events).resp)
  PROVE  S2SInv'
<1> USE DEF S2SInv
<1> DEFINE e == Head(events)
           r == e.resp
<1>0. /\ pc = "get" /\ events # <<>> /\ events' = Tail(events) /\ e.kind = "started"
      /\ UNCHANGED <<invalidated, outstanding, accepted, calls, provider, target, abandoned,
                     utterances, receipts, sent>>
  BY DEF TakeEvent, OnResponseStarted, receipts
<1>1. /\ e \in Events /\ e \in Members(events)
      /\ events' \in Seq(Events) /\ Len(events') <= QueueSize + 1
      /\ Members(events) = Members(events') \cup {e}
      /\ QueueShape' /\ Cut' = Cut /\ calls = {} /\ target = 0
      /\ \A f \in Members(events') : f.resp = 0 \/ Precedes(e, f)
      /\ \A x : Open(x)' => Open(x)
      /\ r # 0 => r \in Responses /\ Open(r)
      /\ r # 0 <=> e.kind \notin {"end", "error"}
  BY <1>0, Taken
<1>n. /\ r # 0 /\ r \in Responses /\ r \in Nat /\ r \in 0..MaxResponses
      /\ Responses \subseteq Nat /\ made \in Nat
      /\ genSeq \in Nat /\ responses \in [DOMAIN responses -> 1..genSeq]
      /\ \A x \in DOMAIN responses : responses[x] \in 1..genSeq
      /\ \A f \in Members(events) : f.resp \in Nat
  <2>0. made \in 0..(MaxResponses + 1) /\ MaxResponses \in Nat
    BY Bounds DEF Types
  <2>1. Responses \subseteq Nat /\ Responses \subseteq 0..MaxResponses /\ made \in Nat
    BY <2>0 DEF Responses
  <2>2. \A f \in Members(events) : f.resp \in Nat
    BY MembersAreEvents DEF Types
  <2>3. genSeq \in Nat /\ responses \in [DOMAIN responses -> 1..genSeq]
    BY DEF Types
  <2> QED
    BY <1>0, <1>1, <2>1, <2>2, <2>3
<1>2. e = Event("started", r)
  BY <1>0, <1>1 DEF Event, Events
<1> HIDE DEF e
<1>3. ~Known(r) /\ r \notin Cut /\ r \in utterances
  <2>1. ~Precedes(e, Event("speech", r)) /\ e # Event("speech", r) /\ Event("speech", r).resp = r
    BY <1>0, <1>n DEF Precedes, Event
  <2>2. Event("speech", r) \notin Members(events)
    BY <1>1, <1>n, <2>1
  <2> QED
    BY <1>1, <1>2, <1>n, <2>2 DEF Announced
<1>4. r \notin abandoned
  BY <1>3 DEF Ledger, CutIsOver
<1>5. /\ genSeq' = genSeq + 1 /\ current' = r /\ pc' = "get"
      /\ responses' = [x \in DOMAIN responses \cup {r} |->
                          IF x = r THEN genSeq + 1 ELSE responses[x]]
  BY <1>3, <1>4 DEF OnResponseStarted, e
<1>6. \A x : Known(x)' <=> Known(x) \/ x = r
  BY <1>5 DEF Known
<1>7. Types'
  <2>1. /\ responses' \in [DOMAIN responses' -> 1..genSeq'] /\ DOMAIN responses' \subseteq Responses
    <3>1. DOMAIN responses' = DOMAIN responses \cup {r} /\ DOMAIN responses \subseteq Responses
      BY <1>5 DEF Types
    <3>2. genSeq + 1 \in 1..genSeq' /\ \A x \in DOMAIN responses : responses[x] \in 1..genSeq'
      BY <1>n, <1>5
    <3> QED
      BY <1>n, <1>5, <3>1, <3>2
  <2>2. genSeq' \in Nat /\ current' \in 0..MaxResponses
        /\ pc' \in {"get", "audio", "wait", "drain", "cut", "cutDrain"} \cup Over
    BY <1>5, <1>n
  <2>3. /\ accepted' \in Nat
        /\ outstanding' \subseteq Handle(Responses) /\ IsFiniteSet(outstanding')
        /\ Cardinality(outstanding') <= Capacity
        /\ calls' \subseteq Call(Responses)
        /\ active' \in 0..MaxResponses /\ made' \in 0..(MaxResponses + 1)
        /\ audio' \in [Responses -> Nat] /\ cancels' \subseteq Responses /\ faulted' \in BOOLEAN
        /\ target' \in 0..MaxResponses /\ abandoned' \subseteq Responses
    BY <1>0 DEF Types, provider
  <2>4. /\ handles' \in [Responses -> SUBSET Nat] /\ absorbed' \in [Responses -> Nat]
        /\ heard' \in [Responses -> SUBSET Nat] /\ \A x \in Responses : IsFiniteSet(heard'[x])
        /\ sent' \in Seq([resp : Responses, heard : Nat])
    BY <1>0 DEF Types, receipts
  <2> QED
    BY <1>1, <2>1, <2>2, <2>3, <2>4 DEF Types
<1>8. ASSUME NEW f \in Members(events'), f.resp # 0
      PROVE  r <= f.resp /\ (f.resp = r => f.kind \notin {"speech", "started"})
  <2>1. Precedes(e, f) /\ f.resp \in Nat
    BY <1>1, <1>8, <1>n
  <2> QED
    BY <2>1, <1>n, <1>0 DEF Precedes
<1>9. Announced'
  <2>1. ASSUME NEW x \in Responses, Event("started", x) \in Members(events')
        PROVE  /\ ~Known(x)' /\ x \notin Cut
               /\ Event("speech", x) \in Members(events') \/ x \in utterances
    <3>1. x # r /\ Event("speech", x) # e
      <4>1. Event("started", x).resp = x /\ Event("started", x).kind = "started" /\ x # 0
        BY Bounds DEF Event, Responses
      <4>2. Event("speech", x).kind = "speech"
        BY DEF Event
      <4> QED
        BY <1>0, <1>8, <2>1, <4>1, <4>2
    <3> QED
      BY <1>1, <1>6, <2>1, <3>1 DEF Announced
  <2>2. ASSUME NEW x \in Responses, Open(x)'
        PROVE  Known(x)' \/ Event("started", x) \in Members(events')
    <3>1. Event("started", x) = e => x = r
      BY DEF Event
    <3> QED
      BY <1>1, <1>6, <2>2, <3>1 DEF Announced
  <2>3. ASSUME NEW x \in Responses, Known(x)'
        PROVE  x <= made /\ \A f \in Members(events') : f.resp # 0 => x <= f.resp
    <3>1. r <= made
      BY <1>1 DEF QueueShape
    <3> QED
      BY <1>1, <1>6, <1>8, <2>3, <3>1 DEF Announced
  <2> QED
    BY <1>0, <1>1, <2>1, <2>2, <2>3 DEF Announced, provider
<1>10. OpenOnes'
  <2>1. ASSUME NEW x \in Responses, Open(x)', Known(x), x # r PROVE FALSE
    <3>1. x <= r /\ x \in Nat /\ x <= made /\ r <= made
      BY <1>1, <1>n, <2>1 DEF Announced, QueueShape
    <3>2. CASE \E f \in Members(events') : f.resp = x
      <4>1. PICK f \in Members(events') : f.resp = x
        BY <3>2
      <4>2. f.resp # 0
        BY <4>1, Bounds DEF Responses
      <4> QED
        BY <4>1, <4>2, <3>1, <1>8, <1>n, <2>1
    <3>3. CASE active = x
      <4>1. x # 0 /\ x = made
        BY <3>3, Bounds DEF Responses, QueueShape
      <4> QED
        BY <4>1, <3>1, <1>n, <2>1
    <3>4. active = x \/ \E f \in Members(events') : f.resp = x
      BY <1>0, <2>1 DEF Open, provider
    <3> QED
      BY <3>2, <3>3, <3>4
  <2> QED
    BY <1>0, <1>1, <1>5, <1>6, <2>1 DEF OpenOnes
<1>11. Ledger'
  <2> USE DEF Ledger
  <2>1. Generations'
    <3>1. \A x \in DOMAIN responses' : responses'[x] = IF x = r THEN genSeq + 1 ELSE responses[x]
      BY <1>5
    <3>2. DOMAIN responses' = DOMAIN responses \cup {r} /\ r \notin DOMAIN responses
      BY <1>3, <1>5 DEF Known
    <3>3. genSeq + 1 \notin 1..genSeq
      BY <1>n
    <3>4. \A x, y \in DOMAIN responses' : responses'[x] = responses'[y] => x = y
      BY <1>n, <3>1, <3>2, <3>3 DEF Generations
    <3>5. invalidated \subseteq 1..genSeq' /\ genSeq + 1 \notin invalidated
      BY <1>n, <1>5, <3>3 DEF Generations
    <3>6. \A x \in DOMAIN responses' : responses'[x] \in invalidated <=> x \in Cut
      BY <1>3, <3>1, <3>2, <3>5 DEF Generations
    <3> QED
      BY <1>0, <1>1, <3>4, <3>5, <3>6 DEF Generations
  <2>2. CutIsOver'
    BY <1>0, <1>1, <1>3, <1>5, <1>6 DEF CutIsOver, OneCancelEach, provider, receipts
  <2>3. Numbered' /\ Accounted' /\ Calls'
    BY <1>0, <1>1, <1>5 DEF Numbered, Accounted, CursorIsHeard, Calls, receipts
  <2>4. HandlesOwned'
    <3>1. \A x \in DOMAIN responses : responses'[x] = responses[x]
      BY <1>3, <1>5 DEF Known
    <3> QED
      BY <1>0, <1>1, <1>6, <3>1 DEF HandlesOwned, Known, receipts
  <2> QED
    BY <2>1, <2>2, <2>3, <2>4
<1>12. AllIsThere'
  <2>1. \A x \in Responses : Blocked(x)' = Blocked(x) /\ Unheard(x)' = Unheard(x)
    BY <1>0 DEF Blocked, Unheard
  <2>2. \A x : e # Event("audio", x)
    BY <1>0 DEF Event
  <2>3. \A x : /\ Cardinality(Queued(events', x)) \in Nat
              /\ Cardinality(Queued(events, x)) = Cardinality(Queued(events', x))
                   + IF e = Event("audio", x) THEN 1 ELSE 0
    BY <1>0, Taken DEF e
  <2>4. \A x \in Responses : Cardinality(Queued(events', x)) = Cardinality(Queued(events, x))
    BY <2>2, <2>3
  <2> QED
    BY <1>0, <1>1, <2>1, <2>4 DEF AllIsThere, provider, receipts
<1> QED
  BY <1>0, <1>1, <1>5, <1>7, <1>9, <1>10, <1>11, <1>12 DEF QueueOver, FailsForCause, Refuses

(* The end of the stream. *)
LEMMA StreamEndInv ==
  ASSUME S2SInv, TakeEvent, Head(events).kind \in {"end", "error"},
         pc' = IF Head(events).kind = "end" THEN "drain" ELSE "failed",
         UNCHANGED <<ledgerVars, ownership, handles, absorbed>>
  PROVE  S2SInv'
<1> USE DEF S2SInv
<1> DEFINE e == Head(events)
<1>0. /\ pc = "get" /\ events # <<>> /\ events' = Tail(events)
      /\ UNCHANGED <<ledgerVars, provider, target, ownership, receipts, sent>>
  BY DEF TakeEvent, receipts
<1>1. /\ e \in Events /\ e \in Members(events)
      /\ events' \in Seq(Events) /\ Len(events') <= QueueSize + 1
      /\ Members(events) = Members(events') \cup {e}
      /\ QueueShape' /\ Cut' = Cut /\ calls = {} /\ target = 0
      /\ \A f \in Members(events') : e.resp # 0
      /\ \A x : Open(x)' => Open(x)
      /\ e.resp # 0 <=> e.kind \notin {"end", "error"}
  BY <1>0, Taken
<1>2. e.resp = 0 /\ Members(events') = {}
  BY <1>1
<1>3. events' = <<>> /\ Ended
  <2>1. Len(events') \in Nat
    BY <1>1, LenProperties
  <2>2. Len(events') # 0 => 1 \in 1..Len(events') /\ events'[1] \in Members(events')
    BY <2>1 DEF Members
  <2> QED
    BY <1>1, <1>2, <2>2, EmptySeq DEF QueueShape
<1>4. Types'
  BY <1>0, <1>1 DEF Types, ledgerVars, provider, ownership, receipts, Over
<1>5. \A r : Known(r)' <=> Known(r)
  BY <1>0 DEF Known, ownership
<1>6. Announced'
  <2>1. \A r \in Responses : Event("started", r) # e
    BY DEF Event
  <2> QED
    BY <1>0, <1>1, <1>2, <1>5, <2>1 DEF Announced, provider, ownership
<1>7. OpenOnes'
  BY <1>0, <1>1, <1>5 DEF OpenOnes, ownership
<1>8. Ledger'
  <2>1. Numbered' /\ Generations' /\ Calls' /\ HandlesOwned' /\ Accounted'
    BY <1>0, <1>1, <1>5 DEF Ledger, Numbered, Generations, Calls, HandlesOwned, Accounted,
                            CursorIsHeard, Known, ledgerVars, ownership, receipts
  <2>2. CutIsOver'
    BY <1>0, <1>1, <1>5 DEF Ledger, CutIsOver, OneCancelEach, Known, provider, ownership, receipts
  <2> QED
    BY <2>1, <2>2 DEF Ledger
<1>9. AllIsThere'
  <2>1. \A r : e # Event("audio", r)
    BY DEF Event
  <2> QED
    BY <1>0, <2>1, StillThere DEF receipts
<1>10. FailsForCause'
  BY <1>0, <1>1 DEF FailsForCause, Refuses, Announced, provider
<1>11. QueueOver'
  BY <1>0, <1>3 DEF QueueOver, provider, Ended
<1> QED
  BY <1>1, <1>4, <1>6, <1>7, <1>8, <1>9, <1>10, <1>11

(* An event is taken that is neither a speech start nor a response start.  *)
LEMMA StillAnnounced ==
  ASSUME Announced, NEW e, Members(events) = Members(events') \cup {e}, Cut' = Cut,
         \A x : Event("speech", x) # e,
         \A x : Known(x)' => Known(x),
         \A x \in Responses : Open(x)' =>
            Known(x)' \/ Event("started", x) \in Members(events'),
         UNCHANGED <<provider, utterances>>
  PROVE  Announced'
<1>1. ASSUME NEW x \in Responses, Event("started", x) \in Members(events')
      PROVE  /\ ~Known(x)' /\ x \notin Cut
             /\ Event("speech", x) \in Members(events') \/ x \in utterances
  BY <1>1 DEF Announced
<1>2. ASSUME NEW x \in Responses, Known(x)'
      PROVE  x <= made /\ \A f \in Members(events') : f.resp # 0 => x <= f.resp
  BY <1>2 DEF Announced
<1>3. \A f \in Members(events') : /\ f.kind = "cancelled" => f.resp \in cancels
                                 /\ f.kind \in {"failed", "error"} => faulted
  BY DEF Announced
<1>4. \A x \in Cut : x <= made
  BY DEF Announced
<1> QED
  BY <1>1, <1>2, <1>3, <1>4 DEF Announced, provider

(* The end of a response: an abandoned one is acknowledged. *)
LEMMA DoneInv ==
  ASSUME S2SInv, TakeEvent, Head(events).kind \in Ends,
         OnResponseDone(Head(events).resp, Head(events).kind)
  PROVE  S2SInv'
<1> USE DEF S2SInv
<1> DEFINE e == Head(events)
<1>r. PICK r : r = e.resp
  OBVIOUS
<1>0. /\ pc = "get" /\ events # <<>> /\ events' = Tail(events) /\ e.kind \in Ends
      /\ UNCHANGED <<ledgerVars, provider, target, order, utterances, receipts, sent>>
  BY DEF TakeEvent, OnResponseDone, receipts
<1>1. /\ e \in Events /\ e \in Members(events)
      /\ events' \in Seq(Events) /\ Len(events') <= QueueSize + 1
      /\ Members(events) = Members(events') \cup {e}
      /\ QueueShape' /\ Cut' = Cut /\ calls = {} /\ target = 0
      /\ \A f \in Members(events') : f.resp = 0 \/ Precedes(e, f)
      /\ \A x : Open(x)' => Open(x)
  BY <1>0, Taken
<1>2. r \in Responses /\ Known(r) /\ (IF r \in Cut THEN r \in abandoned ELSE current = r)
  BY <1>0, <1>r, HeadIsKnown
<1>3. /\ r # 0 /\ r \in Nat /\ active # r /\ e.kind \notin {"speech", "started", "audio"}
      /\ \A f \in Members(events) : f.resp \in Nat
  <2>1. \A f \in Members(events) : f.resp \in Nat
    BY MembersAreEvents DEF Types
  <2>2. r # 0 /\ r \in Nat
    BY <1>2, Bounds DEF Responses
  <2>3. active # r
    BY <1>0, <1>1, <1>r DEF QueueShape
  <2> QED
    BY <1>0, <2>1, <2>2, <2>3 DEF Ends
<1> HIDE DEF e
<1>4. ~Open(r)'
  <2>1. \A f \in Members(events') : f.resp # r
    <3> SUFFICES ASSUME NEW f \in Members(events'), f.resp = r PROVE FALSE
      OBVIOUS
    <3>1. Precedes(e, f)
      BY <1>1, <1>3
    <3> QED
      BY <1>3, <1>r, <3>1 DEF Precedes
  <2> QED
    BY <1>0, <1>3, <2>1 DEF Open, provider
<1>5. \A x : Event("started", x) # e /\ Event("audio", x) # e /\ Event("speech", x) # e
  BY <1>3 DEF Event
<1>6. AllIsThere'
  BY <1>0, <1>5, StillThere DEF e, receipts
<1>7. r \in Cut <=> r \in abandoned
  BY <1>2 DEF Ledger, CutIsOver
<1>8. CASE r \in abandoned
  <2>1. /\ abandoned' = abandoned \ {r} /\ pc' = "get" /\ current' = current
        /\ responses' = [x \in DOMAIN responses \ {r} |-> responses[x]]
    BY <1>8, <1>r DEF OnResponseDone, Acknowledged, Restrict, e
  <2>2. \A x : Known(x)' <=> Known(x) /\ x # r
    BY <2>1 DEF Known
  <2>3. Types'
    <3>1. /\ responses' \in [DOMAIN responses' -> 1..genSeq] /\ DOMAIN responses' \subseteq Responses
          /\ abandoned' \subseteq Responses
      BY <2>1 DEF Types
    <3> QED
      BY <1>0, <1>1, <2>1, <3>1 DEF Types, ledgerVars, provider, receipts
  <2>4. Announced'
    <3>1. ASSUME NEW x \in Responses, Open(x)'
          PROVE  Known(x)' \/ Event("started", x) \in Members(events')
      <4>1. x # r
        BY <3>1, <1>4
      <4> QED
        BY <1>1, <1>5, <2>2, <3>1, <4>1 DEF Announced
    <3> QED
      BY <1>0, <1>1, <1>5, <2>2, <3>1, StillAnnounced
  <2>5. OpenOnes'
    <3>1. ASSUME NEW x \in Responses, Open(x)' PROVE x # r
      BY <3>1, <1>4
    <3> QED
      BY <1>1, <2>1, <2>2, <3>1 DEF OpenOnes
  <2>6. Ledger'
    <3> USE DEF Ledger
    <3>1. Generations'
      <4>1. \A x \in DOMAIN responses' : x \in DOMAIN responses /\ responses'[x] = responses[x]
        BY <2>1
      <4> QED
        BY <1>0, <1>1, <4>1 DEF Generations, ledgerVars
    <3>2. CutIsOver'
      BY <1>0, <1>1, <1>7, <1>8, <2>1, <2>2 DEF CutIsOver, OneCancelEach, provider, receipts
    <3>3. Numbered' /\ Accounted' /\ Calls'
      BY <1>0, <1>1, <2>1 DEF Numbered, Accounted, CursorIsHeard, Calls, receipts, ledgerVars
    <3>4. HandlesOwned'
      <4>1. \A h \in outstanding : h.unit # r
        BY <1>7, <1>8 DEF HandlesOwned
      <4>2. \A h \in outstanding : responses'[h.unit] = responses[h.unit] /\ Known(h.unit)'
        BY <2>1, <2>2, <4>1 DEF HandlesOwned, Known
      <4> QED
        BY <1>0, <1>1, <4>2 DEF HandlesOwned, receipts, ledgerVars
    <3> QED
      BY <3>1, <3>2, <3>3, <3>4
  <2> QED
    BY <1>1, <1>6, <2>1, <2>3, <2>4, <2>5, <2>6 DEF QueueOver, FailsForCause, Refuses
<1>9. CASE r \notin abandoned
  <2>1. /\ abandoned' = abandoned /\ responses' = responses /\ current = r /\ current' = 0
        /\ pc' = IF e.kind = "completed" THEN "get" ELSE "failed"
    BY <1>2, <1>7, <1>9, <1>r DEF OnResponseDone, Acknowledged, e
  <2>2. \A x : Known(x)' <=> Known(x)
    BY <2>1 DEF Known
  <2>3. Types'
    BY <1>0, <1>1, <2>1, Bounds DEF Types, ledgerVars, provider, receipts, Over
  <2>4. Announced'
    <3>1. ASSUME NEW x \in Responses, Open(x)'
          PROVE  Known(x)' \/ Event("started", x) \in Members(events')
      BY <1>1, <1>5, <2>2, <3>1 DEF Announced
    <3> QED
      BY <1>0, <1>1, <1>5, <2>2, <3>1, StillAnnounced
  <2>5. OpenOnes'
    <3>1. ASSUME NEW x \in Responses, Open(x)' PROVE x # r
      BY <3>1, <1>4
    <3> QED
      BY <1>1, <2>1, <2>2, <3>1 DEF OpenOnes
  <2>6. Ledger'
    <3> USE DEF Ledger
    <3>1. Generations' /\ Numbered' /\ Accounted' /\ Calls' /\ HandlesOwned'
      BY <1>0, <1>1, <2>1, <2>2 DEF Generations, Numbered, Accounted, CursorIsHeard, Calls,
                                    HandlesOwned, receipts, ledgerVars
    <3>2. CutIsOver'
      BY <1>0, <1>1, <2>1, <2>2 DEF CutIsOver, OneCancelEach, provider, receipts
    <3> QED
      BY <3>1, <3>2
  <2>7. FailsForCause'
    <3>1. e.kind # "cancelled"
      BY <1>1, <1>7, <1>9, <1>r DEF Announced, Ledger, CutIsOver, Cut
    <3>2. e.kind = "failed" => faulted
      BY <1>1 DEF Announced
    <3> QED
      BY <1>0, <2>1, <3>1, <3>2 DEF FailsForCause, Refuses, provider, Ends
  <2> QED
    BY <1>1, <1>6, <2>1, <2>3, <2>4, <2>5, <2>6, <2>7 DEF QueueOver
<1> QED
  BY <1>8, <1>9

---------------------------------------------------------------------------
(* A chunk enters the ledger. *)

(* What is folded into a count when the handles of S shrink to L. *)
LEMMA Absorb ==
  ASSUME NEW H, IsFiniteSet(H), NEW S, NEW L \in SUBSET S
  PROVE  /\ Cardinality((S \ L) \cap H) \in Nat
         /\ Cardinality(H \ L) = Cardinality(H \ S) + Cardinality((S \ L) \cap H)
<1>1. /\ IsFiniteSet(H \ S) /\ IsFiniteSet((S \ L) \cap H)
  BY FS_Subset
<1>2. H \ L = (H \ S) \cup ((S \ L) \cap H) /\ (H \ S) \cap ((S \ L) \cap H) = {}
  OBVIOUS
<1>3. Cardinality({}) = 0
  BY FS_EmptySet
<1>4. /\ Cardinality(H \ S) \in Nat /\ Cardinality((S \ L) \cap H) \in Nat
  BY <1>1, FS_CardinalityType
<1>5. Cardinality((H \ S) \cup ((S \ L) \cap H)) =
        Cardinality(H \ S) + Cardinality((S \ L) \cap H) - Cardinality((H \ S) \cap ((S \ L) \cap H))
  BY <1>1, FS_Union
<1>6. Cardinality(H \ L) = Cardinality(H \ S) + Cardinality((S \ L) \cap H) - 0
  BY <1>2, <1>3, <1>5
<1> QED
  BY <1>4, <1>6

LEMMA Admitted ==
  ASSUME Types, Ledger, NEW r \in Responses, Known(r), r \notin Cut,
         Cardinality(outstanding) < Capacity,
         outstanding' = outstanding \cup
           {[order |-> accepted, gen |-> responses[r], unit |-> r, sounding |-> FALSE]},
         accepted' = accepted + 1, Remember(r, accepted), calls' = {}, pc' = "get", target = 0,
         UNCHANGED <<genSeq, invalidated, responses, abandoned, current, target, cancels,
                     heard, sent>>
  PROVE  /\ Ledger'
         /\ outstanding' \subseteq Handle(Responses) /\ IsFiniteSet(outstanding')
         /\ Cardinality(outstanding') <= Capacity /\ accepted' \in Nat
         /\ handles' \in [Responses -> SUBSET Nat] /\ absorbed' \in [Responses -> Nat]
         /\ \A x \in Responses : Cardinality(Unheard(x)') =
                                 Cardinality(Unheard(x)) + IF x = r THEN 1 ELSE 0
<1> USE DEF Ledger
<1> DEFINE new == [order |-> accepted, gen |-> responses[r], unit |-> r, sounding |-> FALSE]
           kept == Live(handles[r])
<1>1. /\ new.order = accepted /\ new.gen = responses[r] /\ new.unit = r /\ new.sounding = FALSE
  OBVIOUS
<1>2. /\ outstanding' = outstanding \cup {new}
      /\ absorbed' = [absorbed EXCEPT ![r] = @ + Audible(r, handles[r] \ kept)]
      /\ handles' = [handles EXCEPT ![r] = kept \cup {accepted}]
  BY DEF Remember
<1>3. /\ kept \subseteq handles[r] /\ handles[r] \subseteq Nat
      /\ \A h \in outstanding : h.order \in handles[r] => h.order \in kept
  BY DEF Live, Types
<1>4. /\ accepted \in Nat /\ handles \in [Responses -> SUBSET Nat]
      /\ absorbed \in [Responses -> Nat] /\ IsFiniteSet(heard[r]) /\ IsFiniteSet(outstanding)
      /\ outstanding \subseteq Handle(Responses) /\ Cardinality(outstanding) \in Nat
      /\ Capacity \in Nat
  BY Bounds, FS_CardinalityType DEF Types
<1>5. new \in Handle(Responses)
  <2>1. responses[r] \in 1..genSeq /\ genSeq \in Nat
    BY DEF Types, Known
  <2>2. responses[r] \in Nat
    BY <2>1
  <2> QED
    BY <1>4, <2>2 DEF Handle
<1> HIDE DEF new, kept
<1>6. handles' \in [Responses -> SUBSET Nat] /\ handles'[r] = kept \cup {accepted}
      /\ \A x \in Responses : x # r => handles'[x] = handles[x]
  BY <1>2, <1>3, <1>4
<1>7. /\ IsFiniteSet(outstanding') /\ Cardinality(outstanding') <= Capacity
      /\ outstanding' \subseteq Handle(Responses)
  <2>1. /\ IsFiniteSet(outstanding')
        /\ Cardinality(outstanding') = IF new \in outstanding THEN Cardinality(outstanding)
                                       ELSE Cardinality(outstanding) + 1
    <3>1. /\ IsFiniteSet(outstanding \cup {new})
          /\ Cardinality(outstanding \cup {new}) =
               IF new \in outstanding THEN Cardinality(outstanding)
               ELSE Cardinality(outstanding) + 1
      BY <1>4, FS_AddElement
    <3> QED
      BY <1>2, <3>1
  <2>2. Cardinality(outstanding') <= Capacity
    BY <1>4, <2>1
  <2> QED
    BY <1>2, <1>4, <1>5, <2>1, <2>2
<1>8. /\ Audible(r, handles[r] \ kept) \in Nat
      /\ Cardinality(heard[r] \ kept) = Cardinality(heard[r] \ handles[r]) + Audible(r, handles[r] \ kept)
  BY <1>3, <1>4, Absorb DEF Audible
<1>9. absorbed' \in [Responses -> Nat] /\ absorbed'[r] = absorbed[r] + Audible(r, handles[r] \ kept)
      /\ \A x \in Responses : x # r => absorbed'[x] = absorbed[x]
  BY <1>2, <1>4, <1>8
<1>10. \A x \in Responses : \A o \in handles[x] \cup heard[x] : o < accepted
  BY DEF Numbered
<1>11. accepted \notin handles[r] /\ accepted \notin heard[r]
  BY <1>4, <1>10
<1>12. Cut' = Cut /\ \A x : Known(x)' <=> Known(x)
  BY DEF Cut, Known
<1>13. Numbered'
  <2>1. \A h \in outstanding : h.order < accepted /\ h.order \in Nat
    BY <1>4 DEF Numbered, Handle
  <2>2. \A h \in outstanding' : h.order < accepted'
    BY <1>1, <1>2, <1>4, <2>1
  <2>3. \A h1, h2 \in outstanding' : h1.order = h2.order => h1 = h2
    BY <1>1, <1>2, <1>4, <2>1 DEF Numbered
  <2>4. \A x \in Responses : \A o \in handles'[x] \cup heard'[x] : o < accepted'
    <3> SUFFICES ASSUME NEW x \in Responses, NEW o \in handles'[x] \cup heard'[x]
                 PROVE  o < accepted'
      OBVIOUS
    <3>1. heard'[x] = heard[x] /\ heard[x] \subseteq Nat /\ handles[x] \subseteq Nat
      BY DEF Types
    <3>2. o = accepted \/ o \in handles[x] \cup heard[x]
      BY <1>3, <1>6, <3>1
    <3>3. CASE o = accepted
      BY <3>3, <1>4
    <3>4. CASE o \in handles[x] \cup heard[x]
      <4>1. o \in Nat /\ o < accepted
        BY <1>10, <3>1, <3>4
      <4> QED
        BY <4>1, <1>4
    <3> QED
      BY <3>2, <3>3, <3>4
  <2> QED
    BY <2>2, <2>3, <2>4 DEF Numbered
<1>14. Generations'
  BY <1>12 DEF Generations
<1>15. CutIsOver'
  <2>1. \A x \in Cut : handles'[x] = handles[x]
    BY <1>6, CutAreResponses
  <2> QED
    BY <1>12, <2>1 DEF CutIsOver, OneCancelEach
<1>16. Calls'
  BY DEF Calls
<1>17. HandlesOwned'
  <2> SUFFICES ASSUME NEW h \in outstanding'
               PROVE  /\ Known(h.unit) /\ h.unit \notin Cut
                      /\ h.gen = responses[h.unit]
                      /\ h.order \in handles'[h.unit]
                      /\ h.sounding <=> h.order \in heard[h.unit]
    BY <1>12 DEF HandlesOwned
  <2>1. CASE h = new
    BY <2>1, <1>1, <1>6, <1>11
  <2>2. CASE h \in outstanding
    <3>1. h.unit \in Responses
      BY <2>2, <1>4 DEF Handle
    <3>2. /\ Known(h.unit) /\ h.unit \notin Cut
          /\ h.gen = responses[h.unit]
          /\ h.order \in handles[h.unit]
          /\ h.sounding <=> h.order \in heard[h.unit]
      BY <2>2 DEF HandlesOwned
    <3>3. h.order \in handles'[h.unit]
      BY <1>3, <1>6, <2>2, <3>1, <3>2
    <3> QED
      BY <3>2, <3>3
  <2> QED
    BY <1>2, <2>1, <2>2
<1>18. Accounted'
  <2>1. ASSUME NEW x \in Responses PROVE absorbed'[x] = Cardinality(heard[x] \ handles'[x])
    <3>1. CASE x # r
      BY <3>1, <1>6, <1>9 DEF Accounted
    <3>2. CASE x = r
      <4>1. heard[r] \ handles'[r] = heard[r] \ kept
        BY <1>6, <1>11
      <4> QED
        BY <3>2, <4>1, <1>8, <1>9 DEF Accounted
    <3> QED
      BY <3>1, <3>2
  <2> QED
    BY <2>1 DEF Accounted, CursorIsHeard
<1>19. ASSUME NEW x \in Responses
       PROVE  Cardinality(Unheard(x)') = Cardinality(Unheard(x)) + IF x = r THEN 1 ELSE 0
  <2>1. IsFiniteSet(Unheard(x)) /\ Cardinality(Unheard(x)) \in Nat
    BY CountsAreNumbers
  <2>2. CASE x # r
    <3>1. Unheard(x)' = Unheard(x)
      BY <1>1, <1>2, <2>2 DEF Unheard
    <3> QED
      BY <2>1, <2>2, <3>1
  <2>3. CASE x = r
    <3>1. Unheard(x)' = Unheard(x) \cup {new}
      BY <1>1, <1>2, <2>3 DEF Unheard
    <3>2. new \notin Unheard(x)
      BY <1>1, <1>4 DEF Unheard, Numbered
    <3> QED
      BY <2>1, <2>3, <3>1, <3>2, FS_AddElement
  <2> QED
    BY <2>2, <2>3
<1> QED
  BY <1>4, <1>6, <1>7, <1>9, <1>13, <1>14, <1>15, <1>16, <1>17, <1>18, <1>19

(* Audio of a response. *)
LEMMA AudioInv ==
  ASSUME S2SInv, TakeEvent, Head(events).kind = "audio", OnAudio(Head(events).resp)
  PROVE  S2SInv'
<1> USE DEF S2SInv
<1> DEFINE e == Head(events)
<1>r. PICK r : r = e.resp
  OBVIOUS
<1>0. /\ pc = "get" /\ events # <<>> /\ events' = Tail(events) /\ e.kind = "audio"
      /\ genSeq' = genSeq
      /\ UNCHANGED <<provider, target, ownership, heard, lost, sent>>
  BY DEF TakeEvent, OnAudio, ownership, ledgerVars
<1>1. /\ e \in Events /\ e \in Members(events)
      /\ events' \in Seq(Events) /\ Len(events') <= QueueSize + 1
      /\ Members(events) = Members(events') \cup {e}
      /\ QueueShape' /\ Cut' = Cut /\ calls = {} /\ target = 0
      /\ \A x : Open(x)' => Open(x)
      /\ \A x : /\ Cardinality(Queued(events', x)) \in Nat
                /\ Cardinality(Queued(events, x)) = Cardinality(Queued(events', x))
                     + IF e = Event("audio", x) THEN 1 ELSE 0
  BY <1>0, Taken
<1>2. r \in Responses /\ Known(r) /\ (IF r \in Cut THEN r \in abandoned ELSE current = r)
  BY <1>0, <1>r, HeadIsKnown
<1>3. \A x : e = Event("audio", x) <=> x = r
  BY <1>0, <1>1, <1>r DEF Event, Events
<1>o. OnAudio(r)
  BY <1>r
<1> HIDE DEF e
<1>4. \A x : Known(x)' <=> Known(x)
  BY <1>0 DEF Known, ownership
<1>5. Announced' /\ OpenOnes'
  <2>1. \A x : Event("started", x) # e /\ Event("speech", x) # e
    BY <1>0 DEF Event
  <2>2. ASSUME NEW x \in Responses, Open(x)'
        PROVE  Known(x)' \/ Event("started", x) \in Members(events')
    BY <1>1, <1>4, <2>1, <2>2 DEF Announced
  <2>3. Announced'
    BY <1>0, <1>1, <1>4, <2>1, <2>2, StillAnnounced DEF ownership
  <2> QED
    BY <1>0, <1>1, <1>4, <2>3 DEF OpenOnes, ownership
<1>6. CASE r \in abandoned
  <2>1. pc' = pc /\ UNCHANGED <<ledgerVars, ownership, receipts>>
    BY <1>0, <1>6, <1>o DEF OnAudio, receipts
  <2>2. Types'
    BY <1>0, <1>1, <2>1 DEF Types, ledgerVars, provider, ownership, receipts
  <2>3. Ledger'
    BY <1>0, <2>1, LedgerStays DEF ownership, provider
  <2>4. AllIsThere'
    <3>1. r \in Cut
      BY <1>6 DEF Ledger, CutIsOver
    <3> QED
      BY <1>0, <1>3, <2>1, <3>1, StillThere DEF e, receipts
  <2> QED
    BY <1>0, <1>1, <1>5, <2>1, <2>2, <2>3, <2>4 DEF QueueOver, FailsForCause, Refuses
<1>7. CASE r \notin abandoned
  <2>1. /\ r \notin Cut /\ current = r /\ r # 0 /\ responses[r] \notin invalidated
        /\ responses[r] \in Nat
    <3>1. r # 0 /\ responses[r] \in 1..genSeq /\ genSeq \in Nat
      BY <1>2, Bounds DEF Responses, Types, Known
    <3> QED
      BY <1>2, <1>7, <3>1 DEF Ledger, Generations, Known
  <2>2. Schedule(responses[r], r)
        /\ IF calls' # calls
             THEN pc' = "audio" /\ UNCHANGED <<handles, absorbed>>
             ELSE /\ pc' = "get"
                  /\ IF accepted' > accepted THEN Remember(r, accepted)
                     ELSE UNCHANGED <<handles, absorbed>>
    BY <1>2, <1>7, <1>o DEF OnAudio
  <2>3. ASSUME NEW x \in Responses \ Cut
        PROVE  /\ audio[x] = Cardinality(Queued(events, x)) + Cardinality(Blocked(x))
                             + Cardinality(Unheard(x)) + Cardinality(heard[x])
               /\ Cardinality(Queued(events', x)) \in Nat /\ Cardinality(Blocked(x)) = 0
               /\ Cardinality(Unheard(x)) \in Nat /\ Cardinality(heard[x]) \in Nat
               /\ Cardinality(Queued(events, x)) =
                    Cardinality(Queued(events', x)) + IF x = r THEN 1 ELSE 0
    <3>1. Blocked(x) = {} /\ Cardinality({}) = 0
      BY <1>1, FS_EmptySet DEF Blocked
    <3> QED
      BY <1>1, <1>3, <3>1, CountsAreNumbers DEF AllIsThere, Ledger
  <2>4. CASE Schedulable(responses[r])
    <3>1. /\ Cardinality(outstanding) < Capacity
          /\ outstanding' = outstanding \cup
               {[order |-> accepted, gen |-> responses[r], unit |-> r, sounding |-> FALSE]}
          /\ accepted' = accepted + 1 /\ calls' = calls /\ invalidated' = invalidated
      BY <2>1, <2>2, <2>4 DEF Schedule, Schedulable, Admit
    <3>2. pc' = "get" /\ Remember(r, accepted)
      <4>1. accepted' > accepted
        BY <3>1 DEF Types
      <4> QED
        BY <2>2, <3>1, <4>1
    <3>3. /\ Ledger'
          /\ outstanding' \subseteq Handle(Responses) /\ IsFiniteSet(outstanding')
          /\ Cardinality(outstanding') <= Capacity /\ accepted' \in Nat
          /\ handles' \in [Responses -> SUBSET Nat] /\ absorbed' \in [Responses -> Nat]
          /\ \A x \in Responses : Cardinality(Unheard(x)') =
                                  Cardinality(Unheard(x)) + IF x = r THEN 1 ELSE 0
      BY <1>0, <1>1, <1>2, <2>1, <3>1, <3>2, Admitted DEF ownership, provider
    <3>4. Types'
      BY <1>0, <1>1, <3>1, <3>2, <3>3 DEF Types, provider, ownership
    <3>5. AllIsThere'
      <4> SUFFICES ASSUME NEW x \in Responses \ Cut
                   PROVE  audio[x] = Cardinality(Queued(events', x)) + Cardinality(Blocked(x)')
                                      + Cardinality(Unheard(x)') + Cardinality(heard[x])
        BY <1>0, <1>1 DEF AllIsThere, provider
      <4>1. Blocked(x)' = Blocked(x)
        BY <3>1 DEF Blocked
      <4>2. Cardinality(Unheard(x)') = Cardinality(Unheard(x)) + IF x = r THEN 1 ELSE 0
        BY <3>3
      <4> QED
        BY <2>3, <4>1, <4>2
    <3> QED
      BY <1>1, <1>5, <3>2, <3>3, <3>4, <3>5 DEF QueueOver, FailsForCause, Refuses
  <2>5. CASE ~Schedulable(responses[r])
    <3> DEFINE c == [gen |-> responses[r], unit |-> r]
    <3>1. /\ calls' = {c} /\ pc' = "audio" /\ c.gen = responses[r] /\ c.unit = r
          /\ UNCHANGED <<outstanding, accepted, invalidated, handles, absorbed>>
      BY <1>1, <2>2, <2>5 DEF Schedule
    <3>2. c \in Call(Responses)
      BY <1>2, <2>1 DEF Call
    <3> HIDE DEF c
    <3>3. Types'
      BY <1>0, <1>1, <3>1, <3>2 DEF Types, provider, ownership
    <3>4. Ledger'
      <4> USE DEF Ledger
      <4>1. Calls'
        <5>1. current' = current /\ responses' = responses
          BY <1>0 DEF ownership
        <5> QED
          BY <2>1, <3>1, <5>1 DEF Calls
      <4>2. Numbered' /\ Generations' /\ HandlesOwned' /\ Accounted'
        BY <1>0, <1>1, <1>4, <3>1 DEF Numbered, Generations, HandlesOwned, Accounted,
                                      CursorIsHeard, ownership
      <4>3. CutIsOver'
        BY <1>0, <1>1, <1>4, <3>1 DEF CutIsOver, OneCancelEach, ownership, provider
      <4> QED
        BY <4>1, <4>2, <4>3
    <3>5. AllIsThere'
      <4> SUFFICES ASSUME NEW x \in Responses \ Cut
                   PROVE  audio[x] = Cardinality(Queued(events', x)) + Cardinality(Blocked(x)')
                                      + Cardinality(Unheard(x)') + Cardinality(heard[x])
        BY <1>0, <1>1 DEF AllIsThere, provider
      <4>1. Cardinality(Blocked(x)') = IF x = r THEN 1 ELSE 0
        <5>1. Blocked(x)' = IF x = r THEN {c} ELSE {}
          BY <3>1 DEF Blocked
        <5> QED
          BY <5>1, FS_EmptySet, FS_Singleton
      <4>2. Unheard(x)' = Unheard(x)
        BY <3>1 DEF Unheard
      <4> QED
        BY <2>3, <4>1, <4>2
    <3> QED
      BY <1>1, <1>5, <3>1, <3>3, <3>4, <3>5 DEF QueueOver, FailsForCause, Refuses
  <2> QED
    BY <2>4, <2>5
<1> QED
  BY <1>6, <1>7

LEMMA TakeEventInv == ASSUME S2SInv, TakeEvent PROVE S2SInv'
BY SpeechInv, StartedInv, AudioInv, DoneInv, StreamEndInv DEF TakeEvent, Ends

---------------------------------------------------------------------------
(* A step that leaves the queue, the responses and what is cut alone. *)
LEMMA QueueStays ==
  ASSUME S2SInv, Cut' = Cut,
         UNCHANGED <<provider, events, responses, abandoned, current, utterances>>
  PROVE  QueueShape' /\ Announced' /\ OpenOnes'
<1> USE DEF S2SInv, provider
<1>1. QueueShape'
  BY DEF QueueShape, Ended
<1>2. \A r : Known(r)' <=> Known(r)
  BY DEF Known
<1>3. \A r : Open(r)' <=> Open(r)
  BY DEF Open
<1>4. Announced'
  BY <1>2, <1>3 DEF Announced
<1>5. OpenOnes'
  BY <1>2, <1>3 DEF OpenOnes
<1> QED
  BY <1>1, <1>4, <1>5

LEMMA WakeScheduleInv == ASSUME S2SInv, WakeSchedule PROVE S2SInv'
<1> USE DEF S2SInv
<1>1. PICK c \in calls :
        /\ Resume(c)
        /\ pc' = IF pc \in {"audio", "wait"} THEN "get" ELSE pc
        /\ IF pc = "audio" /\ accepted' > accepted THEN Remember(c.unit, accepted)
           ELSE UNCHANGED <<handles, absorbed>>
        /\ UNCHANGED <<provider, events, interrupt, onsets, target, ownership, heard,
                       lost, sent>>
  BY DEF WakeSchedule
<1>2. /\ calls = {c} /\ calls' = {} /\ Schedulable(c.gen) /\ Admit(c.gen, c.unit)
      /\ UNCHANGED <<genSeq, invalidated>>
  BY <1>1 DEF Resume, Ledger, Calls
<1>3. \/ pc = "audio" /\ current # 0 /\ c.unit = current /\ c.gen = responses[current]
      \/ pc \in {"cut", "wait", "failed"} /\ c.gen \in invalidated /\ c.unit \in Cut
  BY <1>2 DEF Ledger, Calls
<1>4. Cut' = Cut /\ \A x : Known(x)' <=> Known(x)
  BY <1>1 DEF Cut, Known, ownership
<1>5. QueueShape' /\ Announced' /\ OpenOnes'
  BY <1>1, <1>4, QueueStays DEF ownership
<1>6. ASSUME NEW x \in Responses \ Cut
      PROVE  /\ audio[x] = Cardinality(Queued(events, x)) + Cardinality(Blocked(x))
                           + Cardinality(Unheard(x)) + Cardinality(heard[x])
             /\ Cardinality(Queued(events, x)) \in Nat
             /\ Cardinality(Blocked(x)) = IF x = c.unit THEN 1 ELSE 0
             /\ Cardinality(Blocked(x)') = 0
             /\ Cardinality(Unheard(x)) \in Nat /\ Cardinality(heard[x]) \in Nat
  <2>1. Blocked(x) = IF x = c.unit THEN {c} ELSE {}
    BY <1>2 DEF Blocked
  <2>2. Blocked(x)' = {}
    BY <1>2 DEF Blocked
  <2>3. Cardinality({}) = 0 /\ Cardinality({c}) = 1
    BY FS_EmptySet, FS_Singleton
  <2> QED
    BY <2>1, <2>2, <2>3, CountsAreNumbers DEF AllIsThere, Ledger
<1>7. CASE pc = "audio"
  <2>1. /\ current # 0 /\ c.unit = current /\ c.gen = responses[current]
        /\ current \in Responses /\ Known(current) /\ current \notin Cut /\ target = 0
        /\ c.gen \notin invalidated /\ current \in 0..MaxResponses
    <3>1. current # 0 /\ c.unit = current /\ c.gen = responses[current]
      BY <1>3, <1>7
    <3>2. current \in Responses /\ Known(current) /\ current \notin Cut /\ target = 0
      BY <3>1, <1>7, Bounds DEF Types, Responses, Ledger, CutIsOver
    <3> QED
      BY <3>1, <3>2 DEF Ledger, Generations, Known, Types
  <2> DEFINE r == current
  <2>2. /\ Cardinality(outstanding) < Capacity
        /\ outstanding' = outstanding \cup
             {[order |-> accepted, gen |-> responses[r], unit |-> r, sounding |-> FALSE]}
        /\ accepted' = accepted + 1
    BY <1>2, <2>1 DEF Schedulable, Admit
  <2>3. pc' = "get" /\ Remember(r, accepted)
    <3>1. accepted' > accepted
      BY <2>2 DEF Types
    <3> QED
      BY <1>1, <1>7, <2>1, <3>1
  <2>4. /\ Ledger'
        /\ outstanding' \subseteq Handle(Responses) /\ IsFiniteSet(outstanding')
        /\ Cardinality(outstanding') <= Capacity /\ accepted' \in Nat
        /\ handles' \in [Responses -> SUBSET Nat] /\ absorbed' \in [Responses -> Nat]
        /\ \A x \in Responses : Cardinality(Unheard(x)') =
                                Cardinality(Unheard(x)) + IF x = r THEN 1 ELSE 0
    BY <1>1, <1>2, <2>1, <2>2, <2>3, Admitted DEF ownership, provider
  <2>5. Types'
    BY <1>1, <1>2, <2>3, <2>4 DEF Types, provider, ownership
  <2>6. AllIsThere'
    <3> SUFFICES ASSUME NEW x \in Responses \ Cut
                 PROVE  audio[x] = Cardinality(Queued(events, x)) + Cardinality(Blocked(x)')
                                    + Cardinality(Unheard(x)') + Cardinality(heard[x])
      BY <1>1, <1>4 DEF AllIsThere, provider
    <3>1. Cardinality(Unheard(x)') = Cardinality(Unheard(x)) + IF x = c.unit THEN 1 ELSE 0
      BY <2>1, <2>4
    <3> QED
      BY <1>6, <3>1
  <2> QED
    BY <1>5, <2>3, <2>4, <2>5, <2>6 DEF QueueOver, FailsForCause, Refuses
<1>8. CASE pc \in {"cut", "wait", "failed"}
  <2>1. /\ c.gen \in invalidated /\ c.unit \in Cut
        /\ UNCHANGED <<outstanding, accepted, handles, absorbed, genSeq, invalidated>>
        /\ pc' = IF pc = "wait" THEN "get" ELSE pc
    BY <1>1, <1>2, <1>3, <1>8 DEF Admit
  <2>2. Types'
    BY <1>1, <1>2, <2>1, <1>8 DEF Types, provider, ownership
  <2>3. Ledger'
    <3> USE DEF Ledger
    <3>1. Calls'
      BY <1>2, <2>1, <1>8 DEF Calls
    <3>2. Numbered' /\ Generations' /\ HandlesOwned' /\ Accounted'
      BY <1>1, <1>4, <2>1 DEF Numbered, Generations, HandlesOwned, Accounted,
                              CursorIsHeard, ownership
    <3>3. CutIsOver'
      BY <1>1, <1>4, <1>8, <2>1 DEF CutIsOver, OneCancelEach, ownership, provider
    <3> QED
      BY <3>1, <3>2, <3>3
  <2>4. AllIsThere'
    <3> SUFFICES ASSUME NEW x \in Responses \ Cut
                 PROVE  audio[x] = Cardinality(Queued(events, x)) + Cardinality(Blocked(x)')
                                    + Cardinality(Unheard(x)') + Cardinality(heard[x])
      BY <1>1, <1>4 DEF AllIsThere, provider
    <3>1. Unheard(x)' = Unheard(x) /\ x # c.unit
      BY <2>1 DEF Unheard
    <3> QED
      BY <1>6, <3>1
  <2>5. FailsForCause'
    BY <1>1, <2>1 DEF FailsForCause, Refuses, Ended, provider
  <2> QED
    BY <1>5, <1>8, <2>1, <2>2, <2>3, <2>4, <2>5 DEF QueueOver
<1> QED
  BY <1>3, <1>7, <1>8

LEMMA FinishDrainInv == ASSUME S2SInv, FinishDrain PROVE S2SInv'
<1> USE DEF S2SInv
<1>1. /\ pc = "drain" /\ pc' = "done" /\ outstanding = {}
      /\ UNCHANGED <<ledgerVars, provider, events, target, ownership, receipts, sent>>
  BY DEF FinishDrain, Drained
<1>2. Cut' = Cut /\ \A x : Known(x)' <=> Known(x)
  BY <1>1 DEF Cut, Known, ownership
<1>3. QueueShape' /\ Announced' /\ OpenOnes'
  BY <1>1, <1>2, QueueStays DEF ownership
<1>4. Types'
  BY <1>1 DEF Types, ledgerVars, provider, ownership, receipts, Over
<1>5. QueueOver' /\ FailsForCause'
  BY <1>1 DEF QueueOver, FailsForCause, Refuses, Ended, ledgerVars, provider
<1>6. Ledger'
  <2> USE DEF Ledger
  <2>1. Calls'
    BY <1>1 DEF Calls, ledgerVars
  <2>2. Numbered' /\ Generations' /\ HandlesOwned' /\ Accounted'
    BY <1>1, <1>2 DEF Numbered, Generations, HandlesOwned, Accounted,
                      CursorIsHeard, ownership, ledgerVars, receipts
  <2>3. CutIsOver'
    BY <1>1, <1>2 DEF CutIsOver, OneCancelEach, ownership, provider, receipts
  <2> QED
    BY <2>1, <2>2, <2>3
<1>7. AllIsThere'
  <2>1. \A x \in Responses : Blocked(x)' = Blocked(x) /\ Unheard(x)' = Unheard(x)
    BY <1>1 DEF Blocked, Unheard, ledgerVars
  <2> QED
    BY <1>1, <1>2, <2>1 DEF AllIsThere, provider, receipts
<1> QED
  BY <1>3, <1>4, <1>5, <1>6, <1>7

---------------------------------------------------------------------------
(* Barge-in. *)

(* A set of responses that is not empty has a newest one. *)
LEMMA Newest ==
  ASSUME NEW T \in SUBSET Responses, T # {}
  PROVE  \E x \in T : \A y \in T : y <= x
<1> DEFINE R == {ss \in Nat \X Nat : ss[1] < ss[2]}
           D == {MaxResponses - x : x \in T}
<1>1. IsWellFoundedOn(R, Nat)
  BY NatLessThanWellFounded DEF OpToRel
<1>2. /\ D \subseteq Nat /\ D # {} /\ MaxResponses \in Nat
      /\ \A x \in T : x \in Nat /\ x <= MaxResponses /\ MaxResponses - x \in D
  <2>1. MaxResponses \in Nat /\ \A x \in T : x \in Nat /\ x <= MaxResponses
    BY Bounds DEF Responses
  <2>2. \A x \in T : MaxResponses - x \in D
    OBVIOUS
  <2>3. \A x \in T : MaxResponses - x \in Nat
    BY <2>1
  <2>4. D \subseteq Nat
    BY <2>3
  <2> QED
    BY <2>1, <2>2, <2>4
<1> HIDE DEF R
<1>3. PICK d \in D : \A y \in D : ~(<<y, d>> \in R)
  BY <1>1, <1>2, WFMin, Zenon
<1>4. \A y \in D : ~(y < d)
  BY <1>2, <1>3 DEF R
<1>5. PICK x \in T : d = MaxResponses - x
  BY <1>3
<1>6. \A y \in T : ~(MaxResponses - y < d)
  BY <1>4
<1> QED
  BY <1>2, <1>5, <1>6

(* What a barge-in cuts is a response that has not been cut; and there is  *)
(* one to cut as long as the sink holds a chunk.                           *)
LEMMA TargetIsUncut ==
  ASSUME S2SInv
  PROVE  /\ InterruptTarget # 0 =>
              /\ InterruptTarget \in Responses /\ Known(InterruptTarget)
              /\ InterruptTarget \notin Cut
              /\ current # 0 => InterruptTarget = current
         /\ InterruptTarget = 0 => current = 0 /\ outstanding = {}
<1> USE DEF S2SInv, Ledger
<1> DEFINE rs == {r \in Responses : Known(r) /\ r \notin abandoned /\ Live(handles[r]) # {}}
<1>1. CASE current # 0
  <2>1. InterruptTarget = current
    BY <1>1 DEF InterruptTarget
  <2>2. current \in Responses /\ Known(current) /\ current \notin Cut
    BY <1>1, Bounds DEF Types, Responses, CutIsOver
  <2> QED
    BY <1>1, <2>1, <2>2
<1>2. CASE current = 0
  <2>1. InterruptTarget = IF rs = {} THEN 0 ELSE CHOOSE r \in rs : \A x \in rs : x <= r
    BY <1>2 DEF InterruptTarget, Trailing
  <2>2. CASE rs = {}
    <3>1. ASSUME NEW h \in outstanding PROVE FALSE
      <4>1. /\ h.unit \in Responses /\ Known(h.unit) /\ h.unit \notin abandoned
            /\ h.order \in handles[h.unit]
        BY DEF HandlesOwned, CutIsOver, Types, Handle
      <4>2. h.order \in Live(handles[h.unit])
        BY <4>1 DEF Live
      <4> QED
        BY <2>2, <4>1, <4>2
    <3> QED
      BY <1>2, <2>1, <2>2, <3>1
  <2>3. CASE rs # {}
    <3>1. rs \in SUBSET Responses
      OBVIOUS
    <3> DEFINE r == CHOOSE r \in rs : \A x \in rs : x <= r
    <3>2. r \in rs
      <4> HIDE DEF rs
      <4>1. \E x \in rs : \A y \in rs : y <= x
        BY <2>3, <3>1, Newest
      <4> QED
        BY <4>1
    <3>3. InterruptTarget = r
      BY <2>1, <2>3
    <3> HIDE DEF r
    <3>4. r \in Responses /\ Known(r) /\ r \notin abandoned
      BY <3>2
    <3>5. r # 0 /\ r \notin Cut
      BY <3>4, Bounds DEF Responses, CutIsOver
    <3> QED
      BY <1>2, <3>3, <3>4, <3>5
  <2> QED
    BY <2>2, <2>3
<1> QED
  BY <1>1, <1>2

LEMMA IgnoreOnsetInv == ASSUME S2SInv, IgnoreOnset PROVE S2SInv'
<1>1. pc # "audio"
  <2>1. pc = "audio" => current # 0
    BY DEF S2SInv, Ledger, Calls
  <2> QED
    BY <2>1, TargetIsUncut DEF IgnoreOnset
<1> QED
  BY <1>1, S2SStays DEF IgnoreOnset

LEMMA BargeInInv == ASSUME S2SInv, BargeIn PROVE S2SInv'
<1> USE DEF S2SInv
<1>r. PICK r : r = InterruptTarget
  OBVIOUS
<1>0. /\ pc \in {"audio", "get", "drain"} /\ r # 0
      /\ target' = r /\ abandoned' = abandoned \cup {r}
      /\ current' = CurrentAfter(r) /\ Stop(responses[r])
      /\ absorbed' = [absorbed EXCEPT ![r] = @ + Audible(r, handles[r])]
      /\ handles' = [handles EXCEPT ![r] = {}]
      /\ pc' = IF pc = "drain" THEN "cutDrain" ELSE "cut"
      /\ UNCHANGED <<provider, events, responses, order, utterances, heard, sent>>
  BY <1>r DEF BargeIn, Observes
<1>1. /\ r \in Responses /\ Known(r) /\ r \notin Cut /\ (current # 0 => r = current)
      /\ current' = 0
  <2>1. r \in Responses /\ Known(r) /\ r \notin Cut /\ (current # 0 => r = current)
    BY <1>0, <1>r, TargetIsUncut
  <2> QED
    BY <1>0, <2>1 DEF CurrentAfter
<1>2. target = 0 /\ Cut' = Cut \cup {r} /\ r \notin cancels
  <2>1. target = 0
    BY <1>0 DEF Ledger, CutIsOver
  <2>2. r \notin cancels
    BY <1>1 DEF Ledger, CutIsOver, Cut
  <2> QED
    BY <1>0, <2>1, <2>2 DEF Cut
<1>3. \A x : Known(x)' <=> Known(x)
  BY <1>0 DEF Known
<1>4. \A x : Open(x)' <=> Open(x)
  BY <1>0 DEF Open, provider
<1>5. /\ outstanding' = {h \in outstanding : h.gen # responses[r]}
      /\ invalidated' = invalidated \cup {responses[r]}
      /\ UNCHANGED <<genSeq, accepted, calls>>
  BY <1>0 DEF Stop
<1>6. \A h \in outstanding : h.unit \in Responses /\ (h.gen = responses[r] <=> h.unit = r)
  <2>1. \A h \in outstanding : h.unit \in Responses /\ Known(h.unit) /\ h.gen = responses[h.unit]
    BY DEF Types, Handle, Ledger, HandlesOwned
  <2> QED
    BY <1>1, <2>1 DEF Ledger, Generations, Known
<1>7. QueueShape'
  BY <1>0 DEF QueueShape, provider, Ended
<1>8. QueueOver'
  BY <1>0 DEF QueueOver, provider, Ended
<1>9. Announced'
  <2>1. r <= made
    BY <1>1 DEF Announced
  <2> QED
    BY <1>0, <1>1, <1>2, <1>3, <1>4, <2>1 DEF Announced, provider
<1>10. OpenOnes'
  BY <1>0, <1>1, <1>2, <1>3, <1>4 DEF OpenOnes
<1>11. /\ handles' \in [Responses -> SUBSET Nat] /\ handles'[r] = {}
       /\ \A x \in Responses : x # r => handles'[x] = handles[x]
  BY <1>0, <1>1 DEF Types
<1>12. /\ Audible(r, handles[r]) \in Nat
       /\ Cardinality(heard[r]) = Cardinality(heard[r] \ handles[r]) + Audible(r, handles[r])
  <2>1. IsFiniteSet(heard[r])
    BY <1>1 DEF Types
  <2>2. /\ Cardinality((handles[r] \ {}) \cap heard[r]) \in Nat
        /\ Cardinality(heard[r] \ {}) = Cardinality(heard[r] \ handles[r])
                                        + Cardinality((handles[r] \ {}) \cap heard[r])
    BY <2>1, Absorb
  <2>3. heard[r] \ {} = heard[r] /\ handles[r] \ {} = handles[r]
    OBVIOUS
  <2> QED
    BY <2>2, <2>3 DEF Audible
<1>13. /\ absorbed' \in [Responses -> Nat] /\ absorbed'[r] = absorbed[r] + Audible(r, handles[r])
       /\ \A x \in Responses : x # r => absorbed'[x] = absorbed[x]
  BY <1>0, <1>1, <1>12 DEF Types
<1>14. Types'
  <2>1. outstanding' \subseteq Handle(Responses) /\ IsFiniteSet(outstanding')
        /\ Cardinality(outstanding') <= Capacity
    <3>1. outstanding' \subseteq outstanding /\ IsFiniteSet(outstanding)
      BY <1>5 DEF Types
    <3>2. /\ IsFiniteSet(outstanding') /\ Cardinality(outstanding') <= Cardinality(outstanding)
          /\ Cardinality(outstanding') \in Nat /\ Cardinality(outstanding) \in Nat
      BY <3>1, FS_Subset, FS_CardinalityType
    <3>3. outstanding \subseteq Handle(Responses) /\ Cardinality(outstanding) <= Capacity
      BY DEF Types
    <3>4. Cardinality(outstanding') <= Capacity
      BY <3>2, <3>3, Bounds
    <3> QED
      BY <3>1, <3>2, <3>3, <3>4
  <2>2. target' \in 0..MaxResponses /\ current' \in 0..MaxResponses
    BY <1>0, <1>1, Bounds DEF Responses
  <2>3. /\ genSeq' \in Nat /\ accepted' \in Nat /\ calls' \subseteq Call(Responses)
        /\ abandoned' \subseteq Responses
        /\ responses' \in [DOMAIN responses' -> 1..genSeq'] /\ DOMAIN responses' \subseteq Responses
    BY <1>0, <1>1, <1>5 DEF Types
  <2> QED
    BY <1>0, <1>11, <1>13, <2>1, <2>2, <2>3 DEF Types, provider
<1>15. Ledger'
  <2> USE DEF Ledger
  <2>1. Numbered'
    <3>1. \A x \in Responses : handles'[x] \subseteq handles[x]
      BY <1>11
    <3> QED
      BY <1>0, <1>5, <3>1 DEF Numbered
  <2>2. Generations'
    <3>1. invalidated' \subseteq 1..genSeq'
      BY <1>1, <1>5 DEF Generations, Types, Known
    <3>2. \A x \in DOMAIN responses : responses[x] \in invalidated' <=> x \in Cut \cup {r}
      BY <1>1, <1>5 DEF Generations, Known
    <3> QED
      BY <1>0, <1>2, <3>1, <3>2 DEF Generations
  <2>3. CutIsOver'
    <3>1. \A x \in Cut' : handles'[x] = {} /\ (Known(x)' => x \in abandoned')
      BY <1>0, <1>1, <1>2, <1>3, <1>11, CutAreResponses DEF CutIsOver
    <3>2. abandoned' \subseteq Cut' /\ target' \notin cancels /\ current' = 0
          /\ pc' \in {"cut", "cutDrain"}
      BY <1>0, <1>1, <1>2 DEF CutIsOver
    <3> QED
      BY <1>0, <3>1, <3>2 DEF CutIsOver, OneCancelEach, provider
  <2>4. Calls'
    <3>1. ASSUME NEW c \in calls
          PROVE  pc' = "cut" /\ c.gen \in invalidated' /\ c.unit \in Cut'
      <4>1. pc = "audio" /\ current # 0 /\ c.unit = current /\ c.gen = responses[current]
        BY <1>0 DEF Calls
      <4> QED
        BY <1>0, <1>1, <1>2, <1>5, <4>1
    <3> QED
      BY <1>0, <1>5, <3>1 DEF Calls
  <2>5. HandlesOwned'
    <3> SUFFICES ASSUME NEW h \in outstanding, h.gen # responses[r]
                 PROVE  /\ Known(h.unit) /\ h.unit \notin Cut \cup {r}
                        /\ h.gen = responses[h.unit]
                        /\ h.order \in handles'[h.unit]
                        /\ h.sounding <=> h.order \in heard[h.unit]
      BY <1>0, <1>2, <1>3, <1>5 DEF HandlesOwned
    <3>1. h.unit # r /\ h.unit \in Responses
      BY <1>6
    <3> QED
      BY <1>11, <3>1 DEF HandlesOwned
  <2>6. Accounted'
    <3>1. ASSUME NEW x \in Responses PROVE absorbed'[x] = Cardinality(heard[x] \ handles'[x])
      <4>1. CASE x # r
        BY <4>1, <1>11, <1>13 DEF Accounted
      <4>2. CASE x = r
        <5>1. heard[r] \ {} = heard[r]
          OBVIOUS
        <5> QED
          BY <4>2, <5>1, <1>1, <1>11, <1>12, <1>13 DEF Accounted
      <4> QED
        BY <4>1, <4>2
    <3> QED
      BY <1>0, <3>1 DEF Accounted, CursorIsHeard
  <2> QED
    BY <2>1, <2>2, <2>3, <2>4, <2>5, <2>6
<1>16. AllIsThere'
  <2> SUFFICES ASSUME NEW x \in Responses \ (Cut \cup {r})
               PROVE  audio[x] = Cardinality(Queued(events, x)) + Cardinality(Blocked(x)')
                                  + Cardinality(Unheard(x)') + Cardinality(heard[x])
    BY <1>0, <1>2 DEF AllIsThere, provider
  <2>1. Blocked(x)' = Blocked(x) /\ Unheard(x)' = Unheard(x)
    BY <1>5, <1>6 DEF Blocked, Unheard
  <2> QED
    BY <2>1 DEF AllIsThere
<1>17. FailsForCause'
  BY <1>0 DEF FailsForCause, Refuses
<1> QED
  BY <1>7, <1>8, <1>9, <1>10, <1>14, <1>15, <1>16, <1>17

(* The provider is told: what is cut is the same, and it is told once.     *)
LEMMA TellProviderInv == ASSUME S2SInv, TellProvider PROVE S2SInv'
<1> USE DEF S2SInv
<1> DEFINE m == [resp |-> target, heard |-> absorbed[target]]
           n == Len(sent)
<1>0. /\ pc \in {"cut", "cutDrain"} /\ target # 0
      /\ sent' = Append(sent, m) /\ cancels' = cancels \cup {target} /\ target' = 0
      /\ UNCHANGED <<ledgerVars, active, made, audio, refuses, faulted, events, pc, ownership, receipts>>
  BY DEF TellProvider
<1>1. target \in Responses /\ target \in Cut /\ target \notin cancels
  BY <1>0, Bounds DEF Types, Responses, Cut, Ledger, CutIsOver
<1>2. /\ m.resp = target /\ m.heard = absorbed[target] /\ m \in [resp : Responses, heard : Nat]
  BY <1>1 DEF Types
<1>3. /\ n \in Nat /\ DOMAIN sent = 1..n /\ DOMAIN sent' = 1..(n + 1)
      /\ \A i \in 1..n : sent'[i] = sent[i]
      /\ sent'[n + 1] = m
      /\ sent' \in Seq([resp : Responses, heard : Nat])
  <2>1. sent \in Seq([resp : Responses, heard : Nat])
    BY DEF Types
  <2>2. n \in Nat /\ DOMAIN sent = 1..n
    BY <2>1, LenProperties
  <2>3. /\ sent' \in Seq([resp : Responses, heard : Nat]) /\ Len(sent') = n + 1
        /\ \A i \in 1..n : sent'[i] = sent[i]
        /\ sent'[n + 1] = m
    BY <1>0, <1>2, <2>1, AppendProperties
  <2>4. DOMAIN sent' = 1..(n + 1)
    BY <2>3, LenProperties
  <2> QED
    BY <2>2, <2>3, <2>4
<1> HIDE DEF m, n
<1>4. \A i \in 1..(n + 1) : i \in 1..n \/ i = n + 1
  BY <1>3
<1>4a. 1..n \subseteq 1..(n + 1) /\ n + 1 \in 1..(n + 1) /\ n + 1 \notin 1..n
  BY <1>3
<1>5. {sent'[i].resp : i \in DOMAIN sent'} = {sent[i].resp : i \in DOMAIN sent} \cup {target}
  BY <1>2, <1>3, <1>4, <1>4a
<1>6. Cut' = Cut /\ \A x : Known(x)' <=> Known(x)
  BY <1>0, <1>5 DEF Cut, Known, ownership
<1>7. \A x : Open(x)' <=> Open(x)
  BY <1>0 DEF Open
<1>8. QueueShape' /\ QueueOver'
  BY <1>0 DEF QueueShape, QueueOver, Ended, ledgerVars
<1>9. Announced'
  BY <1>0, <1>6, <1>7 DEF Announced, ownership
<1>10. OpenOnes'
  BY <1>0, <1>6, <1>7 DEF OpenOnes, ownership
<1>11. Types'
  <2>1. cancels' \subseteq Responses /\ target' \in 0..MaxResponses
    BY <1>0, <1>1, Bounds DEF Types
  <2> QED
    BY <1>0, <1>3, <2>1 DEF Types, ledgerVars, ownership, receipts
<1>12. Ledger'
  <2> USE DEF Ledger
  <2>1. OneCancelEach'
    <3> SUFFICES ASSUME NEW i \in 1..(n + 1), NEW j \in 1..(n + 1), sent'[i].resp = sent'[j].resp
                 PROVE  i = j
      BY <1>3 DEF OneCancelEach
    <3>1. \A x \in 1..n : sent'[x].resp = sent[x].resp /\ sent[x].resp # target
      BY <1>1, <1>3 DEF CutIsOver
    <3>2. sent'[n + 1].resp = target
      BY <1>2, <1>3
    <3>3. CASE i \in 1..n /\ j \in 1..n
      BY <1>3, <3>1, <3>3 DEF CutIsOver, OneCancelEach
    <3> QED
      BY <1>4, <3>1, <3>2, <3>3
  <2>2. CutIsOver'
    <3>1. cancels' = {sent'[i].resp : i \in DOMAIN sent'}
      BY <1>0, <1>5 DEF CutIsOver
    <3>2. /\ abandoned' \subseteq Cut' /\ target' = 0
          /\ \A x \in Cut' : handles'[x] = {} /\ (Known(x)' => x \in abandoned')
          /\ current' # 0 => Known(current)' /\ current' \notin Cut'
      BY <1>0, <1>6 DEF CutIsOver, ownership, receipts, Known
    <3> QED
      BY <2>1, <3>1, <3>2 DEF CutIsOver
  <2>3. Numbered' /\ Generations' /\ Calls' /\ HandlesOwned'
    BY <1>0, <1>6 DEF Numbered, Generations, Calls, HandlesOwned, ownership, ledgerVars,
                      receipts, Known
  <2>4. CursorIsHeard'
    <3>1. absorbed[target] = Cardinality(heard[target])
      <4>1. handles[target] = {} /\ heard[target] \ {} = heard[target]
        BY <1>1 DEF CutIsOver
      <4> QED
        BY <1>1, <4>1 DEF Accounted
    <3>2. heard' = heard
      BY <1>0 DEF receipts
    <3>3. \A i \in 1..n : sent'[i].heard = Cardinality(heard[sent'[i].resp])
      BY <1>3 DEF Accounted, CursorIsHeard
    <3>4. sent'[n + 1].heard = Cardinality(heard[sent'[n + 1].resp])
      BY <1>2, <1>3, <3>1
    <3> QED
      BY <1>3, <1>4, <3>2, <3>3, <3>4 DEF CursorIsHeard
  <2>5. Accounted'
    BY <1>0, <2>4 DEF Accounted, receipts
  <2> QED
    BY <2>2, <2>3, <2>5
<1>13. AllIsThere'
  <2>1. \A x \in Responses : Blocked(x)' = Blocked(x) /\ Unheard(x)' = Unheard(x)
    BY <1>0 DEF Blocked, Unheard, ledgerVars
  <2> QED
    BY <1>0, <1>6, <2>1 DEF AllIsThere, receipts
<1>14. FailsForCause'
  BY <1>0 DEF FailsForCause, Refuses
<1> QED
  BY <1>8, <1>9, <1>10, <1>11, <1>12, <1>13, <1>14

LEMMA InterruptRefusedInv == ASSUME S2SInv, InterruptRefused PROVE S2SInv'
<1> USE DEF S2SInv
<1>1. /\ pc \in {"cut", "cutDrain"} /\ target # 0 /\ Refuses
      /\ pc' = "failed"
      /\ UNCHANGED <<ledgerVars, provider, events, target, ownership, receipts, sent>>
  BY DEF InterruptRefused
<1>2. Cut' = Cut /\ \A x : Known(x)' <=> Known(x)
  BY <1>1 DEF Cut, Known, ownership
<1>3. QueueShape' /\ Announced' /\ OpenOnes'
  BY <1>1, <1>2, QueueStays DEF ownership
<1>4. Types'
  BY <1>1 DEF Types, ledgerVars, provider, ownership, receipts, Over
<1>5. QueueOver' /\ FailsForCause'
  BY <1>1 DEF QueueOver, FailsForCause, Refuses, Ended, ledgerVars, provider
<1>6. Ledger'
  <2> USE DEF Ledger
  <2>1. Calls'
    BY <1>1, <1>2 DEF Calls, ledgerVars
  <2>2. Numbered' /\ Generations' /\ HandlesOwned' /\ Accounted'
    BY <1>1, <1>2 DEF Numbered, Generations, HandlesOwned, Accounted,
                      CursorIsHeard, ownership, ledgerVars, receipts
  <2>3. CutIsOver'
    BY <1>1, <1>2 DEF CutIsOver, OneCancelEach, ownership, provider, receipts
  <2> QED
    BY <2>1, <2>2, <2>3
<1>7. AllIsThere'
  <2>1. \A x \in Responses : Blocked(x)' = Blocked(x) /\ Unheard(x)' = Unheard(x)
    BY <1>1 DEF Blocked, Unheard, ledgerVars
  <2> QED
    BY <1>1, <1>2, <2>1 DEF AllIsThere, provider, receipts
<1> QED
  BY <1>3, <1>4, <1>5, <1>6, <1>7

LEMMA EndBargeInInv == ASSUME S2SInv, EndBargeIn PROVE S2SInv'
<1> USE DEF S2SInv
<1>1. /\ pc \in {"cut", "cutDrain"} /\ target = 0
      /\ pc' = IF pc = "cutDrain" THEN "drain" ELSE IF calls # {} THEN "wait" ELSE "get"
      /\ UNCHANGED <<ledgerVars, provider, events, target, ownership, receipts, sent>>
  BY DEF EndBargeIn, Back
<1>2. Cut' = Cut /\ \A x : Known(x)' <=> Known(x)
  BY <1>1 DEF Cut, Known, ownership
<1>3. QueueShape' /\ Announced' /\ OpenOnes'
  BY <1>1, <1>2, QueueStays DEF ownership
<1>4. Types'
  BY <1>1 DEF Types, ledgerVars, provider, ownership, receipts, Over
<1>5. QueueOver' /\ FailsForCause'
  BY <1>1 DEF QueueOver, FailsForCause, Refuses, Ended, ledgerVars, provider
<1>6. Ledger'
  <2> USE DEF Ledger
  <2>1. Calls'
    BY <1>1, <1>2 DEF Calls, ledgerVars
  <2>2. Numbered' /\ Generations' /\ HandlesOwned' /\ Accounted'
    BY <1>1, <1>2 DEF Numbered, Generations, HandlesOwned, Accounted,
                      CursorIsHeard, ownership, ledgerVars, receipts
  <2>3. CutIsOver'
    BY <1>1, <1>2 DEF CutIsOver, OneCancelEach, ownership, provider, receipts
  <2> QED
    BY <2>1, <2>2, <2>3
<1>7. AllIsThere'
  <2>1. \A x \in Responses : Blocked(x)' = Blocked(x) /\ Unheard(x)' = Unheard(x)
    BY <1>1 DEF Blocked, Unheard, ledgerVars
  <2> QED
    BY <1>1, <1>2, <2>1 DEF AllIsThere, provider, receipts
<1> QED
  BY <1>3, <1>4, <1>5, <1>6, <1>7

---------------------------------------------------------------------------
(* The sink. *)

LEMMA SoundInv == ASSUME S2SInv, NEW h \in outstanding, Sound(h) PROVE S2SInv'
<1> USE DEF S2SInv
<1> DEFINE on == [h EXCEPT !.sounding = TRUE]
<1>0. /\ ~h.sounding /\ outstanding' = (outstanding \ {h}) \cup {on}
      /\ heard' = [heard EXCEPT ![h.unit] = @ \cup {h.order}]
      /\ UNCHANGED <<genSeq, invalidated, accepted, calls, provider, events, pc, target,
                     ownership, handles, absorbed, sent>>
  BY DEF Sound, StartSounding
<1>u. PICK u : u = h.unit
  OBVIOUS
<1>1. /\ u \in Responses /\ Known(u) /\ u \notin Cut /\ h.order \in Nat
      /\ h.order \in handles[u] /\ h.order \notin heard[u] /\ h \in Handle(Responses)
      /\ h.order < accepted
  BY <1>0, <1>u DEF Types, Handle, Ledger, HandlesOwned, Numbered
<1>2. /\ on \in Handle(Responses) /\ on.order = h.order /\ on.gen = h.gen /\ on.unit = h.unit
      /\ on.sounding = TRUE
  BY <1>1 DEF Handle
<1> HIDE DEF on
<1>3. /\ heard' \in [Responses -> SUBSET Nat] /\ heard'[u] = heard[u] \cup {h.order}
      /\ \A x \in Responses : x # u => heard'[x] = heard[x]
      /\ \A x \in Responses : IsFiniteSet(heard'[x])
      /\ Cardinality(heard'[u]) = Cardinality(heard[u]) + 1
      /\ Cardinality(heard[u]) \in Nat
  <2>1. /\ heard' \in [Responses -> SUBSET Nat] /\ heard'[u] = heard[u] \cup {h.order}
        /\ \A x \in Responses : x # u => heard'[x] = heard[x]
    BY <1>0, <1>1, <1>u DEF Types
  <2>2. IsFiniteSet(heard[u]) /\ \A x \in Responses : IsFiniteSet(heard[x])
    BY <1>1 DEF Types
  <2>3. /\ IsFiniteSet(heard[u] \cup {h.order}) /\ Cardinality(heard[u]) \in Nat
        /\ Cardinality(heard[u] \cup {h.order}) = Cardinality(heard[u]) + 1
    BY <1>1, <2>2, FS_AddElement, FS_CardinalityType
  <2> QED
    BY <2>1, <2>2, <2>3
<1>4. Cut' = Cut /\ \A x : Known(x)' <=> Known(x)
  BY <1>0 DEF Cut, Known, ownership
<1>5. QueueShape' /\ Announced' /\ OpenOnes'
  BY <1>0, <1>4, QueueStays DEF ownership
<1>6. QueueOver' /\ FailsForCause'
  BY <1>0 DEF QueueOver, FailsForCause, Refuses, provider, Ended
<1>7. Types'
  <2>1. /\ outstanding' \subseteq Handle(Responses) /\ IsFiniteSet(outstanding')
        /\ Cardinality(outstanding') <= Capacity
    <3>1. IsFiniteSet(outstanding) /\ outstanding \subseteq Handle(Responses)
          /\ Cardinality(outstanding) <= Capacity /\ Cardinality(outstanding) \in Nat
      BY FS_CardinalityType DEF Types
    <3>2. IsFiniteSet(outstanding \ {h})
          /\ Cardinality(outstanding \ {h}) = Cardinality(outstanding) - 1
      BY <3>1, FS_RemoveElement
    <3>3. IsFiniteSet((outstanding \ {h}) \cup {on})
          /\ Cardinality((outstanding \ {h}) \cup {on}) =
               IF on \in outstanding \ {h} THEN Cardinality(outstanding \ {h})
               ELSE Cardinality(outstanding \ {h}) + 1
      BY <3>2, FS_AddElement
    <3>4. Cardinality((outstanding \ {h}) \cup {on}) <= Capacity
      BY <3>1, <3>2, <3>3, Bounds
    <3> QED
      BY <1>0, <1>2, <3>1, <3>3, <3>4
  <2> QED
    BY <1>0, <1>3, <2>1 DEF Types, provider, ownership
<1>8. Ledger'
  <2> USE DEF Ledger
  <2>1. Numbered'
    <3>1. \A h1, h2 \in outstanding' : h1.order = h2.order => h1 = h2
      BY <1>0, <1>2 DEF Numbered
    <3>2. \A g \in outstanding' : g.order < accepted
      BY <1>0, <1>1, <1>2 DEF Numbered
    <3>3. \A x \in Responses : \A o \in handles[x] \cup heard'[x] : o < accepted
      BY <1>1, <1>3 DEF Numbered
    <3> QED
      BY <1>0, <3>1, <3>2, <3>3 DEF Numbered
  <2>2. Generations' /\ Calls'
    BY <1>0, <1>4 DEF Generations, Calls, ownership
  <2>3. CutIsOver'
    BY <1>0, <1>4 DEF CutIsOver, OneCancelEach, ownership, provider
  <2>4. HandlesOwned'
    <3> SUFFICES ASSUME NEW g \in outstanding'
                 PROVE  /\ Known(g.unit) /\ g.unit \notin Cut
                        /\ g.gen = responses[g.unit]
                        /\ g.order \in handles[g.unit]
                        /\ g.sounding <=> g.order \in heard'[g.unit]
      BY <1>0, <1>4 DEF HandlesOwned, ownership
    <3>1. CASE g = on
      BY <1>1, <1>2, <1>3, <1>u, <3>1 DEF HandlesOwned
    <3>2. CASE g \in outstanding /\ g # h
      <4>1. g.unit \in Responses /\ g.order # h.order
        BY <3>2 DEF Types, Handle, Numbered
      <4>2. g.order \in heard'[g.unit] <=> g.order \in heard[g.unit]
        BY <1>3, <4>1
      <4> QED
        BY <3>2, <4>2 DEF HandlesOwned
    <3> QED
      BY <1>0, <3>1, <3>2
  <2>5. Accounted'
    <3>1. \A x \in Responses : heard'[x] \ handles[x] = heard[x] \ handles[x]
      BY <1>1, <1>3
    <3>2. \A i \in DOMAIN sent : sent[i].resp \in Responses /\ sent[i].resp # u
      <4>1. \A i \in DOMAIN sent : sent[i].resp \in Cut
        BY DEF Cut
      <4> QED
        BY <4>1, <1>1, CutAreResponses
    <3> QED
      BY <1>0, <1>3, <3>1, <3>2 DEF Accounted, CursorIsHeard
  <2> QED
    BY <2>1, <2>2, <2>3, <2>4, <2>5
<1>9. AllIsThere'
  <2> SUFFICES ASSUME NEW x \in Responses \ Cut
               PROVE  audio[x] = Cardinality(Queued(events, x)) + Cardinality(Blocked(x)')
                                  + Cardinality(Unheard(x)') + Cardinality(heard'[x])
    BY <1>0, <1>4 DEF AllIsThere, provider
  <2>1. /\ audio[x] = Cardinality(Queued(events, x)) + Cardinality(Blocked(x))
                        + Cardinality(Unheard(x)) + Cardinality(heard[x])
        /\ Cardinality(Queued(events, x)) \in Nat /\ Cardinality(Blocked(x)) \in Nat
        /\ IsFiniteSet(Unheard(x)) /\ Cardinality(Unheard(x)) \in Nat
        /\ Cardinality(heard[x]) \in Nat
    BY CountsAreNumbers DEF AllIsThere, Ledger
  <2>2. Blocked(x)' = Blocked(x)
    BY <1>0 DEF Blocked
  <2>3. CASE x # u
    <3>1. Unheard(x)' = Unheard(x)
      BY <1>0, <1>2, <1>u, <2>3 DEF Unheard
    <3> QED
      BY <1>3, <2>1, <2>2, <2>3, <3>1
  <2>4. CASE x = u
    <3>1. Unheard(x)' = Unheard(x) \ {h} /\ h \in Unheard(x)
      BY <1>0, <1>2, <1>u, <2>4 DEF Unheard
    <3>2. Cardinality(Unheard(x) \ {h}) = Cardinality(Unheard(x)) - 1
      BY <2>1, <3>1, FS_RemoveElement
    <3>3. /\ Cardinality(Unheard(x)') = Cardinality(Unheard(x)) - 1
          /\ Cardinality(heard'[x]) = Cardinality(heard[x]) + 1
      BY <1>3, <2>4, <3>1, <3>2
    <3> QED
      BY <2>1, <2>2, <3>3
  <2> QED
    BY <2>3, <2>4
<1> QED
  BY <1>5, <1>6, <1>7, <1>8, <1>9

LEMMA QuietInv == ASSUME S2SInv, NEW h \in outstanding, Quiet(h) PROVE S2SInv'
<1> USE DEF S2SInv
<1>1. /\ h.sounding /\ outstanding' = outstanding \ {h}
      /\ UNCHANGED <<genSeq, invalidated, accepted, calls, provider, events, pc, target,
                     ownership, receipts, sent>>
  BY DEF Quiet, FinishSounding
<1>2. Cut' = Cut /\ \A x : Known(x)' <=> Known(x)
  BY <1>1 DEF Cut, Known, ownership
<1>3. QueueShape' /\ Announced' /\ OpenOnes'
  BY <1>1, <1>2, QueueStays DEF ownership
<1>4. Types'
  <2>1. IsFiniteSet(outstanding') /\ Cardinality(outstanding') <= Capacity
    <3>1. IsFiniteSet(outstanding) /\ Cardinality(outstanding) \in Nat
          /\ Cardinality(outstanding) <= Capacity
      BY FS_CardinalityType DEF Types
    <3>2. /\ IsFiniteSet(outstanding \ {h})
          /\ Cardinality(outstanding \ {h}) = Cardinality(outstanding) - 1
      BY <3>1, FS_RemoveElement
    <3>3. Cardinality(outstanding \ {h}) <= Capacity
      BY <3>1, <3>2, Bounds
    <3> QED
      BY <1>1, <3>2, <3>3
  <2> QED
    BY <1>1, <2>1 DEF Types, provider, ownership, receipts
<1>5. QueueOver' /\ FailsForCause'
  BY <1>1 DEF QueueOver, FailsForCause, Refuses, Ended, provider
<1>6. Ledger'
  <2> USE DEF Ledger
  <2>1. Calls'
    BY <1>1, <1>2 DEF Calls, ownership
  <2>2. Numbered' /\ Generations' /\ HandlesOwned' /\ Accounted'
    BY <1>1, <1>2 DEF Numbered, Generations, HandlesOwned, Accounted,
                      CursorIsHeard, ownership, receipts
  <2>3. CutIsOver'
    BY <1>1, <1>2 DEF CutIsOver, OneCancelEach, ownership, provider, receipts
  <2> QED
    BY <2>1, <2>2, <2>3
<1>7. AllIsThere'
  <2>1. \A x \in Responses : Blocked(x)' = Blocked(x) /\ Unheard(x)' = Unheard(x)
    BY <1>1 DEF Blocked, Unheard
  <2> QED
    BY <1>1, <1>2, <2>1 DEF AllIsThere, provider, receipts
<1> QED
  BY <1>3, <1>4, <1>5, <1>6, <1>7

---------------------------------------------------------------------------
LEMMA S2SStep == ASSUME S2SInv, [Next]_vars PROVE S2SInv'
<1>1. CASE Next
  BY <1>1, ProviderStepInv, OnsetInv, TakeEventInv, WakeScheduleInv, FinishDrainInv,
     IgnoreOnsetInv, BargeInInv, TellProviderInv, InterruptRefusedInv, EndBargeInInv,
     SoundInv, QuietInv
     DEF Next, SchedulerStep, SinkStep
<1>2. CASE UNCHANGED vars
  BY <1>2, S2SStays DEF vars
<1> QED
  BY <1>1, <1>2

(* S2SPipeline (s2s.py): the queue, the registry of responses, the ledger  *)
(* of the sink and the receipts agree in every state.                      *)
THEOREM SpecS2SInv == Spec => []S2SInv
<1> QED
  BY S2SInitInv, S2SStep, PTL DEF Spec

(* The two invariants of the runs follow.                                  *)
LEMMA S2SInvClean == ASSUME S2SInv PROVE CutIsClean
<1> USE DEF S2SInv, Ledger
<1>1. TypeOK
  <2>1. Cardinality(calls) <= 1
    <3>1. CASE Responses = {}
      <4>1. calls = {}
        BY <3>1 DEF Types, Call
      <4> QED
        BY <4>1, FS_EmptySet
    <3>2. CASE Responses # {}
      BY <3>2, CountsAreNumbers
    <3> QED
      BY <3>1, <3>2
  <2> QED
    BY <2>1 DEF TypeOK, Types
<1>2. CutIsSilent
  BY DEF CutIsSilent, HandlesOwned
<1>3. OneCancelEach /\ CursorIsHeard
  BY DEF CutIsOver, Accounted
<1> QED
  BY <1>1, <1>2, <1>3 DEF CutIsClean

LEMMA S2SInvSpares == ASSUME S2SInv PROVE OthersUnharmed
<1> USE DEF S2SInv, Ledger
<1>1. ASSUME pc = "done", NEW r \in Responses \ Cut PROVE Cardinality(heard[r]) = audio[r]
  <2>1. events = <<>> /\ outstanding = {} /\ calls = {}
    BY <1>1 DEF QueueOver, Calls
  <2>2. Queued(events, r) = {} /\ Blocked(r) = {} /\ Unheard(r) = {}
    BY <2>1 DEF Queued, Blocked, Unheard
  <2>3. Cardinality({}) = 0 /\ Cardinality(heard[r]) \in Nat
    BY CountsAreNumbers, FS_EmptySet
  <2> QED
    BY <2>2, <2>3 DEF AllIsThere
<1> QED
  BY <1>1 DEF OthersUnharmed, UncutIsHeard

(* _handle_barge_in(): once a barge-in has cut a response, no chunk of it  *)
(* is queued or sounds again, the provider is told of it at most once, and *)
(* what it is told was heard is what was heard.                            *)
THEOREM S2SCutIsClean == Spec => []CutIsClean
<1> QED
  BY SpecS2SInv, S2SInvClean, PTL

(* _dispatch_event(), _on_response_done(), _handle_barge_in(): the session *)
(* fails only if the provider did, or if it refused, its stream over, the  *)
(* interrupt for a response that is cut; and at the session's end every    *)
(* chunk of every response that no barge-in cut has been heard.            *)
THEOREM S2SOthersUnharmed == Spec => []OthersUnharmed
<1> QED
  BY SpecS2SInv, S2SInvSpares, PTL

(* _interrupt_target_locked(): an onset is put aside as a new turn only    *)
(* when the sink holds no chunk of any response.                           *)
THEOREM S2SIgnoredOnsetsAreIdle == Spec => IgnoredOnsetsAreIdle
<1>1. ASSUME S2SInv, [Next]_vars
      PROVE  [interrupt /\ ~interrupt' /\ pc \notin {"cut", "cutDrain"} => outstanding = {}]_vars
  <2> SUFFICES ASSUME interrupt, ~interrupt', pc \notin {"cut", "cutDrain"}, Next
               PROVE  outstanding = {}
    BY <1>1
  <2>1. CASE IgnoreOnset
    BY <1>1, <2>1, TargetIsUncut DEF IgnoreOnset
  <2> QED
    BY <2>1 DEF Next, ProviderStep, Onset, SchedulerStep, SinkStep, TakeEvent, WakeSchedule,
                FinishDrain, BargeIn, TellProvider, InterruptRefused, EndBargeIn, Sound,
                Quiet
<1> QED
  BY <1>1, SpecS2SInv, PTL DEF Spec, IgnoredOnsetsAreIdle
=============================================================================
